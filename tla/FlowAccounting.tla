--------------------------- MODULE FlowAccounting ---------------------------
(***************************************************************************)
(* The accounts of one flow, kept by the end node (sch_fastpass.c) and by  *)
(* the arbiter (comm_core.c): the end node counts the timeslots it needs,  *)
(* has requested, knows to be requested, was allocated and has used; the   *)
(* arbiter counts demand and allocations and reports the latter.           *)
(*                                                                         *)
(* The control channel is used as FpChannel and FpReset describe it: a     *)
(* packet is processed at most once, in any order or never; it is acked    *)
(* only after that; it is reported lost at most once and not after its     *)
(* ack; a packet of another epoch is dropped, or starts its epoch.         *)
(*                                                                         *)
(* Each step of the end node is what happens under the flow's lock or      *)
(* under the connection lock.  send_request reads the counters before it   *)
(* takes the connection lock to commit its packet; handle_reset zeroes the *)
(* totals before it takes the flow's lock to rebase the counters, with the *)
(* connection lock held unless the reset is forced; handle_alloc adds to   *)
(* the total of allocations after it gave up the flow's lock.  One CPU     *)
(* receives the end node's control packets.                                *)
(***************************************************************************)
EXTENDS Integers

CONSTANTS ReqSlots,       \* requests that exist at a time
          AllocSlots,     \* packets of the arbiter that exist at a time
          WINDOW,         \* FASTPASS_REQUEST_WINDOW_SIZE
          M,              \* counts are sent modulo M: 2^16
          MAX_ENQUEUE,    \* bound: packets the flow is given
          MAX_QLEN,       \* bound: packets that wait in the flow's queue
          MAX_LOSS,       \* bound: losses of timeslots or control packets
          MAX_RESETS,     \* bound: resets and restarts that are not forced
          MAX_EPOCH       \* bound: epochs

NONE == -1

ASSUME FlowAssumption ==
    /\ WINDOW \in Nat /\ WINDOW > 1
    /\ M \in Nat /\ M % 2 = 0 /\ WINDOW <= M \div 2
    /\ MAX_ENQUEUE \in Nat /\ MAX_QLEN \in Nat /\ MAX_LOSS \in Nat
    /\ MAX_QLEN < M \div 2
    /\ MAX_RESETS \in Nat /\ MAX_EPOCH \in Nat

VARIABLES dst,       \* the end node's fp_dst
          qlen,      \* packets waiting in the flow's queue
          gap,       \* q->demand_tslots - q->alloc_tslots
          owed,      \* timeslots used and not yet added to q->alloc_tslots
          triggered, \* the request pacer is triggered
          building,  \* the count send_request is about to commit, or NONE
          rx,        \* how far the CPU that receives has come, and with which packet
          en,        \* the arbiter's end_node_state for the flow
          work,      \* the flow in the allocator
          epoch,     \* the epoch of either side
          reqs,      \* request packets
          allocs,    \* packets with allocations and reports
          enqueued, losses, resets, \* counters for the bounds
          bug        \* a FASTPASS_BUG_ON has fired

endnode == <<dst, qlen, gap, owed, triggered, building, rx>>
arbiter == <<en, work>>
bounds == <<enqueued, losses, resets>>
vars == <<endnode, arbiter, epoch, reqs, allocs, bounds, bug>>

E == "endnode"
C == "arbiter"

FREE == [open |-> FALSE, live |-> FALSE]

(* The receiving CPU: it is about to execute a forced reset (FORCED); the   *)
(* totals are zeroed and the counters not rebased, without the connection   *)
(* lock (BARE) or with it (LOCKED); the payloads of a RESET packet follow.  *)
IDLE == "idle"
FORCED == "forced"
BARE == "bare"
LOCKED == "locked"
PAYLOADS == "payloads"

at(where, s) == [at |-> where, pkt |-> s]

\* A new epoch has begun and the flow still has the counters of the old one.
resetting == rx.at \in {FORCED, BARE, LOCKED}

zeroed == rx.at \in {BARE, LOCKED}

conn_lock_free == rx.at # LOCKED

\* The full count with the given low bits, around a reference.
full_count(low, ref) == (ref - M \div 2) + ((low - (ref - M \div 2)) % M)

smaller(a, b) == IF a <= b THEN a ELSE b

-----------------------------------------------------------------------------
(* Packets.                                                                *)

\* fpproto_commit_packet: the sender remembers the packet, the network has it.
commit(pkts, s, e, payload) ==
    [pkts EXCEPT ![s] = [open |-> TRUE, live |-> TRUE, got |-> FALSE, nacked |-> FALSE,
                         epoch |-> e, body |-> payload]]

settle(p) == IF p.open \/ p.live THEN p ELSE FREE

processed(pkts, s) == [pkts EXCEPT ![s] = settle([@ EXCEPT !.live = FALSE, !.got = TRUE])]
closed(pkts, s) == [pkts EXCEPT ![s] = settle([@ EXCEPT !.open = FALSE])]
nacked(pkts, s) == [pkts EXCEPT ![s].nacked = TRUE]

\* free_unacked
free_unacked(pkts) ==
    [s \in DOMAIN pkts |-> IF pkts[s] = FREE THEN FREE ELSE settle([pkts[s] EXCEPT !.open = FALSE])]

-----------------------------------------------------------------------------
(* The end node.                                                           *)

\* unreq_dsts_enqueue_if_not_queued also triggers the pacer when it enqueues.
enqueue(d) == [d EXCEPT !.queued = TRUE]

\* handle_reset: a flow with nothing pending keeps its counters.
rebased(d) ==
    IF d.demand = d.used THEN d
    ELSE enqueue([d EXCEPT !.demand = @ - d.used, !.requested = 0, !.acked = 0,
                           !.alloc = 0, !.used = 0])

\* fpq_add_timeslot for a packet put into the flow's queue.
add_timeslot ==
    /\ enqueued < MAX_ENQUEUE /\ qlen < MAX_QLEN
    /\ enqueued' = enqueued + 1
    /\ qlen' = qlen + 1
    /\ dst' = enqueue([dst EXCEPT !.demand = @ + 1])
    /\ triggered' = (triggered \/ ~dst.queued)
    /\ gap' = gap + 1
    /\ UNCHANGED <<owed, building, rx, arbiter, epoch, reqs, allocs, losses, resets, bug>>

mut_new_requested == dst.acked + WINDOW - 1

new_requested == smaller(dst.demand, dst.acked + WINDOW - 1)

\* send_request up to the second lock.
send_request ==
    /\ triggered /\ building = NONE
    /\ \E s \in ReqSlots : reqs[s] = FREE
    /\ triggered' = FALSE
    /\ IF dst.queued /\ new_requested > dst.acked
       THEN /\ building' = new_requested
            /\ dst' = [dst EXCEPT !.queued = FALSE, !.requested = new_requested]
       ELSE /\ building' = 0
            /\ dst' = [dst EXCEPT !.queued = FALSE]
    /\ UNCHANGED <<qlen, gap, owed, rx, arbiter, epoch, reqs, allocs, bounds, bug>>

\* The rest of it.  A packet without requests still carries the epoch.
send_request_commit(s) ==
    /\ building # NONE /\ conn_lock_free
    /\ reqs[s] = FREE
    /\ building' = NONE
    /\ reqs' = IF building = 0 /\ epoch[E] = epoch[C] THEN reqs
               ELSE commit(reqs, s, epoch[E], building)
    /\ triggered' = (triggered \/ gap # 0)
    /\ UNCHANGED <<dst, qlen, gap, owed, rx, arbiter, epoch, allocs, bounds, bug>>

new_acked(p) == p.body

\* handle_ack
handle_ack(s) ==
    LET p == reqs[s]
        newer == new_acked(p) > dst.acked
        d == IF newer THEN [dst EXCEPT !.acked = new_acked(p)] ELSE dst
        again == newer /\ dst.requested # dst.demand
    IN  /\ p # FREE /\ p.open /\ p.got /\ conn_lock_free
        /\ reqs' = closed(reqs, s)
        /\ bug' = (bug \/ (newer /\ new_acked(p) > dst.demand))
        /\ dst' = IF again THEN enqueue(d) ELSE d
        /\ triggered' = (triggered \/ (again /\ ~dst.queued))
        /\ UNCHANGED <<qlen, gap, owed, building, rx, arbiter, epoch, allocs, bounds>>

mut_nack_queues(p) == FALSE

nack_queues(p) == p.body > dst.acked

\* handle_neg_ack
handle_neg_ack(s) ==
    LET p == reqs[s] IN
    /\ p # FREE /\ p.open /\ ~p.nacked /\ conn_lock_free
    /\ reqs' = nacked(reqs, s)
    /\ dst' = IF nack_queues(p) THEN enqueue(dst) ELSE dst
    /\ triggered' = (triggered \/ (nack_queues(p) /\ ~dst.queued))
    /\ UNCHANGED <<qlen, gap, owed, building, rx, arbiter, epoch, allocs, bounds, bug>>

\* A nacked packet leaves the send window.
fall_off(s) ==
    /\ reqs[s] # FREE /\ reqs[s].open /\ reqs[s].nacked /\ conn_lock_free
    /\ reqs' = closed(reqs, s)
    /\ UNCHANGED <<endnode, arbiter, epoch, allocs, bounds, bug>>

\* The flow after handle_alloc, of whose timeslots n are neither too late nor too early.
after_alloc(d, n) ==
    LET k == smaller(n, d.demand - d.used)
    IN  [d EXCEPT !.alloc = @ + k, !.used = @ + k]

\* A-REQ payload: the count of a report in the end node's numbers.
reported(p, d) == IF p.body.report = NONE THEN d.alloc ELSE full_count(p.body.report % M, d.alloc)

after_report(d, count) ==
    LET lost == count - d.alloc
    IN  IF lost <= 0 THEN d
        ELSE enqueue([d EXCEPT !.alloc = @ + lost, !.used = @ + lost, !.demand = @ + lost])

\* A packet of a later epoch resets its receiver before its payloads are handled.
arrives(i, p) ==
    /\ p # FREE /\ p.live
    /\ p.epoch >= epoch[i]

latest == IF epoch[E] >= epoch[C] THEN epoch[E] ELSE epoch[C]

\* do_proto_reset, and handle_reset up to its loop: the connection lock is held.
new_epoch(e, s) ==
    /\ rx.at = IDLE /\ owed = 0
    /\ epoch' = [epoch EXCEPT ![E] = e]
    /\ reqs' = free_unacked(reqs)
    /\ gap' = 0
    /\ rx' = at(LOCKED, s)
    /\ UNCHANGED <<dst, qlen, owed, triggered, building, arbiter, allocs, enqueued, losses, bug>>

\* reset_payload_handler accepts the RESET of a packet.
endnode_rx_reset(s) ==
    /\ arrives(E, allocs[s]) /\ allocs[s].epoch > epoch[E]
    /\ new_epoch(allocs[s].epoch, s)
    /\ UNCHANGED resets

\* got_bad_packet, when there were too many
endnode_reset ==
    /\ resets < MAX_RESETS /\ latest < MAX_EPOCH
    /\ resets' = resets + 1
    /\ new_epoch(latest + 1, NONE)

\* A forced reset goes on to handle_reset after it gave up the connection lock.
zero_totals ==
    /\ rx.at = FORCED /\ owed = 0
    /\ gap' = 0
    /\ rx' = at(BARE, NONE)
    /\ UNCHANGED <<dst, qlen, owed, triggered, building, arbiter, epoch, reqs, allocs, bounds, bug>>

\* What handle_reset adds to q->demand_tslots for a flow
still_needed(d) == d.demand - d.used

\* The loop of handle_reset, and the trigger that ends got_bad_packet
rebase ==
    /\ zeroed
    /\ dst' = rebased(dst)
    /\ gap' = gap + still_needed(dst)
    /\ triggered' = (triggered \/ rebased(dst).queued # dst.queued \/ rx = at(LOCKED, NONE))
    /\ rx' = IF rx.pkt = NONE THEN at(IDLE, NONE) ELSE at(PAYLOADS, rx.pkt)
    /\ UNCHANGED <<qlen, owed, building, arbiter, epoch, reqs, allocs, bounds, bug>>

\* ctrl_rcv_handler: handle_alloc, then handle_areq, which forces a reset when the
\* arbiter reports more than was requested.
endnode_rx(s) ==
    LET p == allocs[s]
    IN  /\ arrives(E, p) /\ p.epoch = epoch[E]
        /\ rx = at(IDLE, NONE) \/ rx = at(PAYLOADS, s)
        /\ owed = 0
        /\ \E missed \in 0 .. smaller(p.body.n, MAX_LOSS - losses) :
             LET d1 == after_alloc(dst, p.body.n - missed)
                 count == reported(p, d1)
                 larger == count > d1.alloc /\ count > d1.requested
             IN  /\ larger => latest < MAX_EPOCH
                 /\ dst' = IF larger THEN d1 ELSE after_report(d1, count)
                 /\ losses' = losses + missed
                 /\ qlen' = qlen - (d1.used - dst.used)
                 /\ owed' = d1.used - dst.used
                 /\ rx' = at(IF larger THEN FORCED ELSE IDLE, NONE)
                 /\ epoch' = IF larger THEN [epoch EXCEPT ![E] = latest + 1] ELSE epoch
                 /\ reqs' = IF larger THEN free_unacked(reqs) ELSE reqs
        /\ allocs' = processed(allocs, s)
        /\ triggered' = (triggered \/ p.body.n > 0 \/ p.body.report # NONE)
        /\ UNCHANGED <<gap, building, arbiter, enqueued, resets, bug>>

\* handle_alloc adds to q->alloc_tslots once the flow is released.
count_alloc ==
    /\ owed > 0
    /\ owed' = owed - 1
    /\ gap' = gap - 1
    /\ UNCHANGED <<dst, qlen, triggered, building, rx, arbiter, epoch, reqs, allocs, bounds, bug>>

-----------------------------------------------------------------------------
(* The arbiter.                                                            *)

no_accounts == [demands |-> 0, alloc_to_dst |-> 0, acked_allocs |-> 0, is_pending |-> FALSE,
                pending |-> 0, triggered |-> FALSE]

idle == [active |-> FALSE, n |-> 0, edge |-> 0, admitted |-> 0]

\* handle_reset: the flow's edge in the allocator, the timeslots it has admitted and
\* those not yet sent remain.
arbiter_reset(e) == [no_accounts EXCEPT !.pending = e.pending, !.triggered = e.triggered]

\* seq_add_backlog
add_backlog(w, amount) ==
    IF w.active THEN [w EXCEPT !.n = @ + amount]
    ELSE [w EXCEPT !.active = TRUE, !.edge = amount]

\* trigger_report
trigger_report(e) == [e EXCEPT !.is_pending = TRUE, !.triggered = @ \/ ~e.is_pending]

demand_of(low, ref) == full_count(low, ref)

\* fpproto_handle_rx_complete: RESET, then handle_areq.
arbiter_rx(s) ==
    LET p == reqs[s]
        reset == p.epoch > epoch[C]
        e0 == IF reset THEN arbiter_reset(en) ELSE en
        w0 == IF reset THEN [work EXCEPT !.n = 0] ELSE work
        demand == demand_of(p.body % M, e0.demands)
        grows == p.body > 0 /\ demand > e0.demands
    IN  /\ arrives(C, p)
        /\ epoch' = [epoch EXCEPT ![C] = p.epoch]
        /\ en' = [e0 EXCEPT !.demands = IF grows THEN demand ELSE @,
                            !.triggered = @ \/ reset \/ p.body > 0]
        /\ work' = IF grows THEN add_backlog(w0, demand - e0.demands) ELSE w0
        /\ reqs' = processed(reqs, s)
        /\ allocs' = IF reset THEN free_unacked(allocs) ELSE allocs
        /\ UNCHANGED <<endnode, bounds, bug>>

\* The allocator admits the flow in a timeslot.
try_allocation ==
    /\ work.edge > 0
    /\ work' = [work EXCEPT !.edge = @ - 1, !.admitted = @ + 1]
    /\ UNCHANGED <<endnode, en, epoch, reqs, allocs, bounds, bug>>

mut_spent_backlog(w) == [w EXCEPT !.active = FALSE, !.n = 0]

spent_backlog(w) ==
    IF w.n = 0 THEN [w EXCEPT !.active = FALSE] ELSE [w EXCEPT !.edge = w.n, !.n = 0]

seq_handle_spent ==
    /\ work.active /\ work.edge = 0
    /\ work' = spent_backlog(work)
    /\ UNCHANGED <<endnode, en, epoch, reqs, allocs, bounds, bug>>

process_allocated_traffic ==
    /\ work.admitted > 0
    /\ work' = [work EXCEPT !.admitted = @ - 1]
    /\ en' = trigger_report([en EXCEPT !.pending = @ + 1, !.alloc_to_dst = @ + 1])
    /\ UNCHANGED <<endnode, epoch, reqs, allocs, bounds, bug>>

\* tx_end_node: fill_packet_alloc, fill_packet_report, commit.
tx_end_node(s) ==
    LET body == [n |-> en.pending, report |-> IF en.is_pending THEN en.alloc_to_dst ELSE NONE] IN
    /\ en.triggered
    /\ allocs[s] = FREE
    /\ en' = [en EXCEPT !.pending = 0, !.is_pending = FALSE, !.triggered = FALSE]
    /\ allocs' = IF body = [n |-> 0, report |-> NONE] /\ epoch[E] = epoch[C] THEN allocs
                 ELSE commit(allocs, s, epoch[C], body)
    /\ UNCHANGED <<endnode, work, epoch, reqs, bounds, bug>>

arbiter_handle_ack(s) ==
    LET p == allocs[s] IN
    /\ p # FREE /\ p.open /\ p.got
    /\ en' = IF p.body.report > en.acked_allocs THEN [en EXCEPT !.acked_allocs = p.body.report] ELSE en
    /\ allocs' = closed(allocs, s)
    /\ UNCHANGED <<endnode, work, epoch, reqs, bounds, bug>>

mut_report_again(p) == FALSE

report_again(p) == p.body.report > en.acked_allocs

arbiter_handle_neg_ack(s) ==
    LET p == allocs[s] IN
    /\ p # FREE /\ p.open /\ ~p.nacked
    /\ en' = IF report_again(p) THEN trigger_report(en) ELSE en
    /\ allocs' = nacked(allocs, s)
    /\ UNCHANGED <<endnode, work, epoch, reqs, bounds, bug>>

arbiter_fall_off(s) ==
    /\ allocs[s] # FREE /\ allocs[s].open /\ allocs[s].nacked
    /\ allocs' = closed(allocs, s)
    /\ UNCHANGED <<endnode, arbiter, epoch, reqs, bounds, bug>>

\* Too many bad packets.
arbiter_proto_reset ==
    /\ resets < MAX_RESETS /\ latest < MAX_EPOCH
    /\ resets' = resets + 1
    /\ epoch' = [epoch EXCEPT ![C] = latest + 1]
    /\ allocs' = free_unacked(allocs)
    /\ en' = [arbiter_reset(en) EXCEPT !.triggered = TRUE]
    /\ work' = [work EXCEPT !.n = 0]
    /\ UNCHANGED <<endnode, reqs, enqueued, losses, bug>>

\* The arbiter is started anew.
arbiter_restart ==
    /\ resets < MAX_RESETS /\ latest < MAX_EPOCH
    /\ resets' = resets + 1
    /\ epoch' = [epoch EXCEPT ![C] = latest + 1]
    /\ allocs' = free_unacked(allocs)
    /\ en' = no_accounts
    /\ work' = idle
    /\ UNCHANGED <<endnode, reqs, enqueued, losses, bug>>

-----------------------------------------------------------------------------

lost(pkts, s) == [pkts EXCEPT ![s] = settle([@ EXCEPT !.live = FALSE])]

lose(s) ==
    /\ losses < MAX_LOSS /\ rx.pkt # s
    /\ losses' = losses + 1
    /\ \/ s \in ReqSlots /\ reqs[s].live /\ reqs' = lost(reqs, s) /\ UNCHANGED allocs
       \/ s \in AllocSlots /\ allocs[s].live /\ allocs' = lost(allocs, s) /\ UNCHANGED reqs
    /\ UNCHANGED <<endnode, arbiter, epoch, enqueued, resets, bug>>

\* got_bad_packet below its threshold: a packet of an epoch its receiver has left is
\* dropped, and triggers one that carries the new epoch.
arbiter_got_bad_packet(s) ==
    /\ reqs[s].live /\ reqs[s].epoch < epoch[C]
    /\ reqs' = lost(reqs, s)
    /\ en' = [en EXCEPT !.triggered = TRUE]
    /\ UNCHANGED <<endnode, work, epoch, allocs, bounds, bug>>

endnode_got_bad_packet(s) ==
    /\ rx.at = IDLE
    /\ allocs[s].live /\ allocs[s].epoch < epoch[E]
    /\ allocs' = lost(allocs, s)
    /\ triggered' = TRUE
    /\ UNCHANGED <<dst, qlen, gap, owed, building, rx, arbiter, epoch, reqs, bounds, bug>>

\* A flow at rest that has sent k packets
AtRest(k) ==
    /\ dst = [demand |-> k, requested |-> k, acked |-> k, alloc |-> k, used |-> k, queued |-> FALSE]
    /\ qlen = 0 /\ gap = 0 /\ owed = 0 /\ triggered = FALSE /\ building = NONE /\ rx = at(IDLE, NONE)
    /\ en = [no_accounts EXCEPT !.demands = k, !.alloc_to_dst = k, !.acked_allocs = k]
    /\ work = idle
    /\ epoch = [i \in {E, C} |-> 0]
    /\ reqs = [s \in ReqSlots |-> FREE] /\ allocs = [s \in AllocSlots |-> FREE]
    /\ enqueued = 0 /\ losses = 0 /\ resets = 0
    /\ bug = FALSE

Init == AtRest(0)

Requests(s) ==
    \/ send_request_commit(s) \/ handle_ack(s) \/ handle_neg_ack(s) \/ fall_off(s)
    \/ arbiter_rx(s) \/ arbiter_got_bad_packet(s)

Allocations(s) ==
    \/ tx_end_node(s) \/ arbiter_handle_ack(s) \/ arbiter_handle_neg_ack(s) \/ arbiter_fall_off(s)
    \/ endnode_rx_reset(s) \/ endnode_rx(s) \/ endnode_got_bad_packet(s)

Allocator == try_allocation \/ seq_handle_spent \/ process_allocated_traffic

Resets == endnode_reset \/ arbiter_proto_reset \/ arbiter_restart

Next ==
    /\ ~bug
    /\ \/ add_timeslot \/ send_request \/ zero_totals \/ rebase \/ count_alloc \/ Allocator \/ Resets
       \/ \E s \in ReqSlots : Requests(s)
       \/ \E s \in AllocSlots : Allocations(s)
       \/ \E s \in ReqSlots \cup AllocSlots : lose(s)

Spec == Init /\ [][Next]_vars

\* Tasklets and the arbiter's cores keep running, a packet that is not lost arrives,
\* and not every packet or ack comes after its timeout.
Fairness ==
    /\ WF_vars(send_request) /\ WF_vars(zero_totals) /\ WF_vars(rebase) /\ WF_vars(count_alloc)
    /\ WF_vars(try_allocation) /\ WF_vars(seq_handle_spent) /\ WF_vars(process_allocated_traffic)
    /\ \A s \in ReqSlots :
         /\ WF_vars(send_request_commit(s)) /\ SF_vars(handle_ack(s)) /\ WF_vars(fall_off(s))
         /\ WF_vars(handle_neg_ack(s)) /\ WF_vars(arbiter_got_bad_packet(s))
         /\ WF_vars(arbiter_rx(s)) /\ SF_vars(reqs[s].open /\ arbiter_rx(s))
    /\ \A s \in AllocSlots :
         /\ WF_vars(tx_end_node(s)) /\ SF_vars(arbiter_handle_ack(s)) /\ WF_vars(arbiter_fall_off(s))
         /\ WF_vars(arbiter_handle_neg_ack(s)) /\ WF_vars(endnode_got_bad_packet(s))
         /\ WF_vars(endnode_rx_reset(s)) /\ SF_vars(allocs[s].open /\ endnode_rx_reset(s))
         /\ WF_vars(endnode_rx(s)) /\ SF_vars(allocs[s].open /\ endnode_rx(s))

FairSpec == Spec /\ Fairness

-----------------------------------------------------------------------------

\* While packets wait, demand the arbiter has not confirmed is queued with the pacer
\* triggered, in a request being made, or in a packet whose ack or loss is still to be
\* reported: it is not forgotten.
DemandPending ==
    qlen > 0 /\ dst.demand > dst.acked /\ ~resetting =>
        \/ dst.queued /\ triggered
        \/ building > dst.acked
        \/ \E s \in ReqSlots : reqs[s].open /\ ~reqs[s].nacked /\ reqs[s].body > dst.acked

\* Until a reset the arbiter never believes in more demand than was requested, and the
\* end node never requests more than it has, whatever is lost, repeated or reordered; so
\* an ack is never for more than the demand (FASTPASS_BUG_ON in handle_ack), and what the
\* end node takes for acked the arbiter has counted.
DemandsAgree ==
    resets = 0 =>
        /\ epoch[E] = epoch[C] => en.demands <= dst.requested /\ dst.requested <= dst.demand
        /\ epoch[E] = epoch[C] /\ ~resetting => dst.acked <= en.demands
        /\ ~bug

\* The flow's account at the end node matches its queue: a timeslot is counted as used
\* exactly when a packet leaves, and one reported lost is asked for again.  The totals
\* that decide whether another request is due are exact until the end node is reset; a
\* reset counts a packet that is queued meanwhile twice, so later they may be too large,
\* and are never too small outside handle_reset.  Until a reset the arbiter admits
\* exactly the demand it was told.
Conserved ==
    /\ qlen = dst.demand - dst.used
    /\ epoch[E] = 0 => gap = qlen + owed
    /\ ~zeroed => gap >= qlen + owed
    /\ resets = 0 => en.alloc_to_dst + work.admitted + work.edge + work.n = en.demands

\* Every packet that is queued is sent in the end.
Drained == (qlen > 0) ~> (qlen = 0)

=============================================================================
