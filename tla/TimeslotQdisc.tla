--------------------------- MODULE TimeslotQdisc ---------------------------
(***************************************************************************)
(* The end node's queueing discipline (kernel-mod/sch_timeslot.c).         *)
(*                                                                         *)
(* A data packet goes from enqueue_skb_q, through a tasklet, to a queue    *)
(* of its flow that fills one timeslot; the scheduler (sch_fastpass.c) is  *)
(* told of each new timeslot, and when the arbiter has allocated it, the   *)
(* queue is appended to prequeue, and goes through reg_prio to the device. *)
(* Other packets are put into hi_prio and reg_prio at once.                *)
(*                                                                         *)
(* tsq_enqueue, tsq_dequeue and tsq_tc_reset hold the kernel's root lock.  *)
(* The tasklet and the CPUs that receive allocations hold only             *)
(* hash_tbl_lock and prequeue_lock, one at a time, and every such critical *)
(* section is a step.  Statistics, and counters that are only displayed,   *)
(* are left out; so is the throttled bit, which nobody reads.              *)
(***************************************************************************)
EXTENDS Integers, Sequences, FiniteSets, FiniteSetsExt, Functions

CONSTANTS Flows,       \* destinations of data packets
          Cpus,        \* CPUs on which allocations arrive
          Costs,       \* times that packets take on the wire
          TSLOT_LEN,   \* tslot_len_approx
          LIMIT,       \* sch->limit
          MAX_PKTS,    \* bound on the number of packets
          MAX_RESETS   \* bound on the number of resets of the qdisc

ASSUME QdiscAssumption ==
    /\ Costs \subseteq Nat \ {0} /\ TSLOT_LEN \in Nat \ {0} /\ LIMIT \in Nat \ {0}
    /\ MAX_PKTS \in Nat /\ MAX_RESETS \in Nat /\ IsFiniteSet(Cpus)

HI == "hi_prio"
REG == "reg_prio"
Classes == Flows \cup {HI, REG}

\* Where a thread is between two critical sections
IDLE == [at |-> "idle"]
WAKE == [at |-> "wake"]
ADMIT(f) == [at |-> "admit", flow |-> f]
APPEND(skbs) == [at |-> "append", skbs |-> skbs]
ADD(f) == [at |-> "add", flow |-> f]

\* Why hash_tbl_lock was left locked, if it was
RELEASED == "released"
NO_MEMORY == "no memory"
NO_TIMESLOT == "no timeslot"

VARIABLES enqueue_skb_q, hi_prio, reg_prio, prequeue,
          dst_hash_tbl,   \* the flows that exist: skb_qs and credit of each
          qlen,           \* sch->q.qlen
          enqueue_tasklet,\* is it scheduled; the list it works on; where it is
          scheduled,      \* __QDISC_STATE_SCHED: the softirq will run the qdisc
          running,        \* the kernel is dequeuing
          waiting,        \* the scheduler's demand_tslots - used_tslots of a flow
          cpu,            \* where each CPU is in admitting a timeslot
          leaked,         \* why a function returned with hash_tbl_lock locked
          accepted, sent, \* history: packets of each class taken and given
          unordered,      \* history: flows whose packets may have passed each other
          resets

queues == <<enqueue_skb_q, hi_prio, reg_prio, prequeue, dst_hash_tbl>>
history == <<accepted, sent, unordered, resets>>
vars == <<queues, qlen, enqueue_tasklet, scheduled, running, waiting, cpu, leaked, history>>

Init ==
    /\ enqueue_skb_q = <<>> /\ hi_prio = <<>> /\ reg_prio = <<>> /\ prequeue = <<>>
    /\ dst_hash_tbl = [f \in {} |-> <<>>]
    /\ qlen = 0
    /\ enqueue_tasklet = [scheduled |-> FALSE, next |-> <<>>, pc |-> IDLE]
    /\ scheduled = FALSE /\ running = FALSE
    /\ waiting = [f \in Flows |-> 0]
    /\ cpu = [c \in Cpus |-> IDLE]
    /\ leaked = RELEASED
    /\ accepted = [x \in Classes |-> 0] /\ sent = [x \in Classes |-> 0]
    /\ unordered = {} /\ resets = 0

-----------------------------------------------------------------------------
(* Entering the qdisc, under the root lock.                                *)

packet(x, cost) == [to |-> x, n |-> accepted[x] + 1, cost |-> cost]

taken(x) ==
    /\ SumFunction(accepted) < MAX_PKTS
    /\ accepted' = [accepted EXCEPT ![x] = @ + 1]
    /\ qlen' = qlen + 1
    /\ UNCHANGED <<prequeue, dst_hash_tbl, running, waiting, cpu, leaked, sent, unordered, resets>>

\* tsq_enqueue of a packet that classify_hi_prio lets through, whatever it costs.
tsq_enqueue_prio(x) ==
    /\ taken(x)
    /\ hi_prio' = IF x = HI THEN Append(hi_prio, packet(x, 0)) ELSE hi_prio
    /\ reg_prio' = IF x = REG THEN Append(reg_prio, packet(x, 0)) ELSE reg_prio
    /\ scheduled' = TRUE
    /\ UNCHANGED <<enqueue_skb_q, enqueue_tasklet>>

above_plimit == qlen >= LIMIT

\* tsq_enqueue of a data packet; one above the limit is dropped.
tsq_enqueue(f, cost) ==
    /\ ~above_plimit
    /\ taken(f)
    /\ enqueue_skb_q' = Append(enqueue_skb_q, packet(f, cost))
    /\ enqueue_tasklet' = [enqueue_tasklet EXCEPT !.scheduled = TRUE]
    /\ UNCHANGED <<hi_prio, reg_prio, scheduled>>

-----------------------------------------------------------------------------
(* The tasklet.                                                            *)

\* Whoever takes hash_tbl_lock after it was left locked spins for ever.
hash_tbl_lock_free == leaked = RELEASED

\* enqueue_tasklet_func takes the whole list.
enqueue_tasklet_func ==
    /\ enqueue_tasklet.scheduled
    /\ enqueue_tasklet.next = <<>> /\ enqueue_tasklet.pc = IDLE
    /\ enqueue_tasklet' = [scheduled |-> FALSE, next |-> enqueue_skb_q, pc |-> IDLE]
    /\ enqueue_skb_q' = <<>>
    /\ UNCHANGED <<hi_prio, reg_prio, prequeue, dst_hash_tbl, qlen, scheduled, running, waiting, cpu, leaked, history>>

tasklet_goes_on(pc) ==
    enqueue_tasklet' = [enqueue_tasklet EXCEPT !.next = Tail(@), !.pc = pc]

tasklet_at_skb ==
    /\ enqueue_tasklet.pc = IDLE /\ enqueue_tasklet.next # <<>>
    /\ hash_tbl_lock_free
    /\ UNCHANGED <<enqueue_skb_q, hi_prio, reg_prio, qlen, scheduled, running, waiting, cpu, accepted, sent, resets>>

new_dst == [skb_qs |-> <<>>, credit |-> 0]

\* dst_lookup, which creates the flow if it is missing
dst_lookup(f) == IF f \in DOMAIN dst_hash_tbl THEN dst_hash_tbl[f] ELSE new_dst

with_dst(f, dst) ==
    [g \in DOMAIN dst_hash_tbl \cup {f} |-> IF g = f THEN dst ELSE dst_hash_tbl[g]]

\* A packet goes into the last timeslot if it fits there, and into a new one if not.
with_skb(dst, skb) ==
    IF skb.cost > dst.credit
    THEN [skb_qs |-> Append(dst.skb_qs, <<skb>>), credit |-> TSLOT_LEN - skb.cost]
    ELSE [skb_qs |-> [dst.skb_qs EXCEPT ![Len(dst.skb_qs)] = Append(@, skb)],
          credit |-> dst.credit - skb.cost]

enqueue_single_skb ==
    LET skb == Head(enqueue_tasklet.next)
        dst == dst_lookup(skb.to)
    IN  /\ tasklet_at_skb
        /\ dst_hash_tbl' = with_dst(skb.to, with_skb(dst, skb))
        /\ tasklet_goes_on(IF skb.cost > dst.credit THEN ADD(skb.to) ELSE IDLE)
        /\ UNCHANGED <<prequeue, leaked, unordered>>

\* There is no memory for the flow or for the timeslot: the packet is let through, and
\* hash_tbl_lock is left locked.  A flow may have been created by then.
enqueue_to_prequeue ==
    LET skb == Head(enqueue_tasklet.next)
        dst == dst_lookup(skb.to)
    IN  /\ tasklet_at_skb
        /\ skb.cost > dst.credit
        /\ dst_hash_tbl' \in {dst_hash_tbl, with_dst(skb.to, dst)}
        /\ prequeue' = Append(prequeue, skb)
        /\ unordered' = unordered \cup {skb.to}
        /\ leaked' = NO_MEMORY
        /\ tasklet_goes_on(WAKE)

\* timeslot_ops->add_timeslot: the scheduler counts a timeslot of demand.
add_timeslot ==
    /\ enqueue_tasklet.pc.at = "add"
    /\ waiting' = [waiting EXCEPT ![enqueue_tasklet.pc.flow] = @ + 1]
    /\ enqueue_tasklet' = [enqueue_tasklet EXCEPT !.pc = IDLE]
    /\ UNCHANGED <<queues, qlen, scheduled, running, cpu, leaked, history>>

tasklet_netif_schedule ==
    /\ enqueue_tasklet.pc = WAKE
    /\ scheduled' = TRUE
    /\ enqueue_tasklet' = [enqueue_tasklet EXCEPT !.pc = IDLE]
    /\ UNCHANGED <<queues, qlen, running, waiting, cpu, leaked, history>>

-----------------------------------------------------------------------------
(* Allocations.                                                            *)

carries(f) == {c \in Cpus : cpu[c].at = "append" /\ \E i \in DOMAIN cpu[c].skbs : cpu[c].skbs[i].to = f}
admits(f) == {c \in Cpus : cpu[c] = ADMIT(f)}

\* handle_alloc counts the timeslot as used and releases the flow.
handle_alloc(c, f) ==
    /\ cpu[c] = IDLE
    /\ waiting[f] > 0
    /\ waiting' = [waiting EXCEPT ![f] = @ - 1]
    /\ cpu' = [cpu EXCEPT ![c] = ADMIT(f)]
    /\ UNCHANGED <<queues, qlen, enqueue_tasklet, scheduled, running, leaked, history>>

mut_without_first(dst) == [dst EXCEPT !.skb_qs = Tail(@)]

\* The last timeslot takes the remaining credit with it.
without_first(dst) ==
    [skb_qs |-> Tail(dst.skb_qs), credit |-> IF Len(dst.skb_qs) = 1 THEN 0 ELSE dst.credit]

at_admit(c) ==
    /\ cpu[c].at = "admit"
    /\ hash_tbl_lock_free
    /\ UNCHANGED <<enqueue_skb_q, hi_prio, reg_prio, prequeue, qlen, enqueue_tasklet, scheduled, running, waiting,
                   accepted, sent, resets>>

\* tsq_admit_now, up to the first unlock.  Another CPU may be about to append an
\* earlier timeslot of the flow.
tsq_admit_now(c) ==
    LET f == cpu[c].flow IN
    /\ at_admit(c)
    /\ dst_lookup(f).skb_qs # <<>>
    /\ dst_hash_tbl' = [dst_hash_tbl EXCEPT ![f] = without_first(@)]
    /\ cpu' = [cpu EXCEPT ![c] = APPEND(Head(dst_hash_tbl[f].skb_qs))]
    /\ unordered' = IF carries(f) = {} THEN unordered ELSE unordered \cup {f}
    /\ UNCHANGED leaked

\* tsq_admit_now returns without releasing hash_tbl_lock if there is no such flow or
\* if it has no timeslot.
tsq_admit_now_fails(c) ==
    /\ at_admit(c)
    /\ dst_lookup(cpu[c].flow).skb_qs = <<>>
    /\ leaked' = NO_TIMESLOT
    /\ cpu' = [cpu EXCEPT ![c] = IDLE]
    /\ UNCHANGED <<dst_hash_tbl, unordered>>

mut_skb_q_append(queue, what) == what \o queue

skb_q_append(queue, what) == queue \o what

put_in_prequeue(c) ==
    /\ cpu[c].at = "append"
    /\ prequeue' = skb_q_append(prequeue, cpu[c].skbs)
    /\ cpu' = [cpu EXCEPT ![c] = WAKE]
    /\ UNCHANGED <<enqueue_skb_q, hi_prio, reg_prio, dst_hash_tbl, qlen, enqueue_tasklet, scheduled, running,
                   waiting, leaked, history>>

netif_schedule(c) ==
    /\ cpu[c] = WAKE
    /\ scheduled' = TRUE
    /\ cpu' = [cpu EXCEPT ![c] = IDLE]
    /\ UNCHANGED <<queues, qlen, enqueue_tasklet, running, waiting, leaked, history>>

-----------------------------------------------------------------------------
(* Leaving the qdisc, under the root lock.                                 *)

\* The kernel dequeues until there is nothing to dequeue, because the softirq was
\* scheduled or of its own accord.
qdisc_run(softirq) ==
    /\ softirq => scheduled
    /\ softirq \/ ~running
    /\ scheduled' = (scheduled /\ ~softirq)
    /\ running' = TRUE
    /\ UNCHANGED <<queues, qlen, enqueue_tasklet, waiting, cpu, leaked, history>>

given(skb) ==
    /\ sent' = [sent EXCEPT ![skb.to] = @ + 1]
    /\ qlen' = qlen - 1
    /\ UNCHANGED running

mut_ready == reg_prio

\* What there is to dequeue when hi_prio is empty: prequeue is moved to reg_prio
\* when that is empty.
ready == IF reg_prio = <<>> THEN prequeue ELSE reg_prio

tsq_dequeue ==
    /\ running
    /\ CASE hi_prio # <<>> ->
              given(Head(hi_prio)) /\ hi_prio' = Tail(hi_prio) /\ UNCHANGED <<reg_prio, prequeue>>
         [] hi_prio = <<>> /\ ready # <<>> ->
              /\ given(Head(ready)) /\ reg_prio' = Tail(ready)
              /\ prequeue' = IF reg_prio = <<>> THEN <<>> ELSE prequeue
              /\ UNCHANGED hi_prio
         [] OTHER -> running' = FALSE /\ UNCHANGED <<hi_prio, reg_prio, prequeue, qlen, sent>>
    /\ UNCHANGED <<enqueue_skb_q, dst_hash_tbl, enqueue_tasklet, scheduled, waiting, cpu, leaked,
                   accepted, unordered, resets>>

\* tsq_tc_reset frees every packet it finds; qlen stays, and the scheduler is not told.
tsq_tc_reset ==
    /\ resets < MAX_RESETS /\ hash_tbl_lock_free
    /\ resets' = resets + 1
    /\ enqueue_skb_q' = <<>> /\ hi_prio' = <<>> /\ reg_prio' = <<>> /\ prequeue' = <<>>
    /\ dst_hash_tbl' = [f \in {} |-> <<>>]
    /\ UNCHANGED <<qlen, enqueue_tasklet, scheduled, running, waiting, cpu, leaked, accepted, sent, unordered>>

mut_collectable(f) == dst_hash_tbl[f].credit = 0

\* May the flow be garbage-collected?
collectable(f) == dst_hash_tbl[f].skb_qs = <<>>

tsq_garbage_collect ==
    /\ hash_tbl_lock_free
    /\ dst_hash_tbl' = [f \in {g \in DOMAIN dst_hash_tbl : ~collectable(g)} |-> dst_hash_tbl[f]]
    /\ UNCHANGED <<enqueue_skb_q, hi_prio, reg_prio, prequeue, qlen, enqueue_tasklet, scheduled, running, waiting,
                   cpu, leaked, history>>

Next ==
    \/ \E f \in Flows, cost \in Costs : tsq_enqueue(f, cost)
    \/ \E x \in {HI, REG} : tsq_enqueue_prio(x)
    \/ enqueue_tasklet_func \/ enqueue_single_skb \/ enqueue_to_prequeue
    \/ add_timeslot \/ tasklet_netif_schedule
    \/ \E c \in Cpus : \/ \E f \in Flows : handle_alloc(c, f)
                       \/ tsq_admit_now(c) \/ tsq_admit_now_fails(c)
                       \/ put_in_prequeue(c) \/ netif_schedule(c)
    \/ \E softirq \in BOOLEAN : qdisc_run(softirq)
    \/ tsq_dequeue \/ tsq_tc_reset \/ tsq_garbage_collect

Spec == Init /\ [][Next]_vars

-----------------------------------------------------------------------------
\* The scheduler's account of a flow and the qdisc's agree: every timeslot that is
\* asked for, or that is being admitted, is a queue of the flow.  So tsq_admit_now
\* always finds the flow and a timeslot, and is never the one who leaves hash_tbl_lock
\* locked: until the qdisc is reset, only enqueue_single_skb without memory is.
Backed ==
    resets = 0 =>
        /\ leaked # NO_TIMESLOT
        /\ \A f \in Flows :
             Len(dst_lookup(f).skb_qs) = waiting[f] + Cardinality(admits(f))
                                         + IF enqueue_tasklet.pc = ADD(f) THEN 1 ELSE 0

\* No wake-up is lost: where a packet is ready the kernel is dequeuing, or will, or a
\* thread is about to make it; and where one is to be classified the tasklet will run.
Awake ==
    /\ hi_prio \o reg_prio \o prequeue # <<>> =>
         running \/ scheduled \/ enqueue_tasklet.pc = WAKE \/ \E c \in Cpus : cpu[c] = WAKE
    /\ enqueue_skb_q # <<>> => enqueue_tasklet.scheduled

\* How long the packets are on the wire
length(skbs) == MapThenFoldSet(LAMBDA skb, sum : sum + skb.cost, 0, LAMBDA i : skbs[i], Max, DOMAIN skbs)

\* The packets of a timeslot fit into it, or there is only one; and credit is what is
\* left of the last timeslot, so that a packet is never added to one that was admitted.
TimeslotFits ==
    \A f \in DOMAIN dst_hash_tbl :
        LET dst == dst_hash_tbl[f]
        IN  /\ \A i \in DOMAIN dst.skb_qs : Len(dst.skb_qs[i]) = 1 \/ length(dst.skb_qs[i]) <= TSLOT_LEN
            /\ dst.credit = IF dst.skb_qs = <<>> THEN 0 ELSE TSLOT_LEN - length(dst.skb_qs[Len(dst.skb_qs)])
=============================================================================
