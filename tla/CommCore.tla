------------------------------ MODULE CommCore ------------------------------
(***************************************************************************)
(* The main loop of the arbiter's communication core (arbiter/comm_core.c) *)
(* over the timer wheel and the connections of the end nodes: receive,     *)
(* retransmission timeouts, new allocations, transmission, and the loop of *)
(* a backup arbiter that watches the master's watchdog packets.            *)
(*                                                                         *)
(* Per end node there is the queue of allocation reports to send, what was *)
(* allocated to and acknowledged for each destination, and the window of   *)
(* unacked packets with their reports, oldest slot first.  The pacer       *)
(* appears as the delay it picks (Pacer has it), sequence numbers and      *)
(* what packets carry besides reports are left out (FpChannel, Wire).      *)
(***************************************************************************)
EXTENDS TimerWheel

CONSTANTS
  Nodes, Dsts,  \* end nodes and the destinations they are allocated
  WND,          \* slots of the window of unacked packets
  MAX_AREQ,     \* FASTPASS_PKT_MAX_AREQ: reports that fit in a packet
  TIMEOUT,      \* the send timeout
  GAPS,         \* delays that a pacer may pick
  I_AM_MASTER,
  THRESHOLD,    \* WATCHDOG_TRIGGER_THRESHOLD_SEC
  WORD,         \* the unsigned word of the clock wraps at this value
  MAX_TIME,     \* bound on the clock
  MAX_ALLOC     \* bound on the timeslots allocated to a destination

VARIABLES
  clock,        \* rte_get_timer_cycles
  pc,           \* where the loop is
  now,          \* its variable of this name
  saw_watchdog,
  lst,          \* expired timers that remain to be handled
  timeout_timers, tx_timers,
  end_nodes,    \* the end_node_state of every node
  last_rx_watchdog

commvars == <<clock, pc, now, saw_watchdog, lst, timeout_timers, tx_timers, end_nodes, last_rx_watchdog>>

None == [sent |-> NOT_SET]   \* a slot without an unacked packet
Slots == 1 .. WND

new_node ==
  [triggered |-> FALSE,
   report_queue |-> <<>>,
   alloc_to_dst |-> [d \in Dsts |-> 0],
   acked_allocs |-> [d \in Dsts |-> 0],
   outwnd |-> [i \in Slots |-> None],
   next_timeout |-> WND + 1]

CommInit ==
  /\ clock = 0 /\ now = 0 /\ last_rx_watchdog = 0
  /\ pc = "rx" /\ saw_watchdog = FALSE /\ lst = <<>>
  /\ timeout_timers = fp_init_timers(Nodes, 0)
  /\ tx_timers = fp_init_timers(Nodes, 0)
  /\ end_nodes = [n \in Nodes |-> new_node]
-----------------------------------------------------------------------------
(* A handler works on the state c of one end node n: its end_node_state en *)
(* and the two wheels tw (timeouts) and xw (transmissions).                *)
state_of(n) == [en |-> end_nodes[n], tw |-> timeout_timers, xw |-> tx_timers]

set_state(n, c) ==
  /\ end_nodes' = [end_nodes EXCEPT ![n] = c.en]
  /\ timeout_timers' = c.tw
  /\ tx_timers' = c.xw

(* pacer_trigger, and the timer for the event it schedules. *)
trigger_request(c, n, gap) ==
  IF c.en.triggered THEN c
  ELSE [c EXCEPT !.en.triggered = TRUE, !.xw = fp_timer_reset(c.xw, n, clock + gap)]

trigger_report(c, n, d, gap) ==
  IF d \in Range(c.en.report_queue) THEN c
  ELSE trigger_request([c EXCEPT !.en.report_queue = Append(@, d)], n, gap)

can_time_out(c) == {i \in Slots : i >= c.en.next_timeout /\ c.en.outwnd[i] # None}
deadline(c, i) == c.en.outwnd[i].sent + TIMEOUT

(* The operations that the connection has on its retransmission timer.     *)
cancel_retrans_timer(c, n) == [c EXCEPT !.tw = fp_timer_stop(@, n)]
set_retrans_timer(c, n, when) == [c EXCEPT !.tw = fp_timer_reset(@, n, when)]

(* Cancel the timer, and set it for the earliest packet that may time out. *)
recompute_and_reset_retrans_timer(c, n) ==
  LET J == can_time_out(c)
      off == [cancel_retrans_timer(c, n) EXCEPT !.en.next_timeout = Min(J \cup {WND + 1})]
  IN  IF J = {} THEN off ELSE set_retrans_timer(off, n, deadline(c, Min(J)))

mut_handle_neg_ack(c, n, i, gap) ==
  LET again(r) == r.tslots > c.en.acked_allocs[r.dst]
  IN  FoldLeft(LAMBDA x, r : trigger_report(x, n, r.dst, gap), c,
               SelectSeq(SubSeq(c.en.outwnd[i].areq, 2, MAX_AREQ), again))

(* The packet of slot i is given up: reports not acked since are sent again. *)
handle_neg_ack(c, n, i, gap) ==
  LET again(r) == r.tslots > c.en.acked_allocs[r.dst]
  IN  FoldLeft(LAMBDA x, r : trigger_report(x, n, r.dst, gap), c,
               SelectSeq(c.en.outwnd[i].areq, again))

(* Slots of I are acked and leave the window. *)
handle_ack(c, I) ==
  LET acks(d) == {r.tslots : r \in {s \in UNION {Range(c.en.outwnd[i].areq) : i \in I} : s.dst = d}}
  IN  [c EXCEPT !.en.acked_allocs = [d \in Dsts |-> Max({@[d]} \cup acks(d))],
                !.en.outwnd = [i \in Slots |-> IF i \in I THEN None ELSE @[i]]]

ack_payload_handler(c, n, I) ==
  IF I = {} THEN c ELSE recompute_and_reset_retrans_timer(handle_ack(c, I), n)

(* Every packet whose time has come is given up, the timer set for the next. *)
fpproto_handle_timeout(c, n, gap) ==
  LET J == can_time_out(c)
      K == {j \in J : \A i \in J : i <= j => deadline(c, i) <= now}
      nacked == FoldLeft(LAMBDA x, i : handle_neg_ack(x, n, i, gap), c, SetToSortSeq(K, <))
  IN  IF J = K THEN [nacked EXCEPT !.en.next_timeout = WND + 1]
      ELSE set_retrans_timer([nacked EXCEPT !.en.next_timeout = Min(J \ K)], n, deadline(c, Min(J \ K)))

(* The oldest slot is made free; a packet in it that may still time out is  *)
(* given up.                                                                *)
fpproto_prepare_to_send(c, n, gap) ==
  LET nacked == recompute_and_reset_retrans_timer(
                  [handle_neg_ack(c, n, 1, gap) EXCEPT !.en.next_timeout = 2], n)
      kept == IF c.en.next_timeout = 1 THEN nacked ELSE c
  IN  IF c.en.outwnd[1] = None THEN c ELSE [kept EXCEPT !.en.outwnd[1] = None]

(* The reports of a packet are the first of the queue; more of them trigger *)
(* another packet.                                                          *)
packet_reports(e) ==
  [k \in 1 .. Min({MAX_AREQ, Len(e.report_queue)}) |->
     [dst |-> e.report_queue[k], tslots |-> e.alloc_to_dst[e.report_queue[k]]]]

fill_packet_report(c, n, gap) ==
  LET rest == SubSeq(c.en.report_queue, Len(packet_reports(c.en)) + 1, Len(c.en.report_queue))
      popped == [c EXCEPT !.en.report_queue = rest]
  IN  IF rest = <<>> THEN popped ELSE trigger_request(popped, n, gap)

fpproto_commit_packet(c, n, reports) ==
  recompute_and_reset_retrans_timer(
    [c EXCEPT !.en.outwnd = [i \in Slots |->
                               IF i < WND THEN @[i + 1] ELSE [sent |-> clock, areq |-> reports]],
              !.en.next_timeout = Max({1, @ - 1})], n)

(* A new connection state, and what the arbiter knew of the node forgotten. *)
(* The pacer and both timers stay as they are.                              *)
handle_reset(c) == [c EXCEPT !.en = [new_node EXCEPT !.triggered = c.en.triggered]]
-----------------------------------------------------------------------------
(* do_rx_burst: a packet of node n with acks and perhaps an A-REQ, or one   *)
(* that resets the connection.  A bad packet triggers a request, with or    *)
(* without a reset (got_bad_packet).                                        *)
comm_rx(n) ==
  /\ pc = "rx" /\ ~saw_watchdog
  /\ \E gap \in GAPS :
       LET c == state_of(n)
           request(x) == {x, trigger_request(x, n, gap)}
       IN \/ \E I \in SUBSET {i \in Slots : c.en.outwnd[i] # None} :
               \E x \in request(ack_payload_handler(c, n, I)) : set_state(n, x)
          \/ \E x \in request(handle_reset(c)) : set_state(n, x)
  /\ UNCHANGED <<clock, pc, now, saw_watchdog, lst, last_rx_watchdog>>

comm_rx_watchdog ==
  /\ pc = "rx" /\ ~saw_watchdog
  /\ saw_watchdog' = TRUE
  /\ UNCHANGED <<clock, pc, now, lst, timeout_timers, tx_timers, end_nodes, last_rx_watchdog>>

enter_watchdog_loop ==
  /\ pc = "rx" /\ saw_watchdog /\ ~I_AM_MASTER
  /\ now' = clock /\ last_rx_watchdog' = clock
  /\ pc' = "watchdog"
  /\ UNCHANGED <<clock, saw_watchdog, lst, timeout_timers, tx_timers, end_nodes>>

(* process retrans timers: take the expired ones ... *)
get_expired_timeouts ==
  /\ pc = "rx" /\ (saw_watchdog => I_AM_MASTER)
  /\ now' = clock
  /\ lst' = expired(timeout_timers, clock)
  /\ timeout_timers' = fp_timer_get_expired(timeout_timers, clock)
  /\ pc' = "timeouts"
  /\ UNCHANGED <<clock, saw_watchdog, tx_timers, end_nodes, last_rx_watchdog>>

(* ... and call their handlers, until lst is empty. *)
handle_timeout ==
  /\ pc = "timeouts" /\ lst # <<>>
  /\ lst' = Tail(lst)
  /\ \E gap \in GAPS :
       set_state(Head(lst), fpproto_handle_timeout(state_of(Head(lst)), Head(lst), gap))
  /\ UNCHANGED <<clock, pc, now, saw_watchdog, last_rx_watchdog>>

(* One edge of an admitted timeslot; the watchdog loop handles them too. *)
process_allocated_traffic(n, d) ==
  /\ pc \in {"timeouts", "watchdog_body"} /\ lst = <<>>
  /\ end_nodes[n].alloc_to_dst[d] < MAX_ALLOC
  /\ \E gap \in GAPS :
       set_state(n, trigger_report([state_of(n) EXCEPT !.en.alloc_to_dst[d] = @ + 1], n, d, gap))
  /\ UNCHANGED <<clock, pc, now, saw_watchdog, lst, last_rx_watchdog>>

(* process tx timers, with the time read before the timeouts. *)
get_expired_tx ==
  /\ pc = "timeouts" /\ lst = <<>>
  /\ lst' = expired(tx_timers, now)
  /\ tx_timers' = fp_timer_get_expired(tx_timers, now)
  /\ pc' = "tx"
  /\ UNCHANGED <<clock, now, saw_watchdog, timeout_timers, end_nodes, last_rx_watchdog>>

mut_sent(c, n, gap) ==
  LET ready == fpproto_prepare_to_send(c, n, gap)
  IN  [fpproto_commit_packet(fill_packet_report(ready, n, gap), n, packet_reports(ready.en))
       EXCEPT !.en.triggered = FALSE]

(* tx_end_node: the pacer is reset first, so that what follows may trigger   *)
(* another packet.  Without a descriptor it tries again later.               *)
sent(c, n, gap) ==
  LET ready == fpproto_prepare_to_send([c EXCEPT !.en.triggered = FALSE], n, gap)
  IN  fpproto_commit_packet(fill_packet_report(ready, n, gap), n, packet_reports(ready.en))

not_sent(c, n, gap) ==
  trigger_request(fpproto_prepare_to_send([c EXCEPT !.en.triggered = FALSE], n, gap), n, gap)

tx_end_node ==
  /\ pc = "tx" /\ lst # <<>>
  /\ lst' = Tail(lst)
  /\ LET n == Head(lst)
     IN \E gap \in GAPS :
          set_state(n, sent(state_of(n), n, gap)) \/ set_state(n, not_sent(state_of(n), n, gap))
  /\ UNCHANGED <<clock, pc, now, saw_watchdog, last_rx_watchdog>>

(* IGMP and watchdog packets are sent, queued packets flushed. *)
next_iteration ==
  /\ pc = "tx" /\ lst = <<>>
  /\ pc' = "rx" /\ saw_watchdog' = FALSE
  /\ UNCHANGED <<clock, now, lst, timeout_timers, tx_timers, end_nodes, last_rx_watchdog>>

(* The test of watchdog_loop, in unsigned arithmetic. *)
watchdog_loop ==
  /\ pc = "watchdog"
  /\ IF (last_rx_watchdog - now) % WORD < THRESHOLD
     THEN pc' = "watchdog_body" /\ now' = clock /\ UNCHANGED saw_watchdog
     ELSE pc' = "rx" /\ saw_watchdog' = FALSE /\ UNCHANGED now
  /\ UNCHANGED <<clock, lst, timeout_timers, tx_timers, end_nodes, last_rx_watchdog>>

watchdog_rx ==
  /\ pc = "watchdog_body"
  /\ last_rx_watchdog' = clock
  /\ UNCHANGED <<clock, pc, now, saw_watchdog, lst, timeout_timers, tx_timers, end_nodes>>

watchdog_end ==
  /\ pc = "watchdog_body"
  /\ pc' = "watchdog"
  /\ UNCHANGED <<clock, now, saw_watchdog, lst, timeout_timers, tx_timers, end_nodes, last_rx_watchdog>>

Tick ==
  /\ clock < MAX_TIME
  /\ clock' = clock + 1
  /\ UNCHANGED <<pc, now, saw_watchdog, lst, timeout_timers, tx_timers, end_nodes, last_rx_watchdog>>

CommNext ==
  \/ Tick \/ comm_rx_watchdog \/ enter_watchdog_loop
  \/ get_expired_timeouts \/ handle_timeout \/ get_expired_tx \/ tx_end_node
  \/ next_iteration \/ watchdog_loop \/ watchdog_rx \/ watchdog_end
  \/ \E n \in Nodes : comm_rx(n)
  \/ \E n \in Nodes, d \in Dsts : process_allocated_traffic(n, d)

CommSpec == CommInit /\ [][CommNext]_commvars
-----------------------------------------------------------------------------
left_behind(w, t) == \E n \in Nodes : is_set(w, n) /\ w.time[n] <= t \div GRANULARITY

none_left ==
  /\ get_expired_timeouts => ~left_behind(timeout_timers', clock)
  /\ get_expired_tx => ~left_behind(tx_timers', now)

(* Taking the expired timers misses none: once the loop has read the clock  *)
(* and walked a wheel (fp_timer_get_expired), no timer that is due is left  *)
(* on it, whichever slot it was put on and however far the clock jumped.    *)
NoneMissed == [][none_left]_commvars

(* Nothing waits for a timer that is not set: a triggered node has its      *)
(* transmit timer on the wheel or expired in lst, a node with queued        *)
(* reports is triggered (fill_packet_report, handle_neg_ack), and the       *)
(* earliest packet that may time out has the retransmission timer on the    *)
(* wheel no later than its deadline, or expired in lst.                     *)
Armed ==
  \A n \in Nodes :
    LET c == state_of(n)
        in_lst(p) == pc = p /\ n \in Range(lst)
    IN  /\ c.en.triggered <=> is_set(tx_timers, n) \/ in_lst("tx")
        /\ c.en.report_queue # <<>> => c.en.triggered
        /\ can_time_out(c) # {} =>
             \/ in_lst("timeouts")
             \/ /\ is_set(timeout_timers, n)
                /\ timeout_timers.time[n] <= deadline(c, Min(can_time_out(c))) \div GRANULARITY

(* The total allocated to a destination is never forgotten: while the end   *)
(* node has not acked it, it is queued for a report or stands in a packet   *)
(* that can still be given up and then queues it again (trigger_report,     *)
(* fill_packet_report, handle_neg_ack, handle_ack).                         *)
ReportPending ==
  \A n \in Nodes, d \in Dsts :
    LET c == state_of(n)
        total == c.en.alloc_to_dst[d]
    IN  total > c.en.acked_allocs[d] =>
          \/ d \in Range(c.en.report_queue)
          \/ \E i \in can_time_out(c) : [dst |-> d, tslots |-> total] \in Range(c.en.outwnd[i].areq)

(* A backup arbiter leaves watchdog_loop only when no watchdog packet came  *)
(* for the threshold: "no watchdog too long - watchdog should fire!".       *)
FiresOnlyLate ==
  [][pc = "watchdog" /\ pc' = "rx" => clock - last_rx_watchdog >= THRESHOLD]_commvars
=============================================================================
