----------------------------- MODULE FpChannel -----------------------------
(***************************************************************************)
(* One direction of a Fastpass control connection (src/protocol/fpproto.c) *)
(* between two resets: the sender's window of unacknowledged packets with  *)
(* its retransmission timer, the receiver's at-most-once window, and the   *)
(* 16-bit ack vector that reports the second to the first.                 *)
(*                                                                         *)
(* Sequence numbers count from the base of the current reset, so the first *)
(* packet is 1.  The network may lose, delay, duplicate and reorder: any   *)
(* packet sent so far may arrive at any time, any number of times.         *)
(*                                                                         *)
(* The sender is the end node's, whose prepare and commit are separate     *)
(* critical sections and whose timer interrupt only schedules a tasklet;   *)
(* the arbiter runs the same functions in one thread, a special case.      *)
(***************************************************************************)
EXTENDS Integers, FiniteSets

CONSTANTS WND_LEN,       \* FASTPASS_WND_LEN, 192
          INWND,         \* bits kept in conn->inwnd, 64
          EXACT,         \* packets before ack_seq acked one by one, 15
          SEND_TIMEOUT,  \* conn->send_timeout
          MAX_SEQ,       \* bound: packets sent
          MAX_TIME,      \* bound: the clock
          MAX_ACKS       \* bound: acks in flight

ASSUME ChannelAssumption ==
    /\ WND_LEN \in Nat \ {0}
    /\ INWND \in Nat /\ EXACT \in Nat /\ EXACT + 1 < INWND
    /\ SEND_TIMEOUT \in Nat \ {0}
    /\ MAX_SEQ \in Nat /\ MAX_TIME \in Nat /\ MAX_ACKS \in Nat

VARIABLES now,                 \* the monotonic clock
          head,                \* latest sequence number sent
          unacked,             \* the marks of conn->outwnd
          sent_timestamp,      \* of each packet sent
          next_timeout_seqno,  \* packets before it have been handled by a timeout
          timer,               \* when the retransmission timer fires, or NO_TIMER
          tasklet,             \* the retransmission tasklet is scheduled
          prepared,            \* when the send under way began, or NOT_SENDING
          acked, nacked,       \* history: the packets reported to the callbacks
          in_max_seqno,        \* the receiver's latest sequence number
          inwnd,               \* the numbers among the last INWND it received
          accepted,            \* history: how often each packet was processed
          acks                 \* ack_seq and ack_vec of packets coming back

sender == <<head, unacked, sent_timestamp, next_timeout_seqno, timer, tasklet,
            prepared, acked, nacked>>
receiver == <<in_max_seqno, inwnd, accepted>>
vars == <<now, sender, receiver, acks>>

NO_TIMER == -1
NOT_SENDING == -1
Packets == 1 .. MAX_SEQ
Acks == [seq : Nat, recent : SUBSET (1 .. EXACT), rest : BOOLEAN]

-----------------------------------------------------------------------------
(* The sender.                                                             *)

wnd_edge == head - WND_LEN + 1

\* The first number of S, as a set: empty when S is.
first(S) == {s \in S : \A t \in S : s <= t}

\* The earliest packet of marks that is neither acked nor timed out gets the timer.
recompute_and_reset_retrans_timer(h, marks, from, sent) ==
    LET pending == {s \in marks : s >= from} IN
    \/ pending = {} /\ next_timeout_seqno' = h + 1 /\ timer' = NO_TIMER
    \/ \E s \in first(pending) :
         next_timeout_seqno' = s /\ timer' = sent[s] + SEND_TIMEOUT

mut_falls_off_unreported ==
    wnd_edge \in unacked /\ wnd_edge > next_timeout_seqno

falls_off_unreported ==
    wnd_edge \in unacked /\ wnd_edge >= next_timeout_seqno

\* A packet that falls off the window is nacked unless a timeout already did.
fpproto_prepare_to_send ==
    /\ prepared = NOT_SENDING
    /\ head < MAX_SEQ /\ now + SEND_TIMEOUT <= MAX_TIME
    /\ prepared' = now
    /\ unacked' = unacked \ {wnd_edge}
    /\ IF falls_off_unreported
       THEN /\ nacked' = [nacked EXCEPT ![wnd_edge] = @ + 1]
            /\ recompute_and_reset_retrans_timer(head, unacked, wnd_edge + 1, sent_timestamp)
       ELSE UNCHANGED <<nacked, next_timeout_seqno, timer>>
    /\ UNCHANGED <<now, head, sent_timestamp, tasklet, acked, receiver, acks>>

fpproto_commit_packet ==
    /\ prepared # NOT_SENDING
    /\ prepared' = NOT_SENDING
    /\ head' = head + 1
    /\ unacked' = unacked \cup {head + 1}
    /\ sent_timestamp' = [sent_timestamp EXCEPT ![head + 1] = prepared]
    /\ recompute_and_reset_retrans_timer(head + 1, unacked', next_timeout_seqno,
                                         sent_timestamp')
    /\ UNCHANGED <<now, tasklet, acked, nacked, receiver, acks>>

\* The timer interrupt: retrans_timer_func.
retrans_timer_func ==
    /\ timer # NO_TIMER /\ now >= timer
    /\ timer' = NO_TIMER
    /\ tasklet' = TRUE
    /\ UNCHANGED <<now, head, unacked, sent_timestamp, next_timeout_seqno, prepared,
                   acked, nacked, receiver, acks>>

timeout_walk == {s \in unacked : s >= next_timeout_seqno}

mut_next_timer(live, stop) == timer

\* When the walk ends on a packet that has not expired, set_timer is called for it.
next_timer(live, stop) ==
    IF live = {} THEN timer ELSE sent_timestamp[stop] + SEND_TIMEOUT

\* The tasklet walks the window from next_timeout_seqno, nacks what has expired
\* and stops at the first packet that has not.
fpproto_handle_timeout ==
    /\ tasklet
    /\ tasklet' = FALSE
    /\ LET live == {s \in timeout_walk : sent_timestamp[s] + SEND_TIMEOUT > now} IN
       \E stop \in IF live = {} THEN {head + 1} ELSE first(live) :
           /\ nacked' = [s \in Packets |-> IF s \in timeout_walk /\ s < stop
                                           THEN nacked[s] + 1 ELSE nacked[s]]
           /\ next_timeout_seqno' = stop
           /\ timer' = next_timer(live, stop)
    /\ UNCHANGED <<now, head, unacked, sent_timestamp, prepared, acked, receiver, acks>>

\* The numbers an ack stands for: ack_seq itself, the EXACT ones before it by their
\* bits, and all the older ones together when the top bit is set.
ack_vec_decode(a) ==
    {a.seq} \cup {a.seq - i : i \in a.recent}
            \cup (IF a.rest THEN a.seq - (INWND - 1) .. a.seq - (EXACT + 1) ELSE {})

mut_still_unacked(done) == unacked

\* do_ack_seqno pops each packet it reports.
still_unacked(done) == unacked \ done

ack_payload_handler(a) ==
    LET done == ack_vec_decode(a) \cap unacked IN
    /\ a.seq >= wnd_edge
    /\ done # {}
    /\ unacked' = still_unacked(done)
    /\ acked' = [s \in Packets |-> IF s \in done THEN acked[s] + 1 ELSE acked[s]]
    /\ recompute_and_reset_retrans_timer(head, unacked', next_timeout_seqno, sent_timestamp)
    /\ UNCHANGED <<now, head, sent_timestamp, tasklet, prepared, nacked, receiver, acks>>

-----------------------------------------------------------------------------
(* The receiver.                                                           *)

mut_may_accept_old(s) ==
    \/ s > in_max_seqno
    \/ s \notin inwnd

at_most_once_may_accept(s) ==
    \/ s > in_max_seqno
    \/ /\ s > in_max_seqno - INWND
       /\ s \notin inwnd

\* The window after update_inwnd: a new maximum shifts out what is too old, and a
\* jump of INWND or more shifts out everything.
new_inwnd(s) ==
    IF s > in_max_seqno
    THEN {r \in inwnd : r > s - INWND} \cup {s}
    ELSE inwnd \cup {s}

\* fpproto_handle_rx_complete of an intact packet: accept, process, record.
rx_packet(s) ==
    /\ s \in 1 .. head
    /\ at_most_once_may_accept(s)
    /\ accepted' = [accepted EXCEPT ![s] = @ + 1]
    /\ inwnd' = new_inwnd(s)
    /\ in_max_seqno' = IF s > in_max_seqno THEN s ELSE in_max_seqno
    /\ UNCHANGED <<now, sender, acks>>

mut_ack_vec_encode ==
    [seq |-> in_max_seqno,
     recent |-> {i \in 1 .. EXACT : in_max_seqno - i \in inwnd},
     rest |-> (in_max_seqno - (INWND - 2) .. in_max_seqno - (EXACT + 1)) \subseteq inwnd]

\* What fpproto_commit_packet writes into the header of a packet going back.
ack_vec_encode ==
    [seq |-> in_max_seqno,
     recent |-> {i \in 1 .. EXACT : in_max_seqno - i \in inwnd},
     rest |-> (in_max_seqno - (INWND - 1) .. in_max_seqno - (EXACT + 1)) \subseteq inwnd]

send_ack ==
    /\ acks' = acks \cup {ack_vec_encode}
    /\ Cardinality(acks') <= MAX_ACKS
    /\ UNCHANGED <<now, sender, receiver>>

-----------------------------------------------------------------------------

Init ==
    /\ now = 0
    /\ head = 0 /\ unacked = {} /\ next_timeout_seqno = 1
    /\ sent_timestamp = [s \in Packets |-> 0]
    /\ timer = NO_TIMER /\ tasklet = FALSE /\ prepared = NOT_SENDING
    /\ acked = [s \in Packets |-> 0] /\ nacked = [s \in Packets |-> 0]
    /\ in_max_seqno = 0
    /\ inwnd = 1 - INWND .. 0
    /\ accepted = [s \in Packets |-> 0]
    /\ acks = {}

Tick ==
    /\ now < MAX_TIME
    /\ now' = now + 1
    /\ UNCHANGED <<sender, receiver, acks>>

lose_ack(a) ==
    /\ acks' = acks \ {a}
    /\ UNCHANGED <<now, sender, receiver>>

Next ==
    \/ Tick
    \/ fpproto_prepare_to_send
    \/ fpproto_commit_packet
    \/ retrans_timer_func
    \/ fpproto_handle_timeout
    \/ send_ack
    \/ \E s \in Packets : rx_packet(s)
    \/ \E a \in acks : ack_payload_handler(a) \/ lose_ack(a)

Spec == Init /\ [][Next]_vars

\* The clock runs, timer interrupts and scheduled tasklets happen.
Fairness ==
    /\ WF_vars(Tick)
    /\ WF_vars(retrans_timer_func)
    /\ WF_vars(fpproto_handle_timeout)

FairSpec == Spec /\ Fairness

-----------------------------------------------------------------------------

TypeOK ==
    /\ now \in Nat
    /\ head \in 0 .. MAX_SEQ
    /\ unacked \subseteq 1 .. head
    /\ sent_timestamp \in [Packets -> Nat]
    /\ next_timeout_seqno \in 1 .. MAX_SEQ + 1
    /\ timer \in Nat \cup {NO_TIMER}
    /\ tasklet \in BOOLEAN
    /\ prepared \in Nat \cup {NOT_SENDING}
    /\ prepared # NOT_SENDING => head < MAX_SEQ
    /\ acked \in [Packets -> Nat] /\ nacked \in [Packets -> Nat]
    /\ in_max_seqno \in 0 .. head
    /\ inwnd \subseteq Int
    /\ accepted \in [Packets -> Nat]
    /\ acks \subseteq Acks

\* A packet is processed at most once, whatever is duplicated or arrives late: the
\* window forgets a number only by refusing everything that old.
AtMostOnce == \A s \in Packets : accepted[s] <= 1

\* The sender is told of an ack only for a packet the receiver processed, although
\* one bit of the ack vector stands for many packets and acks arrive late.
AckedWasAccepted == \A s \in Packets : acked[s] > 0 => accepted[s] > 0

\* No packet leaves the window unnoticed: each one sent is still tracked or was
\* reported, and a tracked one was nacked exactly when a timeout has passed it.
NoSilentLoss ==
    \A s \in 1 .. head :
        IF s \in unacked
        THEN acked[s] = 0 /\ nacked[s] = (IF s < next_timeout_seqno THEN 1 ELSE 0)
        ELSE acked[s] + nacked[s] > 0

\* At most one ack and one nack are reported for a packet.
ReportedOnce == \A s \in Packets : acked[s] <= 1 /\ nacked[s] <= 1

\* While a packet waits for its timeout, the timer is set no later than that, or the
\* tasklet is about to run: resetting the timer never loses one.
TimerCovers ==
    \A s \in unacked :
        s >= next_timeout_seqno =>
            \/ tasklet
            \/ timer # NO_TIMER /\ timer <= sent_timestamp[s] + SEND_TIMEOUT

\* wnd_advance and wnd_mark never meet an old mark in the slot of a new packet,
\* with acks and timeouts between preparing and committing it.
WindowFits ==
    /\ next_timeout_seqno \in unacked \cup {head + 1}
    /\ \A s \in unacked : /\ head - s < WND_LEN
                          /\ prepared # NOT_SENDING => head + 1 - s < WND_LEN

-----------------------------------------------------------------------------
(* The inductive invariant behind these properties.                        *)

\* The receiver remembers every packet it processed that is not too old.
ReceiverInv ==
    /\ in_max_seqno \in inwnd
    /\ \A s \in inwnd : s <= in_max_seqno /\ s > in_max_seqno - INWND
    /\ \A s \in Packets :
         /\ s \in inwnd => accepted[s] > 0
         /\ accepted[s] > 0 =>
              s <= in_max_seqno /\ (s > in_max_seqno - INWND => s \in inwnd)

\* An ack never claims more than was processed when it was written.
AcksTruthful ==
    \A a \in acks : \A s \in ack_vec_decode(a) \cap Packets : accepted[s] > 0

\* Packets are sent in the order of their numbers and none from the future.
SentInOrder ==
    /\ prepared <= now
    /\ \A s \in 1 .. head :
         /\ sent_timestamp[s] <= now
         /\ prepared # NOT_SENDING => sent_timestamp[s] <= prepared
         /\ \A t \in s .. head : sent_timestamp[s] <= sent_timestamp[t]

\* Nothing is reported of a packet before it is sent.
UnsentUnreported ==
    \A s \in Packets : s > head => acked[s] = 0 /\ nacked[s] = 0

ChannelInv ==
    /\ TypeOK /\ AtMostOnce /\ ReceiverInv /\ AcksTruthful /\ AckedWasAccepted
    /\ NoSilentLoss /\ ReportedOnce /\ UnsentUnreported
    /\ WindowFits /\ SentInOrder /\ TimerCovers

-----------------------------------------------------------------------------

\* A packet that was acked is not nacked afterwards.
NoNackAfterAck ==
    [][\A s \in Packets : nacked'[s] > nacked[s] => acked'[s] = 0]_vars

\* Every packet sent is eventually acked or nacked.
Resolved ==
    \A s \in Packets : (s <= head) ~> (acked[s] + nacked[s] > 0)
=============================================================================
