-------------------------- MODULE FpChannelProofs --------------------------
(***************************************************************************)
(* The channel's guarantees for windows, timeouts and bounds of any size.  *)
(***************************************************************************)
EXTENDS FpChannel, FpReset, TLAPS

\* What setting the timer afresh guarantees: it is set for the earliest packet not
\* before from, and only if there is none it is left unset.
LEMMA Recomputed ==
    ASSUME NEW h \in Nat, NEW marks \in SUBSET (1 .. h), NEW from \in Int, NEW sent,
           recompute_and_reset_retrans_timer(h, marks, from, sent)
    PROVE  /\ next_timeout_seqno' \in marks \cup {h + 1}
           /\ \A s \in marks : s >= from =>
                /\ next_timeout_seqno' <= s
                /\ next_timeout_seqno' \in marks
                /\ next_timeout_seqno' >= from
           /\ next_timeout_seqno' \in marks =>
                /\ next_timeout_seqno' >= from
                /\ timer' = sent[next_timeout_seqno'] + SEND_TIMEOUT
           /\ next_timeout_seqno' \notin marks => timer' = NO_TIMER
<1> DEFINE pending == {s \in marks : s >= from}
<1>0. h + 1 \notin marks
    OBVIOUS
<1>1. CASE pending = {}
    <2>1. next_timeout_seqno' = h + 1 /\ timer' = NO_TIMER
        BY <1>1, Zenon DEF recompute_and_reset_retrans_timer, first
    <2> QED
        BY <1>0, <1>1, <2>1
<1>2. CASE pending # {}
    <2>1. PICK m \in first(pending) :
            next_timeout_seqno' = m /\ timer' = sent[m] + SEND_TIMEOUT
        BY <1>2, Zenon DEF recompute_and_reset_retrans_timer
    <2>2. m \in pending /\ \A y \in pending : m <= y
        BY <2>1, Zenon DEF first
    <2> HIDE DEF pending
    <2> QED
        BY <1>0, <2>1, <2>2 DEF pending
<1> QED
    BY <1>1, <1>2

\* What the timeout handler's loop does, in the same terms.
LEMMA TimedOut ==
    ASSUME TypeOK, fpproto_handle_timeout
    PROVE  /\ next_timeout_seqno' \in unacked \cup {head + 1}
           /\ next_timeout_seqno' >= next_timeout_seqno
              \/ next_timeout_seqno' = head + 1
           /\ nacked' = [s \in Packets |->
                 IF s \in unacked /\ s >= next_timeout_seqno /\ s < next_timeout_seqno'
                 THEN nacked[s] + 1 ELSE nacked[s]]
           /\ next_timeout_seqno' \in unacked =>
                timer' = sent_timestamp[next_timeout_seqno'] + SEND_TIMEOUT
           /\ next_timeout_seqno' \notin unacked => timer' = timer
<1> DEFINE pending == {s \in unacked : s >= next_timeout_seqno}
           live == {s \in pending : sent_timestamp[s] + SEND_TIMEOUT > now}
<1>0. head + 1 \notin unacked
    BY DEF TypeOK
<1>1. PICK stop \in IF live = {} THEN {head + 1} ELSE first(live) :
        /\ nacked' = [s \in Packets |-> IF s \in pending /\ s < stop
                                        THEN nacked[s] + 1 ELSE nacked[s]]
        /\ next_timeout_seqno' = stop
        /\ timer' = IF live = {} THEN timer ELSE sent_timestamp[stop] + SEND_TIMEOUT
    BY Zenon DEF fpproto_handle_timeout, timeout_walk, next_timer
<1>2. CASE live = {}
    <2>1. stop = head + 1
        BY <1>1, <1>2
    <2> HIDE DEF live
    <2> QED
        BY <1>0, <1>1, <1>2, <2>1
<1>3. CASE live # {}
    <2>1. stop \in first(live)
        BY <1>1, <1>3
    <2>2. stop \in live
        BY <2>1, Zenon DEF first
    <2>3. stop \in unacked /\ stop >= next_timeout_seqno
        BY <2>2
    <2> HIDE DEF live
    <2> QED
        BY <1>1, <1>3, <2>3
<1> QED
    BY <1>2, <1>3

-----------------------------------------------------------------------------

\* The invariant holds in a connection that was just reset.
LEMMA InitInv == Init => ChannelInv
<1> SUFFICES ASSUME Init PROVE ChannelInv
    OBVIOUS
<1> USE ChannelAssumption
<1>1. TypeOK
    <2>1. /\ now \in Nat /\ head \in 0 .. MAX_SEQ /\ unacked \subseteq 1 .. head
          /\ next_timeout_seqno \in 1 .. MAX_SEQ + 1
        BY DEF Init
    <2>2. timer \in Nat \cup {NO_TIMER} /\ prepared = NOT_SENDING /\ tasklet \in BOOLEAN
        BY Zenon DEF Init
    <2>3. /\ sent_timestamp \in [Packets -> Nat] /\ acked \in [Packets -> Nat]
          /\ nacked \in [Packets -> Nat] /\ accepted \in [Packets -> Nat]
        BY DEF Init
    <2>4. in_max_seqno \in 0 .. head /\ inwnd \subseteq Int /\ acks \subseteq Acks
        BY DEF Init
    <2> QED
        BY <2>1, <2>2, <2>3, <2>4 DEF TypeOK
<1>2. AtMostOnce /\ ReceiverInv /\ AcksTruthful /\ AckedWasAccepted
    BY DEF Init, AtMostOnce, ReceiverInv, AcksTruthful, AckedWasAccepted, Packets
<1>3. NoSilentLoss /\ ReportedOnce /\ UnsentUnreported /\ WindowFits
    BY DEF Init, NoSilentLoss, ReportedOnce, UnsentUnreported, WindowFits, Packets,
           wnd_edge, NOT_SENDING
<1>4. SentInOrder /\ TimerCovers
    BY DEF Init, SentInOrder, TimerCovers, Packets, NOT_SENDING
<1> QED
    BY <1>1, <1>2, <1>3, <1>4 DEF ChannelInv

\* What Recomputed gives is in its type, whatever the window.
LEMMA RecomputedTypes ==
    ASSUME NEW h \in 0 .. MAX_SEQ, NEW marks \in SUBSET (1 .. h), NEW sent \in [Packets -> Nat],
           next_timeout_seqno' \in marks \cup {h + 1},
           next_timeout_seqno' \in marks => timer' = sent[next_timeout_seqno'] + SEND_TIMEOUT,
           next_timeout_seqno' \notin marks => timer' = NO_TIMER
    PROVE  next_timeout_seqno' \in 1 .. MAX_SEQ + 1 /\ timer' \in Nat \cup {NO_TIMER}
<1> USE ChannelAssumption
<1>1. next_timeout_seqno' \in 1 .. MAX_SEQ + 1
    BY marks \subseteq 1 .. h
<1>2. CASE next_timeout_seqno' \in marks
    <2>1. next_timeout_seqno' \in Packets
        BY <1>2, marks \subseteq 1 .. h DEF Packets
    <2>2. sent[next_timeout_seqno'] \in Nat
        BY <2>1
    <2>3. timer' \in Nat
        BY <1>2, <2>2
    <2> QED
        BY <1>1, <2>3
<1> QED
    BY <1>1, <1>2

\* Every step keeps the variables in their types.
LEMMA TypeStep == ChannelInv /\ [Next]_vars => TypeOK'
<1> SUFFICES ASSUME ChannelInv, [Next]_vars PROVE TypeOK'
    OBVIOUS
<1> USE ChannelAssumption
<1>0. TypeOK
    BY DEF ChannelInv
<1>00. head \in Nat /\ unacked \in SUBSET (1 .. head) /\ next_timeout_seqno \in Int
    BY <1>0 DEF TypeOK
<1>000. head \in 0 .. MAX_SEQ /\ unacked \in SUBSET (1 .. head) /\ sent_timestamp \in [Packets -> Nat]
    BY <1>0 DEF TypeOK
<1>1. CASE Tick
    BY <1>0, <1>1 DEF TypeOK, Tick, sender, receiver
<1>2. CASE fpproto_prepare_to_send
    <2>1. CASE wnd_edge \in unacked /\ wnd_edge >= next_timeout_seqno
        <3>1. recompute_and_reset_retrans_timer(head, unacked, wnd_edge + 1, sent_timestamp)
            BY <1>2, <2>1 DEF fpproto_prepare_to_send, falls_off_unreported
        <3>2. wnd_edge + 1 \in Int /\ wnd_edge \in Packets
            BY <1>0, <2>1 DEF TypeOK, wnd_edge, Packets
        <3>3. /\ next_timeout_seqno' \in unacked \cup {head + 1}
              /\ next_timeout_seqno' \in unacked =>
                    timer' = sent_timestamp[next_timeout_seqno'] + SEND_TIMEOUT
              /\ next_timeout_seqno' \notin unacked => timer' = NO_TIMER
            BY <1>00, <3>1, <3>2, Recomputed
        <3>4. next_timeout_seqno' \in 1 .. MAX_SEQ + 1 /\ timer' \in Nat \cup {NO_TIMER}
            BY <1>000, <3>3, RecomputedTypes
        <3>5. nacked' \in [Packets -> Nat]
            BY <1>0, <1>2, <2>1, <3>2 DEF TypeOK, fpproto_prepare_to_send, falls_off_unreported
        <3> QED
            BY <1>0, <1>2, <3>4, <3>5, Zenon DEF TypeOK, fpproto_prepare_to_send, falls_off_unreported, receiver
    <2>2. CASE ~(wnd_edge \in unacked /\ wnd_edge >= next_timeout_seqno)
        BY <1>0, <1>2, <2>2, Zenon DEF TypeOK, fpproto_prepare_to_send, falls_off_unreported, receiver
    <2> QED
        BY <2>1, <2>2
<1>3. CASE fpproto_commit_packet
    <2>0. recompute_and_reset_retrans_timer(head + 1, unacked', next_timeout_seqno,
                                            sent_timestamp')
        BY <1>3 DEF fpproto_commit_packet
    <2>1. /\ head + 1 \in Nat /\ head + 1 \in Packets
          /\ unacked' \in SUBSET (1 .. head + 1)
        BY <1>0, <1>3 DEF TypeOK, fpproto_commit_packet, Packets
    <2>2. sent_timestamp' \in [Packets -> Nat]
        BY <1>0, <1>3, <2>1 DEF TypeOK, fpproto_commit_packet
    <2>3. /\ next_timeout_seqno' \in unacked' \cup {head + 1 + 1}
          /\ next_timeout_seqno' \in unacked' =>
                timer' = sent_timestamp'[next_timeout_seqno'] + SEND_TIMEOUT
          /\ next_timeout_seqno' \notin unacked' => timer' = NO_TIMER
        BY <1>00, <2>0, <2>1, Recomputed
    <2>4. next_timeout_seqno' \in 1 .. MAX_SEQ + 1 /\ timer' \in Nat \cup {NO_TIMER}
        <3>1. head + 1 \in 0 .. MAX_SEQ
            BY <2>1 DEF Packets
        <3> QED
            BY <2>1, <2>2, <2>3, <3>1, RecomputedTypes
    <2>5. head' \in 0 .. MAX_SEQ /\ unacked' \subseteq 1 .. head' /\ in_max_seqno' \in 0 .. head'
        <3>1. head' = head + 1 /\ in_max_seqno' = in_max_seqno /\ in_max_seqno \in 0 .. head
            BY <1>0, <1>3 DEF TypeOK, fpproto_commit_packet, receiver
        <3>2. head' \in 0 .. MAX_SEQ /\ unacked' \subseteq 1 .. head'
            BY <2>1, <3>1 DEF Packets
        <3>3. in_max_seqno' \in 0 .. head'
            BY <1>00, <3>1
        <3> QED
            BY <3>2, <3>3
    <2>6. prepared' = NOT_SENDING
        BY <1>3 DEF fpproto_commit_packet
    <2> QED
        BY <1>0, <1>3, <2>2, <2>4, <2>5, <2>6 DEF TypeOK, fpproto_commit_packet, receiver
<1>4. CASE retrans_timer_func
    BY <1>0, <1>4 DEF TypeOK, retrans_timer_func, receiver
<1>5. CASE fpproto_handle_timeout
    <2>1. /\ next_timeout_seqno' \in unacked \cup {head + 1}
          /\ next_timeout_seqno' \in unacked =>
                timer' = sent_timestamp[next_timeout_seqno'] + SEND_TIMEOUT
          /\ next_timeout_seqno' \notin unacked => timer' = timer
          /\ nacked' = [s \in Packets |->
               IF s \in unacked /\ s >= next_timeout_seqno /\ s < next_timeout_seqno'
               THEN nacked[s] + 1 ELSE nacked[s]]
        BY <1>0, <1>5, TimedOut
    <2>2. next_timeout_seqno' \in 1 .. MAX_SEQ + 1 /\ timer' \in Nat \cup {NO_TIMER}
        <3>1. next_timeout_seqno' \in 1 .. MAX_SEQ + 1
            BY <1>0, <2>1 DEF TypeOK
        <3>2. CASE next_timeout_seqno' \in unacked
            <4>1. next_timeout_seqno' \in Packets
                BY <1>0, <3>2 DEF TypeOK, Packets
            <4> QED
                BY <1>0, <2>1, <3>1, <3>2, <4>1 DEF TypeOK
        <3>3. CASE next_timeout_seqno' \notin unacked
            BY <1>0, <2>1, <3>1, <3>3 DEF TypeOK
        <3> QED
            BY <3>2, <3>3
    <2>3. nacked' \in [Packets -> Nat]
        BY <1>0, <2>1 DEF TypeOK
    <2> QED
        BY <1>0, <1>5, <2>2, <2>3, Zenon DEF TypeOK, fpproto_handle_timeout, receiver
<1>6. CASE send_ack
    <2>1. ack_vec_encode \in Acks
        BY <1>0 DEF TypeOK, ack_vec_encode, Acks
    <2> QED
        BY <1>0, <1>6, <2>1 DEF TypeOK, send_ack, sender, receiver
<1>7. ASSUME NEW s \in Packets, rx_packet(s) PROVE TypeOK'
    <2>0. s \in 1 .. head /\ in_max_seqno \in 0 .. head /\ head \in Nat
        BY <1>0, <1>7 DEF TypeOK, rx_packet
    <2>1. in_max_seqno' \in 0 .. head
        <3>1. in_max_seqno' \in {in_max_seqno, s}
            BY <1>7 DEF rx_packet
        <3> QED
            BY <2>0, <3>1
    <2>2. inwnd' \subseteq Int
        <3>1. inwnd' \subseteq inwnd \cup {s}
            BY <1>7 DEF rx_packet, new_inwnd
        <3> QED
            BY <1>0, <2>0, <3>1 DEF TypeOK
    <2> QED
        BY <1>0, <1>7, <2>1, <2>2 DEF TypeOK, rx_packet, sender
<1>8. ASSUME NEW a \in acks, ack_payload_handler(a) PROVE TypeOK'
    <2>0. recompute_and_reset_retrans_timer(head, unacked', next_timeout_seqno,
                                            sent_timestamp)
        BY <1>8 DEF ack_payload_handler
    <2>1. unacked' \in SUBSET (1 .. head)
        BY <1>0, <1>8, Zenon DEF TypeOK, ack_payload_handler, still_unacked
    <2>2. /\ next_timeout_seqno' \in unacked' \cup {head + 1}
          /\ next_timeout_seqno' \in unacked' =>
                timer' = sent_timestamp[next_timeout_seqno'] + SEND_TIMEOUT
          /\ next_timeout_seqno' \notin unacked' => timer' = NO_TIMER
        BY <1>00, <2>0, <2>1, Recomputed
    <2>3. next_timeout_seqno' \in 1 .. MAX_SEQ + 1 /\ timer' \in Nat \cup {NO_TIMER}
        BY <1>000, <2>1, <2>2, RecomputedTypes
    <2>4. acked' \in [Packets -> Nat]
        BY <1>0, <1>8 DEF TypeOK, ack_payload_handler, still_unacked
    <2> QED
        BY <1>0, <1>8, <2>1, <2>3, <2>4 DEF TypeOK, ack_payload_handler, receiver
<1>9. ASSUME NEW a \in acks, lose_ack(a) PROVE TypeOK'
    BY <1>0, <1>9 DEF TypeOK, lose_ack, sender, receiver
<1>10. CASE UNCHANGED vars
    BY <1>0, <1>10 DEF TypeOK, vars, sender, receiver
<1> QED
    BY <1>1, <1>2, <1>3, <1>4, <1>5, <1>6, <1>7, <1>8, <1>9, <1>10 DEF Next

\* The steps other than rx_packet leave the receiver alone.
LEMMA ReceiverUnchanged ==
    ASSUME [Next]_vars, ~ \E s \in Packets : rx_packet(s)
    PROVE  UNCHANGED receiver
BY Zenon DEF Next, vars, Tick, fpproto_prepare_to_send, fpproto_commit_packet,
       retrans_timer_func, fpproto_handle_timeout, send_ack, ack_payload_handler,
       lose_ack

\* Receiving a packet keeps the record of what was processed, and never processes
\* one again.
LEMMA ReceiverStep ==
    ChannelInv /\ [Next]_vars => AtMostOnce' /\ ReceiverInv'
<1> SUFFICES ASSUME ChannelInv, [Next]_vars PROVE AtMostOnce' /\ ReceiverInv'
    OBVIOUS
<1> USE ChannelAssumption
<1>0. TypeOK /\ AtMostOnce /\ ReceiverInv
    BY DEF ChannelInv
<1>1. ASSUME NEW s \in Packets, rx_packet(s) PROVE AtMostOnce' /\ ReceiverInv'
    <2>1. /\ s \in Int /\ in_max_seqno \in Int /\ inwnd \subseteq Int
          /\ accepted \in [Packets -> Nat] /\ INWND \in Nat
        BY <1>0 DEF TypeOK, Packets
    <2>2. accepted' = [accepted EXCEPT ![s] = @ + 1] /\ at_most_once_may_accept(s)
        BY <1>1 DEF rx_packet
    <2>3. accepted[s] = 0
        BY <1>0, <2>1, <2>2 DEF ReceiverInv, at_most_once_may_accept
    <2>4. AtMostOnce'
        BY <1>0, <2>1, <2>2, <2>3 DEF AtMostOnce
    <2>5. in_max_seqno' = IF s > in_max_seqno THEN s ELSE in_max_seqno
        BY <1>1, Zenon DEF rx_packet
    <2>6. inwnd' = IF s > in_max_seqno THEN {r \in inwnd : r > s - INWND} \cup {s}
                                       ELSE inwnd \cup {s}
        BY <1>1 DEF rx_packet, new_inwnd
    <2>7. \A r \in Packets : r \in Int
        BY DEF Packets
    <2>8. CASE s > in_max_seqno
        <3>1. in_max_seqno' = s /\ inwnd' = {r \in inwnd : r > s - INWND} \cup {s}
            BY <2>5, <2>6, <2>8
        <3>2. \A r \in inwnd : r <= in_max_seqno
            BY <1>0 DEF ReceiverInv
        <3>3. \A r \in inwnd' : r <= in_max_seqno' /\ r > in_max_seqno' - INWND
            BY <2>1, <2>8, <3>1, <3>2
        <3>4. ASSUME NEW r \in Packets
              PROVE  /\ r \in inwnd' => accepted'[r] > 0
                     /\ accepted'[r] > 0 => /\ r <= in_max_seqno'
                                            /\ r > in_max_seqno' - INWND => r \in inwnd'
            BY <1>0, <2>1, <2>2, <2>7, <2>8, <3>1 DEF ReceiverInv
        <3> QED
            BY <2>4, <3>1, <3>3, <3>4 DEF ReceiverInv
    <2>9. CASE ~(s > in_max_seqno)
        <3>1. in_max_seqno' = in_max_seqno /\ inwnd' = inwnd \cup {s}
            BY <2>5, <2>6, <2>9
        <3>2. \A r \in inwnd' : r <= in_max_seqno' /\ r > in_max_seqno' - INWND
            BY <1>0, <2>1, <2>2, <2>9, <3>1 DEF ReceiverInv, at_most_once_may_accept
        <3>3. ASSUME NEW r \in Packets
              PROVE  /\ r \in inwnd' => accepted'[r] > 0
                     /\ accepted'[r] > 0 => /\ r <= in_max_seqno'
                                            /\ r > in_max_seqno' - INWND => r \in inwnd'
            BY <1>0, <2>1, <2>2, <2>7, <2>9, <3>1 DEF ReceiverInv
        <3> QED
            BY <1>0, <2>4, <3>1, <3>2, <3>3 DEF ReceiverInv
    <2> QED
        BY <2>8, <2>9
<1>2. CASE UNCHANGED receiver
    BY <1>0, <1>2 DEF receiver, AtMostOnce, ReceiverInv
<1> QED
    BY <1>1, <1>2, ReceiverUnchanged

\* An ack written now claims only packets in the receiver's window, and none is
\* ever withdrawn.
LEMMA AckStep ==
    ChannelInv /\ [Next]_vars => AcksTruthful' /\ AckedWasAccepted'
<1> SUFFICES ASSUME ChannelInv, [Next]_vars PROVE AcksTruthful' /\ AckedWasAccepted'
    OBVIOUS
<1> USE ChannelAssumption
<1>0. TypeOK /\ ReceiverInv /\ AcksTruthful /\ AckedWasAccepted
    BY DEF ChannelInv
<1>1. \A s \in Packets : accepted[s] > 0 => accepted'[s] > 0
    <2>1. ASSUME NEW r \in Packets, rx_packet(r)
          PROVE  \A s \in Packets : accepted[s] > 0 => accepted'[s] > 0
        BY <1>0, <2>1 DEF TypeOK, rx_packet
    <2>2. CASE UNCHANGED receiver
        BY <2>2 DEF receiver
    <2> QED
        BY <2>1, <2>2, ReceiverUnchanged
<1>2. CASE send_ack
    <2>1. \A s \in ack_vec_decode(ack_vec_encode) : s \in inwnd
        <3>1. in_max_seqno \in Int /\ in_max_seqno \in inwnd
            BY <1>0 DEF TypeOK, ReceiverInv
        <3> QED
            BY <3>1, Zenon DEF ack_vec_decode, ack_vec_encode
    <2>2. \A s \in ack_vec_decode(ack_vec_encode) \cap Packets : accepted[s] > 0
        BY <1>0, <2>1 DEF ReceiverInv
    <2>3. acks' = acks \cup {ack_vec_encode} /\ UNCHANGED <<accepted, acked>>
        BY <1>2 DEF send_ack, receiver, sender
    <2>4. \A a \in acks' : \A s \in ack_vec_decode(a) \cap Packets : accepted'[s] > 0
        BY <1>0, <2>2, <2>3 DEF AcksTruthful
    <2> QED
        BY <1>0, <2>3, <2>4 DEF AcksTruthful, AckedWasAccepted, ack_vec_decode
<1>3. ASSUME NEW a \in acks, ack_payload_handler(a)
      PROVE  AcksTruthful' /\ AckedWasAccepted'
    <2>1. UNCHANGED <<acks, accepted>>
        BY <1>3 DEF ack_payload_handler, receiver
    <2>2. \A s \in ack_vec_decode(a) \cap unacked : accepted[s] > 0
        <3>1. unacked \subseteq Packets
            BY <1>0 DEF TypeOK, Packets
        <3> QED
            BY <1>0, <3>1 DEF AcksTruthful
    <2>3. \A s \in Packets : acked'[s] > 0 =>
             acked[s] > 0 \/ s \in ack_vec_decode(a) \cap unacked
        BY <1>0, <1>3 DEF ack_payload_handler, TypeOK
    <2> QED
        BY <1>0, <2>1, <2>2, <2>3 DEF AcksTruthful, AckedWasAccepted, ack_vec_decode
<1>4. CASE acks' \subseteq acks /\ UNCHANGED acked
    <2>1. \A a \in acks' : \A s \in ack_vec_decode(a) \cap Packets : accepted'[s] > 0
        BY <1>0, <1>1, <1>4 DEF AcksTruthful
    <2> QED
        BY <1>0, <1>1, <1>4, <2>1 DEF AcksTruthful, AckedWasAccepted, ack_vec_decode
<1>5. \/ send_ack
      \/ \E a \in acks : ack_payload_handler(a)
      \/ acks' \subseteq acks /\ UNCHANGED acked
    BY Zenon DEF Next, vars, Tick, fpproto_prepare_to_send, fpproto_commit_packet,
           retrans_timer_func, fpproto_handle_timeout, rx_packet, lose_ack, sender
<1> QED
    BY <1>2, <1>3, <1>4, <1>5

\* Each packet is reported when it stops being tracked, once, and the packet to time
\* out next is always a tracked one.
LEMMA ReportStep ==
    ChannelInv /\ [Next]_vars
        => NoSilentLoss' /\ ReportedOnce' /\ UnsentUnreported' /\ WindowFits'
<1> SUFFICES ASSUME ChannelInv, [Next]_vars
             PROVE  NoSilentLoss' /\ ReportedOnce' /\ UnsentUnreported' /\ WindowFits'
    OBVIOUS
<1> USE ChannelAssumption
<1>0. TypeOK /\ NoSilentLoss /\ ReportedOnce /\ UnsentUnreported /\ WindowFits
    BY DEF ChannelInv
<1>1. /\ head \in Nat /\ unacked \in SUBSET (1 .. head) /\ next_timeout_seqno \in Int
      /\ wnd_edge \in Int /\ wnd_edge <= head /\ unacked \subseteq Packets
      /\ \A s \in 1 .. head : s \in Packets
      /\ \A s \in Packets : s \in Int
      /\ acked \in [Packets -> Nat] /\ nacked \in [Packets -> Nat]
    <2>1. head \in Nat /\ unacked \in SUBSET (1 .. head) /\ next_timeout_seqno \in Int
        BY <1>0 DEF TypeOK
    <2>2. wnd_edge \in Int /\ wnd_edge <= head
        BY <2>1 DEF wnd_edge
    <2>3. (\A s \in 1 .. head : s \in Packets) /\ (\A s \in Packets : s \in Int)
        BY <1>0 DEF TypeOK, Packets
    <2>4. acked \in [Packets -> Nat] /\ nacked \in [Packets -> Nat]
        BY <1>0 DEF TypeOK
    <2> QED
        BY <2>1, <2>2, <2>3, <2>4
<1>2. CASE fpproto_prepare_to_send
    <2>0. /\ UNCHANGED <<head, acked>> /\ unacked' = unacked \ {wnd_edge}
          /\ wnd_edge' = wnd_edge
        BY <1>2 DEF fpproto_prepare_to_send, falls_off_unreported, wnd_edge
    <2>1. CASE wnd_edge \in unacked /\ wnd_edge >= next_timeout_seqno
        <3>1. recompute_and_reset_retrans_timer(head, unacked, wnd_edge + 1, sent_timestamp)
            BY <1>2, <2>1 DEF fpproto_prepare_to_send, falls_off_unreported
        <3>2. wnd_edge + 1 \in Int
            BY <1>1
        <3>3. /\ next_timeout_seqno' \in unacked \cup {head + 1}
              /\ \A s \in unacked : s >= wnd_edge + 1 => next_timeout_seqno' <= s
              /\ next_timeout_seqno' \in unacked => next_timeout_seqno' >= wnd_edge + 1
            BY <1>1, <3>1, <3>2, Recomputed
        <3>4. nacked' = [nacked EXCEPT ![wnd_edge] = @ + 1]
            BY <1>2, <2>1 DEF fpproto_prepare_to_send, falls_off_unreported
        <3>5. next_timeout_seqno = wnd_edge /\ \A s \in unacked : s >= wnd_edge
            BY <1>0, <1>1, <2>1 DEF WindowFits, wnd_edge
        <3>6. nacked[wnd_edge] = 0 /\ acked[wnd_edge] = 0
            BY <1>0, <1>1, <2>1 DEF NoSilentLoss
        <3>7. NoSilentLoss'
            <4> SUFFICES ASSUME NEW s \in 1 .. head
                PROVE  IF s \in unacked'
                       THEN acked[s] = 0 /\ nacked'[s] = (IF s < next_timeout_seqno' THEN 1 ELSE 0)
                       ELSE acked[s] + nacked'[s] > 0
                BY <2>0 DEF NoSilentLoss
            <4>1. CASE s = wnd_edge
                BY <1>1, <2>0, <3>4, <3>6, <4>1
            <4>2. CASE s # wnd_edge
                <5>1. nacked'[s] = nacked[s]
                    BY <1>1, <3>4, <4>2
                <5> QED
                    BY <1>0, <1>1, <2>0, <3>3, <3>5, <4>2, <5>1 DEF NoSilentLoss
            <4> QED
                BY <4>1, <4>2
        <3>8. ReportedOnce' /\ UnsentUnreported'
            BY <1>0, <1>1, <2>0, <2>1, <3>4, <3>6 DEF ReportedOnce, UnsentUnreported
        <3>9. WindowFits'
            BY <1>1, <2>0, <3>3, <3>5 DEF WindowFits, wnd_edge
        <3> QED
            BY <3>7, <3>8, <3>9
    <2>2. CASE ~(wnd_edge \in unacked /\ wnd_edge >= next_timeout_seqno)
        <3>1. UNCHANGED <<nacked, next_timeout_seqno>>
            BY <1>2, <2>2 DEF fpproto_prepare_to_send, falls_off_unreported
        <3>2. NoSilentLoss'
            BY <1>0, <1>1, <2>0, <2>2, <3>1 DEF NoSilentLoss
        <3>3. ReportedOnce' /\ UnsentUnreported'
            BY <1>0, <2>0, <3>1 DEF ReportedOnce, UnsentUnreported
        <3>4. WindowFits'
            BY <1>0, <1>1, <2>0, <2>2, <3>1 DEF WindowFits, wnd_edge
        <3> QED
            BY <3>2, <3>3, <3>4
    <2> QED
        BY <2>1, <2>2
<1>3. CASE fpproto_commit_packet
    <2>0. recompute_and_reset_retrans_timer(head + 1, unacked', next_timeout_seqno,
                                            sent_timestamp')
        BY <1>3 DEF fpproto_commit_packet
    <2>1. /\ unacked' = unacked \cup {head + 1} /\ head' = head + 1
          /\ UNCHANGED <<acked, nacked>> /\ prepared' = NOT_SENDING
          /\ wnd_edge' = wnd_edge + 1
        BY <1>1, <1>3 DEF fpproto_commit_packet, wnd_edge
    <2>2. head + 1 \in Nat /\ unacked' \in SUBSET (1 .. head + 1) /\ head + 1 \in Packets
        BY <1>0, <1>1, <1>3, <2>1 DEF fpproto_commit_packet, TypeOK, Packets
    <2>3. /\ next_timeout_seqno' \in unacked' \cup {head + 1 + 1}
          /\ \A s \in unacked' : s >= next_timeout_seqno => next_timeout_seqno' <= s
          /\ next_timeout_seqno' \in unacked' => next_timeout_seqno' >= next_timeout_seqno
        BY <1>1, <2>0, <2>2, Recomputed
    <2>4. next_timeout_seqno' = next_timeout_seqno /\ next_timeout_seqno \in unacked'
        BY <1>0, <1>1, <2>1, <2>3 DEF WindowFits
    <2>5. acked[head + 1] = 0 /\ nacked[head + 1] = 0 /\ next_timeout_seqno <= head + 1
        BY <1>0, <1>1, <2>2 DEF UnsentUnreported, WindowFits
    <2>6. NoSilentLoss'
        <3> SUFFICES ASSUME NEW s \in 1 .. head + 1
            PROVE  IF s \in unacked'
                   THEN acked[s] = 0 /\ nacked[s] = (IF s < next_timeout_seqno THEN 1 ELSE 0)
                   ELSE acked[s] + nacked[s] > 0
            BY <2>1, <2>4 DEF NoSilentLoss
        <3>1. CASE s = head + 1
            BY <1>1, <2>1, <2>5, <3>1
        <3>2. CASE s \in 1 .. head
            BY <1>0, <1>1, <2>1, <3>2 DEF NoSilentLoss
        <3> QED
            BY <1>1, <3>1, <3>2
    <2>7. ReportedOnce' /\ UnsentUnreported'
        BY <1>0, <1>1, <2>1 DEF ReportedOnce, UnsentUnreported
    <2>8. WindowFits'
        <3>1. \A s \in unacked : head + 1 - s < WND_LEN
            BY <1>0, <1>3 DEF WindowFits, fpproto_commit_packet
        <3> QED
            BY <1>1, <2>1, <2>4, <3>1 DEF WindowFits
    <2> QED
        BY <2>6, <2>7, <2>8
<1>4. CASE fpproto_handle_timeout
    <2>1. /\ next_timeout_seqno' \in unacked \cup {head + 1}
          /\ next_timeout_seqno' >= next_timeout_seqno \/ next_timeout_seqno' = head + 1
          /\ nacked' = [s \in Packets |->
               IF s \in unacked /\ s >= next_timeout_seqno /\ s < next_timeout_seqno'
               THEN nacked[s] + 1 ELSE nacked[s]]
        BY <1>0, <1>4, TimedOut
    <2>2. UNCHANGED <<head, unacked, acked, prepared>> /\ wnd_edge' = wnd_edge
        BY <1>4 DEF fpproto_handle_timeout, wnd_edge
    <2>3. next_timeout_seqno' >= next_timeout_seqno
        BY <1>0, <1>1, <2>1 DEF WindowFits, wnd_edge
    <2>4. NoSilentLoss'
        <3> SUFFICES ASSUME NEW s \in 1 .. head
            PROVE  IF s \in unacked
                   THEN acked[s] = 0 /\ nacked'[s] = (IF s < next_timeout_seqno' THEN 1 ELSE 0)
                   ELSE acked[s] + nacked'[s] > 0
            BY <2>2 DEF NoSilentLoss
        <3> QED
            BY <1>0, <1>1, <2>1, <2>3 DEF NoSilentLoss
    <2>5. ReportedOnce'
        BY <1>0, <1>1, <2>1, <2>2 DEF ReportedOnce, NoSilentLoss
    <2>6. UnsentUnreported'
        BY <1>0, <1>1, <2>1, <2>2 DEF UnsentUnreported
    <2>7. WindowFits'
        BY <1>0, <2>1, <2>2 DEF WindowFits
    <2> QED
        BY <2>4, <2>5, <2>6, <2>7
<1>5. ASSUME NEW a \in acks, ack_payload_handler(a)
      PROVE  NoSilentLoss' /\ ReportedOnce' /\ UnsentUnreported' /\ WindowFits'
    <2> DEFINE done == ack_vec_decode(a) \cap unacked
    <2>0. recompute_and_reset_retrans_timer(head, unacked', next_timeout_seqno,
                                            sent_timestamp)
        BY <1>5 DEF ack_payload_handler
    <2>1. /\ unacked' = unacked \ done /\ UNCHANGED <<head, nacked, prepared>>
          /\ acked' = [s \in Packets |-> IF s \in done THEN acked[s] + 1 ELSE acked[s]]
          /\ wnd_edge' = wnd_edge /\ done \subseteq unacked
        BY <1>5 DEF ack_payload_handler, still_unacked, wnd_edge
    <2> HIDE DEF done
    <2>2. unacked' \in SUBSET (1 .. head)
        BY <1>1, <2>1
    <2>3. /\ next_timeout_seqno' \in unacked' \cup {head + 1}
          /\ \A s \in unacked' : s >= next_timeout_seqno => next_timeout_seqno' <= s
          /\ next_timeout_seqno' \in unacked' => next_timeout_seqno' >= next_timeout_seqno
        BY <1>1, <2>0, <2>2, Recomputed
    <2>4. NoSilentLoss'
        <3> SUFFICES ASSUME NEW s \in 1 .. head
            PROVE  IF s \in unacked'
                   THEN acked'[s] = 0 /\ nacked[s] = (IF s < next_timeout_seqno' THEN 1 ELSE 0)
                   ELSE acked'[s] + nacked[s] > 0
            BY <2>1 DEF NoSilentLoss
        <3> QED
            BY <1>0, <1>1, <2>1, <2>3 DEF NoSilentLoss
    <2>5. ReportedOnce'
        BY <1>0, <1>1, <2>1 DEF ReportedOnce, NoSilentLoss
    <2>6. UnsentUnreported'
        BY <1>0, <1>1, <2>1 DEF UnsentUnreported
    <2>7. WindowFits'
        BY <1>0, <2>1, <2>3 DEF WindowFits
    <2> QED
        BY <2>4, <2>5, <2>6, <2>7
<1>6. CASE UNCHANGED <<head, unacked, next_timeout_seqno, prepared, acked, nacked>>
    BY <1>0, <1>6 DEF NoSilentLoss, ReportedOnce, UnsentUnreported, WindowFits, wnd_edge
<1>7. \/ fpproto_prepare_to_send \/ fpproto_commit_packet \/ fpproto_handle_timeout
      \/ \E a \in acks : ack_payload_handler(a)
      \/ UNCHANGED <<head, unacked, next_timeout_seqno, prepared, acked, nacked>>
    BY Zenon DEF Next, vars, Tick, retrans_timer_func, send_ack, rx_packet, lose_ack, sender
<1> QED
    BY <1>2, <1>3, <1>4, <1>5, <1>6, <1>7

\* The clock and the order of sending: a packet is stamped with the time its
\* sending began, and the next one begins later.
LEMMA OrderStep == ChannelInv /\ [Next]_vars => SentInOrder'
<1> SUFFICES ASSUME ChannelInv, [Next]_vars PROVE SentInOrder'
    OBVIOUS
<1> USE ChannelAssumption
<1>0. TypeOK /\ SentInOrder
    BY DEF ChannelInv
<1>1. /\ now \in Nat /\ head \in Nat /\ head <= MAX_SEQ /\ prepared \in Int
      /\ sent_timestamp \in [Packets -> Nat]
      /\ \A s \in 1 .. head : s \in Packets /\ sent_timestamp[s] \in Nat
    BY <1>0 DEF TypeOK, Packets, NOT_SENDING
<1>2. CASE Tick
    <2>1. now' = now + 1 /\ UNCHANGED <<prepared, head, sent_timestamp>>
        BY <1>2 DEF Tick, sender
    <2> QED
        BY <1>0, <1>1, <2>1 DEF SentInOrder
<1>3. CASE fpproto_prepare_to_send
    <2>1. prepared' = now /\ UNCHANGED <<now, head, sent_timestamp>>
        BY <1>3 DEF fpproto_prepare_to_send, falls_off_unreported
    <2> QED
        BY <1>0, <1>1, <2>1 DEF SentInOrder
<1>4. CASE fpproto_commit_packet
    <2>1. /\ prepared' = NOT_SENDING /\ head' = head + 1 /\ UNCHANGED now
          /\ sent_timestamp' = [sent_timestamp EXCEPT ![head + 1] = prepared]
          /\ prepared # NOT_SENDING /\ head + 1 \in Packets /\ prepared \in Nat
        BY <1>0, <1>4 DEF fpproto_commit_packet, TypeOK, Packets
    <2>2. sent_timestamp'[head + 1] = prepared
        BY <1>1, <2>1
    <2>3. \A s \in 1 .. head : sent_timestamp'[s] = sent_timestamp[s]
        BY <1>1, <2>1
    <2>4. \A s \in 1 .. head : sent_timestamp[s] <= prepared
        BY <1>0, <2>1 DEF SentInOrder
    <2>5. prepared' <= now'
        BY <1>1, <2>1 DEF NOT_SENDING
    <2>6. ASSUME NEW s \in 1 .. head + 1
          PROVE  /\ sent_timestamp'[s] <= now
                 /\ \A t \in s .. head + 1 : sent_timestamp'[s] <= sent_timestamp'[t]
        <3>1. CASE s = head + 1
            BY <1>0, <1>1, <2>1, <2>2, <3>1 DEF SentInOrder
        <3>2. CASE s \in 1 .. head
            BY <1>0, <1>1, <2>2, <2>3, <2>4, <3>2 DEF SentInOrder
        <3> QED
            BY <1>1, <3>1, <3>2
    <2> QED
        BY <2>1, <2>5, <2>6 DEF SentInOrder
<1>5. CASE UNCHANGED <<now, prepared, head, sent_timestamp>>
    BY <1>0, <1>5 DEF SentInOrder
<1>6. \/ Tick \/ fpproto_prepare_to_send \/ fpproto_commit_packet
      \/ UNCHANGED <<now, prepared, head, sent_timestamp>>
    BY Zenon DEF Next, vars, fpproto_handle_timeout, retrans_timer_func, send_ack, rx_packet,
           ack_payload_handler, lose_ack, sender
<1> QED
    BY <1>2, <1>3, <1>4, <1>5, <1>6

\* If the timer is set for the earliest pending packet, it covers the later ones.
LEMMA EarliestCovers ==
    ASSUME TypeOK', SentInOrder',
           WindowFits',
           next_timeout_seqno' \in unacked' =>
               timer' = sent_timestamp'[next_timeout_seqno'] + SEND_TIMEOUT
    PROVE  TimerCovers'
<1> SUFFICES ASSUME NEW s \in unacked', s >= next_timeout_seqno'
             PROVE  timer' # NO_TIMER /\ timer' <= sent_timestamp'[s] + SEND_TIMEOUT
    BY DEF TimerCovers
<1> DEFINE n == next_timeout_seqno'
<1>1. /\ s \in 1 .. head' /\ head' \in Nat /\ SEND_TIMEOUT \in Nat
      /\ \A t \in 1 .. head' : t \in Packets
    BY ChannelAssumption DEF TypeOK, Packets
<1>2. n \in unacked' /\ n \in 1 .. head' /\ s \in n .. head'
    <2>1. unacked' \subseteq 1 .. head'
        BY DEF TypeOK
    <2>2. n \in Int
        BY DEF TypeOK
    <2>3. n \in unacked' \/ n = head' + 1
        BY DEF WindowFits
    <2>4. n # head' + 1
        <3>1. \A x, y \in Int : x <= y => x # y + 1
            OBVIOUS
        <3>2. n <= s /\ s \in Int /\ s <= head' /\ head' \in Int
            BY <1>1, <2>2
        <3>3. n <= head'
            BY <2>2, <3>2
        <3> QED
            BY <2>2, <3>1, <3>2, <3>3, Zenon
    <2>5. n \in unacked'
        BY <2>3, <2>4
    <2> QED
        BY <1>1, <2>1, <2>5
<1>3. sent_timestamp'[n] <= sent_timestamp'[s]
    BY <1>1, <1>2 DEF SentInOrder
<1>4. sent_timestamp'[n] \in Nat /\ sent_timestamp'[s] \in Nat
    BY <1>1, <1>2 DEF TypeOK
<1>5. timer' = sent_timestamp'[n] + SEND_TIMEOUT
    BY <1>2
<1> QED
    BY <1>1, <1>3, <1>4, <1>5 DEF NO_TIMER

\* No step leaves a pending packet without a timer or a scheduled tasklet.
LEMMA TimerStep ==
    ChannelInv /\ [Next]_vars => TimerCovers'
<1> SUFFICES ASSUME ChannelInv, [Next]_vars PROVE TimerCovers'
    OBVIOUS
<1> USE ChannelAssumption
<1>0. TypeOK /\ WindowFits /\ TimerCovers /\ TypeOK' /\ SentInOrder' /\ WindowFits'
    BY TypeStep, OrderStep, ReportStep DEF ChannelInv
<1>1. head \in Nat /\ unacked \in SUBSET (1 .. head) /\ next_timeout_seqno \in Int
    BY <1>0 DEF TypeOK
<1>3. CASE fpproto_prepare_to_send
    <2>1. CASE wnd_edge \in unacked /\ wnd_edge >= next_timeout_seqno
        <3>1. recompute_and_reset_retrans_timer(head, unacked, wnd_edge + 1, sent_timestamp)
            BY <1>3, <2>1 DEF fpproto_prepare_to_send, falls_off_unreported
        <3>2. wnd_edge + 1 \in Int
            BY <1>1 DEF wnd_edge
        <3>3. next_timeout_seqno' \in unacked =>
                timer' = sent_timestamp[next_timeout_seqno'] + SEND_TIMEOUT
            BY <1>1, <3>1, <3>2, Recomputed
        <3>4. unacked' \subseteq unacked /\ sent_timestamp' = sent_timestamp
            BY <1>3 DEF fpproto_prepare_to_send, falls_off_unreported
        <3> QED
            BY <1>0, <3>3, <3>4, EarliestCovers
    <2>2. CASE ~(wnd_edge \in unacked /\ wnd_edge >= next_timeout_seqno)
        BY <1>0, <1>3, <2>2 DEF fpproto_prepare_to_send, falls_off_unreported, TimerCovers
    <2> QED
        BY <2>1, <2>2
<1>4. CASE fpproto_commit_packet
    <2>1. recompute_and_reset_retrans_timer(head + 1, unacked', next_timeout_seqno,
                                            sent_timestamp')
        BY <1>4 DEF fpproto_commit_packet
    <2>2. head + 1 \in Nat /\ unacked' \in SUBSET (1 .. head + 1)
        BY <1>1, <1>4 DEF fpproto_commit_packet
    <2>3. next_timeout_seqno' \in unacked' =>
            timer' = sent_timestamp'[next_timeout_seqno'] + SEND_TIMEOUT
        BY <1>1, <2>1, <2>2, Recomputed
    <2> QED
        BY <1>0, <2>3, EarliestCovers
<1>5. CASE retrans_timer_func
    BY <1>5 DEF retrans_timer_func, TimerCovers
<1>6. CASE fpproto_handle_timeout
    <2>1. next_timeout_seqno' \in unacked =>
            timer' = sent_timestamp[next_timeout_seqno'] + SEND_TIMEOUT
        BY <1>0, <1>6, TimedOut
    <2>2. UNCHANGED <<unacked, sent_timestamp>>
        BY <1>6 DEF fpproto_handle_timeout
    <2> QED
        BY <1>0, <2>1, <2>2, EarliestCovers
<1>7. ASSUME NEW a \in acks, ack_payload_handler(a) PROVE TimerCovers'
    <2>1. recompute_and_reset_retrans_timer(head, unacked', next_timeout_seqno,
                                            sent_timestamp)
        BY <1>7 DEF ack_payload_handler
    <2>2. unacked' \in SUBSET (1 .. head) /\ sent_timestamp' = sent_timestamp
        BY <1>1, <1>7, Zenon DEF ack_payload_handler, still_unacked
    <2>3. next_timeout_seqno' \in unacked' =>
            timer' = sent_timestamp[next_timeout_seqno'] + SEND_TIMEOUT
        BY <1>1, <2>1, <2>2, Recomputed
    <2> QED
        BY <1>0, <2>2, <2>3, EarliestCovers
<1>8. CASE UNCHANGED sender
    BY <1>0, <1>8 DEF sender, TimerCovers
<1>9. \/ fpproto_prepare_to_send \/ fpproto_commit_packet \/ retrans_timer_func
      \/ fpproto_handle_timeout
      \/ \E a \in acks : ack_payload_handler(a)
      \/ UNCHANGED sender
    BY Zenon DEF Next, vars, Tick, send_ack, rx_packet, lose_ack
<1> QED
    BY <1>3, <1>4, <1>5, <1>6, <1>7, <1>8, <1>9

-----------------------------------------------------------------------------

\* The whole invariant holds in every reachable state, for every size of the
\* windows and every timeout.
THEOREM Inductive == Spec => []ChannelInv
<1>1. ChannelInv /\ [Next]_vars => ChannelInv'
    BY TypeStep, ReceiverStep, AckStep, ReportStep, OrderStep, TimerStep DEF ChannelInv
<1> QED
    BY <1>1, InitInv, PTL DEF Spec

\* at_most_once_may_accept and update_inwnd process no packet twice, whatever the
\* network duplicates or delays.
THEOREM ProcessedAtMostOnce == Spec => []AtMostOnce
<1>1. ChannelInv => AtMostOnce
    BY DEF ChannelInv
<1> QED
    BY <1>1, Inductive, PTL

\* ack_payload_handler reports an ack only for a packet that was processed.
THEOREM AcksAreTrue == Spec => []AckedWasAccepted
<1>1. ChannelInv => AckedWasAccepted
    BY DEF ChannelInv
<1> QED
    BY <1>1, Inductive, PTL

\* Every packet sent is tracked in outwnd or was reported to the owner.
THEOREM NothingLostSilently == Spec => [](NoSilentLoss /\ ReportedOnce)
<1>1. ChannelInv => NoSilentLoss /\ ReportedOnce
    BY DEF ChannelInv
<1> QED
    BY <1>1, Inductive, PTL

\* The retransmission timer, or its tasklet, is pending for every packet that is
\* neither acked nor timed out.
THEOREM AlwaysTimed == Spec => []TimerCovers
<1>1. ChannelInv => TimerCovers
    BY DEF ChannelInv
<1> QED
    BY <1>1, Inductive, PTL

\* The slot of a new packet in outwnd is free when the packet is committed.
THEOREM SlotIsFree == Spec => []WindowFits
<1>1. ChannelInv => WindowFits
    BY DEF ChannelInv
<1> QED
    BY <1>1, Inductive, PTL

\* Neither the timeout handler nor a packet falling off the window nacks a packet
\* that was acked.
THEOREM NeverNackedAfterAck == Spec => NoNackAfterAck
<1> DEFINE Step == \A s \in Packets : nacked'[s] > nacked[s] => acked'[s] = 0
<1>1. ChannelInv /\ [Next]_vars => [Step]_vars
    <2> SUFFICES ASSUME ChannelInv, Next, NEW s \in Packets, nacked'[s] > nacked[s]
                 PROVE  acked'[s] = 0
        OBVIOUS
    <2> USE ChannelAssumption
    <2>0. /\ nacked \in [Packets -> Nat] /\ unacked \subseteq 1 .. head
          /\ TypeOK /\ NoSilentLoss
        BY DEF ChannelInv, TypeOK
    <2>1. CASE fpproto_prepare_to_send
        <3>1. s = wnd_edge /\ wnd_edge \in unacked /\ acked' = acked
            BY <2>0, <2>1 DEF fpproto_prepare_to_send, falls_off_unreported
        <3> QED
            BY <2>0, <3>1 DEF NoSilentLoss
    <2>2. CASE fpproto_handle_timeout
        <3>1. nacked' = [r \in Packets |->
               IF r \in unacked /\ r >= next_timeout_seqno /\ r < next_timeout_seqno'
               THEN nacked[r] + 1 ELSE nacked[r]]
            BY <2>0, <2>2, TimedOut
        <3>2. s \in unacked
            BY <2>0, <3>1
        <3>3. acked' = acked
            BY <2>2 DEF fpproto_handle_timeout
        <3> QED
            BY <2>0, <3>2, <3>3 DEF NoSilentLoss
    <2>3. CASE UNCHANGED nacked
        BY <2>0, <2>3
    <2>4. fpproto_prepare_to_send \/ fpproto_handle_timeout \/ UNCHANGED nacked
        BY Zenon DEF Next, Tick, fpproto_commit_packet, retrans_timer_func, send_ack,
               rx_packet, ack_payload_handler, lose_ack, sender
    <2> QED
        BY <2>1, <2>2, <2>3, <2>4
<1> QED
    BY <1>1, Inductive, PTL DEF Spec, NoNackAfterAck
-----------------------------------------------------------------------------
(* The reset protocol, while the two clocks agree.                          *)

\* Neither host's clock is ahead of the other's.
ClocksAgree == SKEW[ENDPOINT] = SKEW[CONTROLLER]

Conns == [last_reset_time : Times, in_sync : BOOLEAN, consecutive_bad_pkts : Nat,
          epoch : Times, span : {SHORT, LONG, AHEAD}]

Pkts == [to : Sides, epoch : Times, reset : BOOLEAN, ack_epoch : Times,
         span : {SHORT, LONG, AHEAD}]

ResetTypeOK ==
    /\ clock \in START .. CLOCK_END
    /\ conn \in [Sides -> Conns]
    /\ rx \in [Cpus -> Times \cup {NONE}]
    /\ net \subseteq Pkts
    /\ begun \in [Sides -> [Times -> Nat]]

\* Nothing comes from the future, the present epoch has begun, and it is the latest
\* that has: a side's reset time only grows.
LatestEpoch ==
    /\ \A p \in net : p.epoch <= now_of(ENDPOINT)
    /\ \A i \in Sides :
         /\ conn[i].last_reset_time <= now_of(i)
         /\ begun[i][conn[i].last_reset_time] = 1
         /\ \A t \in Times :
              begun[i][t] <= 1 /\ (begun[i][t] > 0 => t <= conn[i].last_reset_time)

\* Whatever epoch the end node counts in, is about to record, or acks, it has entered.
EndpointEntered ==
    /\ begun[ENDPOINT][conn[ENDPOINT].epoch] > 0
    /\ \A k \in Cpus : rx[k] # NONE => begun[ENDPOINT][rx[k]] > 0
    /\ \A p \in net : p.to = CONTROLLER => begun[ENDPOINT][p.ack_epoch] > 0

ResetInv == ResetTypeOK /\ LatestEpoch /\ EndpointEntered /\ ControllerInSync

-----------------------------------------------------------------------------
LEMMA TimesAgree ==
  ASSUME ClocksAgree, clock \in START .. CLOCK_END
  PROVE  /\ Times \subseteq Nat /\ START \in Nat
         /\ \A i \in Sides : now_of(i) \in Times /\ now_of(i) = now_of(ENDPOINT)
  BY ResetAssumption DEF ClocksAgree, Times, now_of, START, Sides, ENDPOINT, CONTROLLER

\* do_proto_reset with a time that a side may take
LEMMA ResetConn ==
  ASSUME NEW t \in Times, NEW sync \in BOOLEAN
  PROVE  /\ do_proto_reset(t, sync) \in Conns
         /\ do_proto_reset(t, sync).last_reset_time = t
         /\ do_proto_reset(t, sync).epoch = t
         /\ do_proto_reset(t, sync).in_sync = sync
  BY DEF do_proto_reset, Conns

\* What is changed of a connection that is not reset: whether it is in sync, and how
\* many bad packets came in a row
Synced(c, sync) == [c EXCEPT !.in_sync = sync]
Counted(c, k) == [c EXCEPT !.consecutive_bad_pkts = k]
Bad(c, k) == [c EXCEPT !.in_sync = FALSE, !.consecutive_bad_pkts = k]

LEMMA SyncedConn ==
  ASSUME NEW c \in Conns, NEW sync \in BOOLEAN
  PROVE  /\ Synced(c, sync) \in Conns /\ Synced(c, sync).epoch = c.epoch
         /\ Synced(c, sync).last_reset_time = c.last_reset_time
         /\ Synced(c, sync).in_sync = sync
  BY DEF Conns, Synced

LEMMA CountedConn ==
  ASSUME NEW c \in Conns, NEW k \in Nat
  PROVE  /\ Counted(c, k) \in Conns /\ Counted(c, k).epoch = c.epoch
         /\ Counted(c, k).last_reset_time = c.last_reset_time
         /\ Counted(c, k).in_sync = c.in_sync
  BY DEF Conns, Counted

LEMMA BadConn ==
  ASSUME NEW c \in Conns, NEW k \in Nat
  PROVE  /\ Bad(c, k) \in Conns /\ Bad(c, k).epoch = c.epoch
         /\ Bad(c, k).last_reset_time = c.last_reset_time
         /\ Bad(c, k).in_sync = FALSE
  BY Zenon DEF Conns, Bad

\* A side that leaves its epoch leaves it for a later one.
Later(i, c) ==
    \/ c.last_reset_time = conn[i].last_reset_time
    \/ conn[i].last_reset_time < c.last_reset_time /\ c.last_reset_time <= now_of(i)

\* What handling a packet may make of side i's connection
Outcome(i, c) == c \in Conns /\ Later(i, c) /\ c.epoch \in {conn[i].epoch, c.last_reset_time}

\* Bad packets reset the connection to the present only if the last reset was not recent.
LEMMA BadPacket ==
  ASSUME ClocksAgree, ResetTypeOK, LatestEpoch, NEW i \in Sides
  PROVE  Outcome(i, got_bad_packet(i)) /\ ~got_bad_packet(i).in_sync
<1> DEFINE n == now_of(i)
           last == conn[i].last_reset_time
           recent == last \in n - RESET_WINDOW .. n + RESET_WINDOW
<1>1. conn[i] \in Conns /\ n \in Times /\ last <= n
  BY TimesAgree DEF ResetTypeOK, LatestEpoch
<1>2. /\ conn[i].consecutive_bad_pkts \in Nat /\ conn[i].consecutive_bad_pkts + 1 \in Nat
      /\ last \in Nat /\ n \in Nat
  BY <1>1, TimesAgree DEF Conns, ResetTypeOK
<1>3. ASSUME NEW k \in Nat, got_bad_packet(i) = Bad(conn[i], k)
      PROVE  Outcome(i, got_bad_packet(i)) /\ ~got_bad_packet(i).in_sync
  <2> DEFINE c == conn[i]
             d == Bad(c, k)
  <2> HIDE DEF c
  <2>1. c \in Conns
    BY <1>1 DEF c
  <2>2. d \in Conns /\ d.epoch = c.epoch /\ d.last_reset_time = c.last_reset_time /\ d.in_sync = FALSE
    BY <2>1, BadConn, Zenon
  <2> HIDE DEF d
  <2>3. Outcome(i, d) /\ ~d.in_sync
    BY <2>2 DEF Outcome, Later, c
  <2> QED BY <1>3, <2>3 DEF d, c
<1>4. CASE conn[i].consecutive_bad_pkts + 1 < THRESHOLD \/ recent
  <2>1. \/ got_bad_packet(i) = Bad(conn[i], conn[i].consecutive_bad_pkts + 1)
        \/ got_bad_packet(i) = Bad(conn[i], 0)
    BY <1>4, Zenon DEF got_bad_packet, Bad
  <2> QED BY <1>2, <1>3, <2>1
<1>5. CASE ~(conn[i].consecutive_bad_pkts + 1 < THRESHOLD) /\ ~recent
  <2>1. got_bad_packet(i) = do_proto_reset(n, FALSE)
    BY <1>5 DEF got_bad_packet
  <2>2. last < n
    <3>1. last \in Nat /\ n \in Nat /\ RESET_WINDOW \in Nat
      BY <1>2, ResetAssumption
    <3> HIDE DEF last, n
    <3> QED BY <1>1, <1>5, <3>1
  <2>3. /\ got_bad_packet(i) \in Conns
        /\ got_bad_packet(i).last_reset_time = n
        /\ got_bad_packet(i).epoch = n
        /\ ~got_bad_packet(i).in_sync
    BY <1>1, <2>1, ResetConn, Zenon
  <2> QED BY <1>2, <2>2, <2>3 DEF Outcome, Later
<1> QED BY <1>4, <1>5

\* A RESET is applied only if that leads to a later epoch.
LEMMA ResetPayload ==
  ASSUME ClocksAgree, ResetTypeOK, LatestEpoch, NEW i \in Sides,
         NEW t \in Times, t <= now_of(ENDPOINT)
  PROVE  \E drop \in BOOLEAN, d \in Conns :
           /\ reset_payload_handler(i, t) = [drop |-> drop, c |-> d]
           /\ Outcome(i, d) /\ (d.in_sync => IS_ENDPOINT(i))
           /\ ~drop => t = d.last_reset_time
<1> DEFINE n == now_of(i)
           c == conn[i]
           last == c.last_reset_time
           sync == IS_ENDPOINT(i)
           half == RST_WIN[i] \div 2
           last_is_recent == tstamp_in_window(last, n, RST_WIN[i])
           payload_is_recent == tstamp_in_window(t, n, RST_WIN[i])
           same == Synced(c, sync)
           keep == Synced(c, FALSE)
           accept == do_proto_reset(t, sync)
           choose_new == do_proto_reset(n, sync)
<1>1. c \in Conns /\ n \in Times /\ last <= n /\ t <= n /\ sync \in BOOLEAN
  BY TimesAgree DEF ResetTypeOK, LatestEpoch, IS_ENDPOINT
<1>2. last \in Nat /\ n \in Nat /\ t \in Nat /\ RST_WIN[i] \in Nat \ {0} /\ half \in Nat
  BY <1>1, TimesAgree, ResetAssumption DEF Conns, ResetTypeOK
<1>3. (~last_is_recent => last < n - half) /\ (payload_is_recent => t >= n - half)
  <2> HIDE DEF last, n
  <2> QED BY <1>1, <1>2 DEF tstamp_in_window
<1>4. CASE t = last
  <2>1. reset_payload_handler(i, t) = [drop |-> FALSE, c |-> same]
    BY <1>4 DEF reset_payload_handler, Synced
  <2>2. same \in Conns /\ same.last_reset_time = last /\ same.epoch = c.epoch /\ same.in_sync = sync
    BY <1>1, SyncedConn
  <2> HIDE DEF same
  <2> QED BY <1>4, <2>1, <2>2, Zenon DEF Outcome, Later
<1>5. CASE t # last /\ last_is_recent /\ ~(payload_is_recent /\ t > last)
  <2>1. reset_payload_handler(i, t) = [drop |-> TRUE, c |-> keep]
    BY <1>5 DEF reset_payload_handler, Synced
  <2>2. keep \in Conns /\ keep.last_reset_time = last /\ keep.epoch = c.epoch /\ ~keep.in_sync
    BY <1>1, SyncedConn, Zenon
  <2> HIDE DEF keep
  <2> QED BY <2>1, <2>2, Zenon DEF Outcome, Later
<1>6. CASE t # last /\ payload_is_recent /\ (last_is_recent => t > last)
  <2>1. reset_payload_handler(i, t) = [drop |-> FALSE, c |-> accept]
    BY <1>6 DEF reset_payload_handler
  <2>2. last < t /\ t <= n
    <3> HIDE DEF last, n, half, last_is_recent, payload_is_recent
    <3> QED BY <1>1, <1>2, <1>3, <1>6
  <2>3. accept \in Conns /\ accept.last_reset_time = t /\ accept.epoch = t /\ accept.in_sync = sync
    BY <1>1, ResetConn
  <2> HIDE DEF accept
  <2> QED BY <2>1, <2>2, <2>3, Zenon DEF Outcome, Later
<1>7. CASE t # last /\ ~last_is_recent /\ ~payload_is_recent
  <2>1. reset_payload_handler(i, t) = [drop |-> TRUE, c |-> choose_new]
    BY <1>7 DEF reset_payload_handler
  <2>2. last < n
    <3> HIDE DEF last, n, half, last_is_recent, payload_is_recent
    <3> QED BY <1>2, <1>3, <1>7
  <2>3. /\ choose_new \in Conns /\ choose_new.last_reset_time = n /\ choose_new.epoch = n
        /\ choose_new.in_sync = sync
    BY <1>1, ResetConn
  <2> HIDE DEF choose_new
  <2>4. Outcome(i, choose_new)
    BY <1>2, <2>2, <2>3 DEF Outcome, Later
  <2> QED BY <2>1, <2>3, <2>4, Zenon
<1> QED BY <1>4, <1>5, <1>6, <1>7

\* A packet that is not dropped is of the epoch the side was or is now in, and only
\* one that acks the controller's epoch puts the controller in sync.
LEMMA Header ==
  ASSUME ClocksAgree, ResetTypeOK, LatestEpoch, NEW i \in Sides, NEW damaged \in BOOLEAN,
         NEW p \in Pkts, p.epoch <= now_of(ENDPOINT)
  PROVE  \E drop \in BOOLEAN, d \in Conns :
           /\ handle_header(i, p, damaged) = [drop |-> drop, c |-> d]
           /\ Outcome(i, d)
           /\ ~drop => p.epoch \in {d.last_reset_time, conn[i].epoch}
           /\ d.in_sync => IS_ENDPOINT(i) \/ p.ack_epoch = d.last_reset_time
<1>1. p.epoch \in Times /\ conn[i] \in Conns /\ 0 \in Nat
  BY DEF Pkts, ResetTypeOK
<1>2. CASE damaged \/ ~good_checksum(i, p)
  <2>1. handle_header(i, p, damaged) = [drop |-> TRUE, c |-> got_bad_packet(i)]
    BY <1>2 DEF handle_header
  <2>2. got_bad_packet(i) \in Conns
    BY BadPacket DEF Outcome
  <2> QED BY <2>1, <2>2, BadPacket, Zenon
<1>3. CASE ~damaged /\ good_checksum(i, p) /\ p.reset
  <2>1. PICK drop \in BOOLEAN, d \in Conns :
          /\ reset_payload_handler(i, p.epoch) = [drop |-> drop, c |-> d]
          /\ Outcome(i, d) /\ (d.in_sync => IS_ENDPOINT(i))
          /\ ~drop => p.epoch = d.last_reset_time
    BY <1>1, ResetPayload, Zenon
  <2>2. handle_header(i, p, damaged) = [drop |-> drop, c |-> Counted(d, 0)]
    BY <1>3, <2>1 DEF handle_header, Counted
  <2>3. /\ Counted(d, 0) \in Conns /\ Counted(d, 0).epoch = d.epoch
        /\ Counted(d, 0).last_reset_time = d.last_reset_time
        /\ Counted(d, 0).in_sync = d.in_sync
    BY CountedConn
  <2>4. Outcome(i, Counted(d, 0))
    BY <2>1, <2>3 DEF Outcome, Later
  <2> QED BY <2>1, <2>2, <2>3, <2>4, Zenon
<1>4. CASE ~damaged /\ good_checksum(i, p) /\ ~p.reset
  <2> DEFINE e == Synced(conn[i], TRUE)
             d == Counted(e, 0)
  <2>1. handle_header(i, p, damaged) = [drop |-> FALSE, c |-> d]
    BY <1>4, Zenon DEF handle_header, Counted, Synced
  <2>2. e \in Conns /\ e.epoch = conn[i].epoch /\ e.last_reset_time = conn[i].last_reset_time
    BY <1>1, SyncedConn, Zenon
  <2> HIDE DEF e
  <2>3. d \in Conns /\ d.epoch = e.epoch /\ d.last_reset_time = e.last_reset_time
    BY <2>2, CountedConn
  <2>4. p.epoch = conn[i].epoch /\ p.ack_epoch = conn[i].last_reset_time
    BY <1>4 DEF good_checksum
  <2> HIDE DEF d
  <2>5. Outcome(i, d)
    BY <2>2, <2>3 DEF Outcome, Later
  <2> QED BY <2>1, <2>2, <2>3, <2>4, <2>5, Zenon
<1> QED BY <1>2, <1>3, <1>4

-----------------------------------------------------------------------------
\* What begun records when side i goes on with connection c
LEMMA Entered ==
  ASSUME ResetTypeOK, LatestEpoch, ClocksAgree, NEW i \in Sides, NEW c \in Conns, Later(i, c)
  PROVE  /\ begun_after(i, c) \in [Sides -> [Times -> Nat]]
         /\ \A j \in Sides \ {i} : begun_after(i, c)[j] = begun[j]
         /\ begun_after(i, c)[i][c.last_reset_time] = 1
         /\ \A t \in Times :
              /\ begun[i][t] > 0 => begun_after(i, c)[i][t] > 0
              /\ begun_after(i, c)[i][t] <= 1
              /\ begun_after(i, c)[i][t] > 0 => t <= c.last_reset_time
<1> DEFINE last == conn[i].last_reset_time
           s == c.last_reset_time
<1>1. /\ last \in Times /\ s \in Times /\ Times \subseteq Nat
      /\ begun \in [Sides -> [Times -> Nat]]
      /\ begun[i][last] = 1
      /\ \A t \in Times : begun[i][t] <= 1 /\ (begun[i][t] > 0 => t <= last)
  BY TimesAgree DEF ResetTypeOK, Conns, LatestEpoch
<1> HIDE DEF last, s
<1>2. CASE s = last
  <2>1. begun_after(i, c) = begun
    BY <1>2 DEF begun_after, s, last
  <2> QED BY <1>1, <1>2, <2>1 DEF s
<1>3. CASE s # last
  <2>1. begun_after(i, c) = [begun EXCEPT ![i][s] = @ + 1]
    BY <1>3 DEF begun_after, s, last
  <2>2. last < s
    BY <1>3 DEF Later, s, last
  <2>3. last \in Nat /\ s \in Nat /\ begun[i] \in [Times -> Nat] /\ begun[i][s] \in Nat
    BY <1>1
  <2>4. begun[i][s] = 0
    BY <1>1, <2>2, <2>3
  <2>5. /\ begun_after(i, c) \in [Sides -> [Times -> Nat]]
        /\ \A j \in Sides \ {i} : begun_after(i, c)[j] = begun[j]
        /\ begun_after(i, c)[i] = [begun[i] EXCEPT ![s] = 1]
    BY <1>1, <2>1, <2>3, <2>4
  <2>6. /\ begun_after(i, c)[i][s] = 1
        /\ \A t \in Times \ {s} : begun_after(i, c)[i][t] = begun[i][t]
    BY <1>1, <2>3, <2>5
  <2>7. ASSUME NEW t \in Times
        PROVE  /\ begun[i][t] > 0 => begun_after(i, c)[i][t] > 0
               /\ begun_after(i, c)[i][t] <= 1
               /\ begun_after(i, c)[i][t] > 0 => t <= s
    <3>1. CASE t = s
      BY <2>3, <2>6, <3>1, SMTT(30)
    <3>2. CASE t # s
      <4>1. t \in Nat /\ begun[i][t] \in Nat
        BY <1>1, <2>3
      <4>2. begun_after(i, c)[i][t] = begun[i][t]
        BY <2>6, <3>2
      <4>3. begun[i][t] <= 1 /\ (begun[i][t] > 0 => t <= last)
        BY <1>1
      <4> QED BY <2>2, <2>3, <4>1, <4>2, <4>3, SMTT(30)
    <3> QED BY <3>1, <3>2
  <2> QED BY <2>5, <2>6, <2>7 DEF s
<1> QED BY <1>2, <1>3

-----------------------------------------------------------------------------
\* Side i goes on with connection c, whose epoch is the same or a later one.
LEMMA SideStep ==
  ASSUME ClocksAgree, ResetInv, NEW i \in Sides, NEW c \in Conns, Later(i, c),
         conn' = [conn EXCEPT ![i] = c], begun' = begun_after(i, c),
         clock' = clock, net' = net
  PROVE  /\ conn' \in [Sides -> Conns] /\ begun' \in [Sides -> [Times -> Nat]]
         /\ LatestEpoch'
         /\ \A j \in Sides, t \in Times : begun[j][t] > 0 => begun'[j][t] > 0
<1>1. /\ conn \in [Sides -> Conns] /\ clock \in START .. CLOCK_END
      /\ conn'[i] = c /\ \A j \in Sides \ {i} : conn'[j] = conn[j]
      /\ conn' \in [Sides -> Conns]
  BY DEF ResetInv, ResetTypeOK
<1>2. /\ begun' \in [Sides -> [Times -> Nat]]
      /\ \A j \in Sides \ {i} : begun'[j] = begun[j]
      /\ begun'[i][c.last_reset_time] = 1
      /\ \A t \in Times :
           /\ begun[i][t] > 0 => begun'[i][t] > 0
           /\ begun'[i][t] <= 1
           /\ begun'[i][t] > 0 => t <= c.last_reset_time
  BY Entered DEF ResetInv
<1>3. now_of(i)' = now_of(i) /\ now_of(ENDPOINT)' = now_of(ENDPOINT)
      /\ \A j \in Sides : now_of(j)' = now_of(j)
  BY DEF now_of
<1>4. conn'[i].last_reset_time <= now_of(i)'
  BY <1>1, <1>3 DEF Later, ResetInv, LatestEpoch
<1>5. LatestEpoch'
  <2>1. ASSUME NEW j \in Sides
        PROVE  /\ conn'[j].last_reset_time <= now_of(j)'
               /\ begun'[j][conn'[j].last_reset_time] = 1
               /\ \A t \in Times :
                    begun'[j][t] <= 1 /\ (begun'[j][t] > 0 => t <= conn'[j].last_reset_time)
    <3>1. CASE j = i
      BY <1>1, <1>2, <1>4, <3>1
    <3>2. CASE j # i
      <4>1. conn'[j] = conn[j] /\ begun'[j] = begun[j] /\ now_of(j)' = now_of(j)
        BY <1>1, <1>2, <1>3, <3>2
      <4> QED BY <4>1 DEF ResetInv, LatestEpoch
    <3> QED BY <3>1, <3>2
  <2>2. \A p \in net' : p.epoch <= now_of(ENDPOINT)'
    BY <1>3 DEF ResetInv, LatestEpoch
  <2> QED BY <2>1, <2>2, Zenon DEF LatestEpoch, Times
<1>6. ASSUME NEW j \in Sides, NEW t \in Times, begun[j][t] > 0
      PROVE  begun'[j][t] > 0
  BY <1>2, <1>6
<1> QED BY <1>1, <1>2, <1>5, <1>6

\* What is in the network, and what the peer sends now
LEMMA Arriving ==
  ASSUME ClocksAgree, ResetInv, NEW i \in Sides, NEW p, arrives(i, p)
  PROVE  /\ p \in Pkts /\ p.epoch <= now_of(ENDPOINT)
         /\ i = CONTROLLER => begun[ENDPOINT][p.ack_epoch] > 0
<1>1. CASE calm = NONE
  BY <1>1 DEF arrives, ResetInv, ResetTypeOK, LatestEpoch, EndpointEntered
<1>2. CASE calm # NONE
  <2> DEFINE j == peer(i)
  <2>1. p = packet_of(j) /\ j \in Sides /\ (i = CONTROLLER => j = ENDPOINT)
    BY <1>2 DEF arrives, peer, Sides, ENDPOINT, CONTROLLER
  <2> HIDE DEF j
  <2>2. conn[j] \in Conns /\ conn[j].last_reset_time <= now_of(j) /\ peer(j) \in Sides
    BY <2>1 DEF ResetInv, ResetTypeOK, LatestEpoch, peer, Sides
  <2>3. packet_of(j) \in Pkts
    BY <2>2 DEF Pkts, packet_of, Conns
  <2>4. packet_of(j).epoch = conn[j].last_reset_time /\ packet_of(j).ack_epoch = conn[j].epoch
    BY DEF packet_of
  <2>5. now_of(j) = now_of(ENDPOINT)
    BY <2>1, TimesAgree DEF ResetInv, ResetTypeOK
  <2> QED BY <2>1, <2>2, <2>3, <2>4, <2>5 DEF ResetInv, EndpointEntered
<1> QED BY <1>1, <1>2

\* The controller goes on with connection c.
LEMMA ControllerStep ==
  ASSUME ClocksAgree, ResetInv, NEW c \in Conns, Later(CONTROLLER, c),
         conn' = [conn EXCEPT ![CONTROLLER] = c], begun' = begun_after(CONTROLLER, c),
         clock' = clock, net' = net, rx' = rx,
         c.in_sync => begun[ENDPOINT][c.last_reset_time] > 0
  PROVE  ResetInv'
<1>1. CONTROLLER \in Sides /\ CONTROLLER # ENDPOINT /\ ENDPOINT \in Sides
  BY DEF Sides, CONTROLLER, ENDPOINT
<1>2. /\ conn' \in [Sides -> Conns] /\ begun' \in [Sides -> [Times -> Nat]] /\ LatestEpoch'
      /\ \A j \in Sides, t \in Times : begun[j][t] > 0 => begun'[j][t] > 0
  BY <1>1, SideStep, Zenon
<1>3. ResetTypeOK'
  BY <1>2 DEF ResetInv, ResetTypeOK
<1>4. conn'[CONTROLLER] = c /\ conn'[ENDPOINT] = conn[ENDPOINT]
  BY <1>1 DEF ResetInv, ResetTypeOK
<1>5. EndpointEntered'
  <2>1. conn[ENDPOINT].epoch \in Times
    BY <1>1 DEF ResetInv, ResetTypeOK, Conns
  <2>2. begun'[ENDPOINT][conn'[ENDPOINT].epoch] > 0
    BY <1>1, <1>2, <1>4, <2>1 DEF ResetInv, EndpointEntered
  <2>3. ASSUME NEW k \in Cpus, rx[k] # NONE
        PROVE  begun'[ENDPOINT][rx[k]] > 0
    BY <1>1, <1>2, <2>3 DEF ResetInv, ResetTypeOK, EndpointEntered
  <2>4. ASSUME NEW q \in net, q.to = CONTROLLER
        PROVE  begun'[ENDPOINT][q.ack_epoch] > 0
    BY <1>1, <1>2, <2>4 DEF ResetInv, ResetTypeOK, EndpointEntered, Pkts
  <2> QED BY <2>2, <2>3, <2>4 DEF EndpointEntered
<1>6. ControllerInSync'
  <2>1. c.last_reset_time \in Times
    BY DEF Conns
  <2> QED BY <1>1, <1>2, <1>4, <2>1 DEF ControllerInSync
<1> QED BY <1>2, <1>3, <1>5, <1>6 DEF ResetInv

\* The end node goes on with connection c: a new epoch is entered, so every epoch that
\* was entered before still is.
LEMMA EndpointStep ==
  ASSUME ClocksAgree, ResetInv, NEW c \in Conns, Later(ENDPOINT, c),
         conn' = [conn EXCEPT ![ENDPOINT] = c], begun' = begun_after(ENDPOINT, c),
         clock' = clock, net' = net,
         begun'[ENDPOINT][c.epoch] > 0,
         rx' \in [Cpus -> Times \cup {NONE}],
         \A k \in Cpus : rx'[k] # NONE => rx'[k] = rx[k] \/ begun'[ENDPOINT][rx'[k]] > 0
  PROVE  ResetInv'
<1>1. CONTROLLER \in Sides /\ CONTROLLER # ENDPOINT /\ ENDPOINT \in Sides
  BY DEF Sides, CONTROLLER, ENDPOINT
<1>2. /\ conn' \in [Sides -> Conns] /\ begun' \in [Sides -> [Times -> Nat]] /\ LatestEpoch'
      /\ \A j \in Sides, t \in Times : begun[j][t] > 0 => begun'[j][t] > 0
  BY <1>1, SideStep, Zenon
<1>3. ResetTypeOK'
  BY <1>2 DEF ResetInv, ResetTypeOK
<1>4. conn'[ENDPOINT] = c /\ conn'[CONTROLLER] = conn[CONTROLLER]
  BY <1>1 DEF ResetInv, ResetTypeOK
<1>5. EndpointEntered'
  <2>1. ASSUME NEW k \in Cpus, rx'[k] # NONE
        PROVE  begun'[ENDPOINT][rx'[k]] > 0
    BY <1>1, <1>2, <2>1 DEF ResetInv, ResetTypeOK, EndpointEntered
  <2>2. ASSUME NEW q \in net, q.to = CONTROLLER
        PROVE  begun'[ENDPOINT][q.ack_epoch] > 0
    BY <1>1, <1>2, <2>2 DEF ResetInv, ResetTypeOK, EndpointEntered, Pkts
  <2> QED BY <1>4, <2>1, <2>2 DEF EndpointEntered
<1>6. ControllerInSync'
  <2>1. conn[CONTROLLER].last_reset_time \in Times
    BY <1>1 DEF ResetInv, ResetTypeOK, Conns
  <2> QED BY <1>1, <1>2, <1>4, <2>1 DEF ResetInv, ControllerInSync
<1> QED BY <1>2, <1>3, <1>5, <1>6 DEF ResetInv

-----------------------------------------------------------------------------
\* The controller receives.
LEMMA ControllerRx ==
  ASSUME ClocksAgree, ResetInv, NEW p, NEW damaged \in BOOLEAN, controller_rx(p, damaged)
  PROVE  ResetInv'
<1> DEFINE r == handle_header(CONTROLLER, p, damaged)
<1>1. CONTROLLER \in Sides /\ ~IS_ENDPOINT(CONTROLLER)
  BY DEF Sides, CONTROLLER, ENDPOINT, IS_ENDPOINT
<1>2. p \in Pkts /\ p.epoch <= now_of(ENDPOINT) /\ begun[ENDPOINT][p.ack_epoch] > 0
  BY <1>1, Arriving DEF controller_rx
<1>3. PICK drop \in BOOLEAN, d \in Conns :
        /\ r = [drop |-> drop, c |-> d]
        /\ Outcome(CONTROLLER, d)
        /\ d.in_sync => p.ack_epoch = d.last_reset_time
  BY <1>1, <1>2, Header DEF ResetInv
<1>4. r.c = d
  <2> HIDE DEF r
  <2> QED BY <1>3
<1>5. PICK c \in {d} \cup successful_rx(d, p.epoch) : conn' = [conn EXCEPT ![CONTROLLER] = c]
  BY <1>4, Zenon DEF controller_rx
<1>6. c \in Conns /\ c.last_reset_time = d.last_reset_time /\ c.in_sync = d.in_sync
  <2>1. c = d \/ c = [d EXCEPT !.epoch = p.epoch]
    BY <1>5 DEF successful_rx
  <2>2. p.epoch \in Times
    BY <1>2 DEF Pkts
  <2> QED BY <2>1, <2>2 DEF Conns
<1>7. begun' = begun_after(CONTROLLER, c)
  BY <1>4, <1>6 DEF controller_rx, begun_after
<1>8. clock' = clock /\ net' = net /\ rx' = rx
  BY DEF controller_rx
<1>9. Later(CONTROLLER, c)
  BY <1>3, <1>6 DEF Outcome, Later
<1> QED BY <1>2, <1>3, <1>5, <1>6, <1>7, <1>8, <1>9, ControllerStep, Zenon

\* CPU k of the end node handles a header.
LEMMA EndpointRx ==
  ASSUME ClocksAgree, ResetInv, NEW k \in Cpus, NEW p, NEW damaged \in BOOLEAN,
         endpoint_rx(k, p, damaged)
  PROVE  ResetInv'
<1> DEFINE r == handle_header(ENDPOINT, p, damaged)
<1>1. ENDPOINT \in Sides
  BY DEF Sides
<1>2. p \in Pkts /\ p.epoch <= now_of(ENDPOINT) /\ p.epoch \in Times
  BY <1>1, Arriving, SMTT(30) DEF endpoint_rx, Pkts
<1>3. PICK drop \in BOOLEAN, d \in Conns :
        /\ r = [drop |-> drop, c |-> d]
        /\ Outcome(ENDPOINT, d)
        /\ ~drop => p.epoch \in {d.last_reset_time, conn[ENDPOINT].epoch}
  <2>1. ResetTypeOK /\ LatestEpoch
    BY Zenon DEF ResetInv
  <2>2. PICK drop \in BOOLEAN, d \in Conns :
          /\ handle_header(ENDPOINT, p, damaged) = [drop |-> drop, c |-> d]
          /\ Outcome(ENDPOINT, d)
          /\ ~drop => p.epoch \in {d.last_reset_time, conn[ENDPOINT].epoch}
          /\ d.in_sync => IS_ENDPOINT(ENDPOINT) \/ p.ack_epoch = d.last_reset_time
    BY <1>1, <1>2, <2>1, Header, Zenon
  <2> QED BY <2>2, Zenon
<1>4. r.c = d /\ r.drop = drop
  <2> HIDE DEF r
  <2> QED BY <1>3
<1>5. /\ conn' = [conn EXCEPT ![ENDPOINT] = d] /\ begun' = begun_after(ENDPOINT, d)
      /\ clock' = clock /\ net' = net
  BY <1>4 DEF endpoint_rx
<1>6. PICK e \in IF drop THEN {NONE} ELSE {NONE, p.epoch} : rx' = [rx EXCEPT ![k] = e]
  BY <1>4, Zenon DEF endpoint_rx
<1>7. /\ begun'[ENDPOINT][d.last_reset_time] = 1
      /\ \A t \in Times : begun[ENDPOINT][t] > 0 => begun'[ENDPOINT][t] > 0
  BY <1>1, <1>3, <1>5, Entered, Zenon DEF ResetInv, Outcome
<1>8. conn[ENDPOINT].epoch \in Times
  BY <1>1 DEF ResetInv, ResetTypeOK, Conns
<1>9. begun'[ENDPOINT][conn[ENDPOINT].epoch] > 0
  BY <1>7, <1>8, Zenon DEF ResetInv, EndpointEntered
<1>10. begun'[ENDPOINT][d.last_reset_time] > 0 /\ begun'[ENDPOINT][d.epoch] > 0
  <2>1. begun'[ENDPOINT][d.last_reset_time] > 0
    BY <1>7, SMTT(30)
  <2>2. d.epoch \in {d.last_reset_time, conn[ENDPOINT].epoch}
    BY <1>3, Zenon DEF Outcome
  <2> QED BY <1>9, <2>1, <2>2, Zenon
<1>11. e # NONE => e = p.epoch /\ begun'[ENDPOINT][e] > 0
  <2>1. e # NONE => ~drop /\ e = p.epoch
    BY <1>6, Zenon
  <2> QED BY <1>3, <1>9, <1>10, <2>1, Zenon
<1>12. /\ rx' \in [Cpus -> Times \cup {NONE}]
       /\ rx'[k] = e /\ \A m \in Cpus \ {k} : rx'[m] = rx[m]
  BY <1>2, <1>6, <1>11 DEF ResetInv, ResetTypeOK
<1>13. \A m \in Cpus : rx'[m] # NONE => rx'[m] = rx[m] \/ begun'[ENDPOINT][rx'[m]] > 0
  BY <1>11, <1>12
<1> QED BY <1>3, <1>5, <1>10, <1>12, <1>13, EndpointStep, Zenon DEF Outcome

\* CPU k records the number it received.
LEMMA EndpointRxDone ==
  ASSUME ClocksAgree, ResetInv, NEW k \in Cpus, endpoint_rx_done(k)
  PROVE  ResetInv'
<1>1. ENDPOINT \in Sides /\ conn[ENDPOINT] \in Conns
  BY DEF Sides, ResetInv, ResetTypeOK
<1>2. rx[k] \in Times /\ begun[ENDPOINT][rx[k]] > 0
  BY DEF endpoint_rx_done, ResetInv, ResetTypeOK, EndpointEntered
<1>3. PICK c \in {conn[ENDPOINT]} \cup successful_rx(conn[ENDPOINT], rx[k]) :
        conn' = [conn EXCEPT ![ENDPOINT] = c]
  BY Zenon DEF endpoint_rx_done
<1>4. \/ c = conn[ENDPOINT]
      \/ c = [conn[ENDPOINT] EXCEPT !.epoch = rx[k]]
  BY <1>3 DEF successful_rx
<1>5. /\ c \in Conns /\ c.last_reset_time = conn[ENDPOINT].last_reset_time
      /\ c.epoch \in {conn[ENDPOINT].epoch, rx[k]}
  <2> DEFINE d == conn[ENDPOINT]
             t == rx[k]
  <2>1. d \in Conns /\ t \in Times /\ (c = d \/ c = [d EXCEPT !.epoch = t])
    BY <1>1, <1>2, <1>4
  <2> HIDE DEF d, t
  <2>2. c \in Conns /\ c.last_reset_time = d.last_reset_time /\ c.epoch \in {d.epoch, t}
    BY <2>1 DEF Conns
  <2> QED BY <2>2 DEF d, t
<1>6. begun' = begun /\ clock' = clock /\ net' = net /\ rx' = [rx EXCEPT ![k] = NONE]
  BY DEF endpoint_rx_done
<1>7. begun' = begun_after(ENDPOINT, c) /\ Later(ENDPOINT, c)
  BY <1>5, <1>6 DEF begun_after, Later
<1>8. begun'[ENDPOINT][c.epoch] > 0
  BY <1>2, <1>5, <1>6 DEF ResetInv, EndpointEntered
<1>9. rx' \in [Cpus -> Times \cup {NONE}] /\ \A m \in Cpus : rx'[m] # NONE => rx'[m] = rx[m]
  BY <1>6 DEF ResetInv, ResetTypeOK
<1> QED BY <1>3, <1>5, <1>6, <1>7, <1>8, <1>9, EndpointStep, Zenon

\* A reset to the present, at a time not read before
LEMMA FreshReset ==
  ASSUME ClocksAgree, ResetInv, NEW i \in Sides, unread(i)
  PROVE  LET c == do_proto_reset(now_of(i), FALSE)
         IN  /\ c \in Conns /\ Later(i, c) /\ ~c.in_sync
             /\ begun_after(i, c)[i][c.epoch] > 0
<1> DEFINE n == now_of(i)
           last == conn[i].last_reset_time
           c == do_proto_reset(n, FALSE)
<1>1. n \in Times /\ n \in Nat /\ last \in Nat /\ last <= n /\ begun[i][last] = 1
  BY TimesAgree DEF ResetInv, ResetTypeOK, LatestEpoch, Conns
<1>2. last # n
  BY <1>1 DEF unread
<1>3. last < n
  <2> HIDE DEF last, n
  <2> QED BY <1>1, <1>2
<1>4. c \in Conns /\ c.last_reset_time = n /\ c.epoch = n /\ c.in_sync = FALSE
  BY <1>1, ResetConn, Zenon
<1> HIDE DEF c
<1>5. Later(i, c)
  <2>1. last < c.last_reset_time /\ c.last_reset_time <= n
    <3> HIDE DEF last, n
    <3> QED BY <1>1, <1>3, <1>4
  <2> QED BY <2>1, Zenon DEF Later
<1>6. begun_after(i, c)[i][c.epoch] > 0
  BY <1>4, <1>5, Entered, SMTT(30) DEF ResetInv
<1> QED BY <1>4, <1>5, <1>6, Zenon DEF c

LEMMA ForceReset ==
  ASSUME ClocksAgree, ResetInv, NEW k \in Cpus, endpoint_force_reset(k)
  PROVE  ResetInv'
<1> DEFINE c == do_proto_reset(now_of(ENDPOINT), FALSE)
<1>1. ENDPOINT \in Sides
  BY DEF Sides
<1>2. c \in Conns /\ Later(ENDPOINT, c) /\ begun_after(ENDPOINT, c)[ENDPOINT][c.epoch] > 0
  BY <1>1, FreshReset, Zenon DEF endpoint_force_reset
<1>3. /\ conn' = [conn EXCEPT ![ENDPOINT] = c] /\ begun' = begun_after(ENDPOINT, c)
      /\ clock' = clock /\ net' = net /\ rx' = rx
  BY DEF endpoint_force_reset
<1> HIDE DEF c
<1>4. rx' \in [Cpus -> Times \cup {NONE}]
  BY <1>3 DEF ResetInv, ResetTypeOK
<1> QED BY <1>2, <1>3, <1>4, EndpointStep, Zenon

LEMMA Restart ==
  ASSUME ClocksAgree, ResetInv, NEW i \in Sides, fpproto_init_conn(i)
  PROVE  ResetInv'
<1> DEFINE c == do_proto_reset(now_of(i), FALSE)
<1>1. c \in Conns /\ Later(i, c) /\ ~c.in_sync /\ begun_after(i, c)[i][c.epoch] > 0
  BY FreshReset, Zenon DEF fpproto_init_conn
<1>2. /\ conn' = [conn EXCEPT ![i] = c] /\ begun' = begun_after(i, c)
      /\ clock' = clock /\ net' = net
      /\ rx' = IF i = ENDPOINT THEN [k \in Cpus |-> NONE] ELSE rx
  BY DEF fpproto_init_conn
<1> HIDE DEF c
<1>3. CASE i = ENDPOINT
  <2>1. rx' = [k \in Cpus |-> NONE]
    BY <1>2, <1>3
  <2>2. rx' \in [Cpus -> Times \cup {NONE}] /\ \A k \in Cpus : rx'[k] = NONE
    BY <2>1
  <2> QED BY <1>1, <1>2, <1>3, <2>2, EndpointStep, Zenon
<1>4. CASE i = CONTROLLER
  <2>1. rx' = rx
    BY <1>2, <1>4 DEF CONTROLLER, ENDPOINT
  <2> QED BY <1>1, <1>2, <1>4, <2>1, ControllerStep, Zenon
<1> QED BY <1>3, <1>4 DEF Sides

\* Numbers go on within an epoch.
LEMMA Outage ==
  ASSUME ClocksAgree, ResetInv, NEW i \in Sides, outage(i)
  PROVE  ResetInv'
<1> DEFINE d == conn[i]
           c == [d EXCEPT !.span = AHEAD]
<1>1. d \in Conns
  BY DEF ResetInv, ResetTypeOK
<1>2. conn' = [conn EXCEPT ![i] = c]
  BY <1>1 DEF outage
<1> HIDE DEF d
<1>3. /\ c \in Conns /\ c.last_reset_time = d.last_reset_time /\ c.epoch = d.epoch
      /\ c.in_sync = d.in_sync
  BY <1>1 DEF Conns
<1> HIDE DEF c
<1>4. begun' = begun /\ clock' = clock /\ net' = net /\ rx' = rx
  BY DEF outage
<1>5. begun' = begun_after(i, c) /\ Later(i, c)
  BY <1>3, <1>4 DEF begun_after, Later, d
<1>6. rx' \in [Cpus -> Times \cup {NONE}]
  BY <1>4 DEF ResetInv, ResetTypeOK
<1>7. CASE i = ENDPOINT
  <2>1. begun'[ENDPOINT][c.epoch] > 0
    BY <1>3, <1>4, <1>7 DEF ResetInv, EndpointEntered, d
  <2> QED BY <1>2, <1>3, <1>4, <1>5, <1>6, <1>7, <2>1, EndpointStep, Zenon
<1>8. CASE i = CONTROLLER
  <2>1. c.in_sync => begun[ENDPOINT][c.last_reset_time] > 0
    BY <1>3, <1>8 DEF ResetInv, ControllerInSync, d
  <2> QED BY <1>2, <1>3, <1>4, <1>5, <1>8, <2>1, ControllerStep, Zenon
<1> QED BY <1>7, <1>8 DEF Sides

LEMMA ManyPackets ==
  ASSUME ClocksAgree, ResetInv, many_packets
  PROVE  ResetInv'
<1>1. /\ conn' = [i \in Sides |-> [conn[i] EXCEPT !.span = LONG]]
      /\ clock' = clock /\ rx' = rx /\ net' = net /\ begun' = begun
  BY DEF many_packets
<1>2. ASSUME NEW i \in Sides
      PROVE  /\ conn'[i] \in Conns /\ conn'[i].epoch = conn[i].epoch
             /\ conn'[i].last_reset_time = conn[i].last_reset_time
             /\ conn'[i].in_sync = conn[i].in_sync
  <2> DEFINE d == conn[i]
             c == [d EXCEPT !.span = LONG]
  <2>1. d \in Conns /\ conn'[i] = c
    BY <1>1 DEF ResetInv, ResetTypeOK
  <2> HIDE DEF d
  <2>2. /\ c \in Conns /\ c.last_reset_time = d.last_reset_time /\ c.epoch = d.epoch
        /\ c.in_sync = d.in_sync
    BY <2>1 DEF Conns
  <2> HIDE DEF c
  <2> QED BY <2>1, <2>2 DEF d
<1>3. conn' \in [Sides -> Conns]
  BY <1>1, <1>2
<1>4. ResetTypeOK'
  BY <1>1, <1>3 DEF ResetInv, ResetTypeOK
<1>5. LatestEpoch'
  BY <1>1, <1>2 DEF ResetInv, LatestEpoch, now_of
<1>6. EndpointEntered' /\ ControllerInSync'
  BY <1>1, <1>2 DEF ResetInv, EndpointEntered, ControllerInSync, Sides
<1> QED BY <1>4, <1>5, <1>6 DEF ResetInv

\* InFlight are sent and lost.
LEMMA NetStep ==
  ASSUME ClocksAgree, ResetInv, UNCHANGED <<clock, conn, rx, begun>>,
         \A p \in net' : p \in net \/ \E i \in Sides : p = packet_of(i)
  PROVE  ResetInv'
<1>1. ASSUME NEW p \in net'
      PROVE  /\ p \in Pkts /\ p.epoch <= now_of(ENDPOINT)
             /\ p.to = CONTROLLER => begun[ENDPOINT][p.ack_epoch] > 0
  <2>1. CASE p \in net
    BY <2>1 DEF ResetInv, ResetTypeOK, LatestEpoch, EndpointEntered
  <2>2. CASE \E i \in Sides : p = packet_of(i)
    <3>1. PICK i \in Sides : p = packet_of(i)
      BY <2>2
    <3>2. /\ conn[i] \in Conns /\ conn[i].last_reset_time <= now_of(ENDPOINT)
          /\ peer(i) \in Sides /\ (peer(i) = CONTROLLER => i = ENDPOINT)
      BY TimesAgree DEF ResetInv, ResetTypeOK, LatestEpoch, peer, Sides, ENDPOINT, CONTROLLER
    <3>3. packet_of(i) \in Pkts
      BY <3>2 DEF Pkts, packet_of, Conns
    <3>4. /\ packet_of(i).epoch = conn[i].last_reset_time /\ packet_of(i).to = peer(i)
          /\ packet_of(i).ack_epoch = conn[i].epoch
      BY DEF packet_of
    <3> QED BY <3>1, <3>2, <3>3, <3>4 DEF ResetInv, EndpointEntered
  <2> QED BY <2>1, <2>2
<1>2. ResetTypeOK'
  BY <1>1 DEF ResetInv, ResetTypeOK
<1>3. LatestEpoch'
  BY <1>1 DEF ResetInv, LatestEpoch, now_of
<1>4. EndpointEntered' /\ ControllerInSync'
  BY <1>1 DEF ResetInv, EndpointEntered, ControllerInSync
<1> QED BY <1>2, <1>3, <1>4 DEF ResetInv

LEMMA TickStep ==
  ASSUME ClocksAgree, ResetInv, ClockTick
  PROVE  ResetInv'
<1>1. /\ clock \in START .. CLOCK_END /\ START \in Nat /\ clock' = clock + 1
      /\ clock < CLOCK_END /\ CLOCK_END \in Nat
  BY ResetAssumption DEF ClockTick, ResetInv, ResetTypeOK, START
<1>2. conn' = conn /\ rx' = rx /\ net' = net /\ begun' = begun
  BY DEF ClockTick
<1>3. clock' \in START .. CLOCK_END
  BY <1>1
<1>4. ResetTypeOK'
  BY <1>2, <1>3 DEF ResetInv, ResetTypeOK
<1>5. \A i \in Sides : now_of(i) \in Nat /\ now_of(i)' = now_of(i) + 1
  BY <1>1, ResetAssumption DEF now_of
<1>6. \A t \in Times, i \in Sides : t <= now_of(i) => t <= now_of(i)'
  BY <1>1, <1>5, TimesAgree
<1>7. ENDPOINT \in Sides /\ \A i \in Sides : conn[i].last_reset_time \in Times
  BY DEF ResetInv, ResetTypeOK, Conns, Sides
<1>8. \A p \in net : p.epoch \in Times
  BY DEF ResetInv, ResetTypeOK, Pkts
<1>9. LatestEpoch'
  BY <1>2, <1>6, <1>7, <1>8 DEF ResetInv, LatestEpoch
<1>10. EndpointEntered' /\ ControllerInSync'
  BY <1>2 DEF ResetInv, EndpointEntered, ControllerInSync
<1> QED BY <1>4, <1>9, <1>10 DEF ResetInv

LEMMA InitReset ==
  ASSUME ClocksAgree, ResetInit
  PROVE  ResetInv
<1>1. PICK t \in [Sides -> {0, 1, START}] :
        /\ conn = [i \in Sides |-> do_proto_reset(t[i] + SKEW[i], FALSE)]
        /\ begun = [i \in Sides |-> [s \in Times |-> IF s = t[i] + SKEW[i] THEN 1 ELSE 0]]
  BY Zenon DEF ResetInit
<1>2. clock = START /\ START \in Nat /\ 1 <= START /\ clock \in START .. CLOCK_END
  BY ResetAssumption DEF ResetInit, START
<1>3. ASSUME NEW i \in Sides
      PROVE  /\ t[i] + SKEW[i] \in Times /\ t[i] + SKEW[i] \in Nat
             /\ t[i] + SKEW[i] <= now_of(i)
  BY <1>2, ResetAssumption DEF Times, now_of, Sides, ENDPOINT, CONTROLLER
<1>4. ASSUME NEW i \in Sides
      PROVE  /\ conn[i] \in Conns /\ conn[i].last_reset_time = t[i] + SKEW[i]
             /\ conn[i].epoch = t[i] + SKEW[i] /\ conn[i].in_sync = FALSE
  BY <1>1, <1>3, ResetConn, Zenon
<1>5. ASSUME NEW i \in Sides
      PROVE  /\ begun[i] \in [Times -> Nat] /\ begun[i][t[i] + SKEW[i]] = 1
             /\ \A s \in Times : begun[i][s] <= 1 /\ (begun[i][s] > 0 => s = t[i] + SKEW[i])
  BY <1>1, <1>3
<1>6. ENDPOINT \in Sides /\ CONTROLLER \in Sides
  BY DEF Sides
<1>7. conn \in [Sides -> Conns] /\ begun \in [Sides -> [Times -> Nat]]
  BY <1>1, <1>4, <1>5, Zenon
<1>8. ResetTypeOK
  BY <1>2, <1>7, Zenon DEF ResetInit, ResetTypeOK
<1>9. LatestEpoch
  <2>1. ASSUME NEW i \in Sides
        PROVE  /\ conn[i].last_reset_time <= now_of(i)
               /\ begun[i][conn[i].last_reset_time] = 1
               /\ \A s \in Times :
                    begun[i][s] <= 1 /\ (begun[i][s] > 0 => s <= conn[i].last_reset_time)
    <3> DEFINE u == t[i] + SKEW[i]
    <3>1. u \in Nat /\ u <= now_of(i) /\ conn[i].last_reset_time = u
      BY <1>3, <1>4, Zenon
    <3>2. begun[i][u] = 1 /\ \A s \in Times : begun[i][s] <= 1 /\ (begun[i][s] > 0 => s = u)
      BY <1>5
    <3> HIDE DEF u
    <3> QED BY <3>1, <3>2
  <2> QED BY <2>1, Zenon DEF ResetInit, LatestEpoch
<1>10. EndpointEntered /\ ControllerInSync
  <2>1. conn[ENDPOINT].epoch = conn[ENDPOINT].last_reset_time
    BY <1>4, <1>6, Zenon
  <2>2. ~conn[CONTROLLER].in_sync
    BY <1>4, <1>6, Zenon
  <2>3. begun[ENDPOINT][conn[ENDPOINT].last_reset_time] > 0
    BY <1>6, <1>9, SMTT(30) DEF LatestEpoch
  <2> QED BY <2>1, <2>2, <2>3, Zenon DEF ResetInit, EndpointEntered, ControllerInSync
<1> QED BY <1>8, <1>9, <1>10 DEF ResetInv

-----------------------------------------------------------------------------
LEMMA ResetStep ==
  ASSUME ClocksAgree, ResetInv, [ResetNext]_reset_vars
  PROVE  ResetInv'
<1>1. CASE ClockTick
  BY <1>1, TickStep
<1>2. CASE calm_down
  BY <1>2, NetStep DEF calm_down
<1>3. CASE many_packets
  BY <1>3, ManyPackets
<1>4. ASSUME NEW i \in Sides, send(i)
      PROVE  ResetInv'
  BY <1>4, NetStep DEF send
<1>5. ASSUME NEW i \in Sides, fpproto_init_conn(i) \/ outage(i)
      PROVE  ResetInv'
  BY <1>5, Restart, Outage
<1>6. ASSUME NEW p \in net, lose(p)
      PROVE  ResetInv'
  BY <1>6, NetStep DEF lose
<1>7. ASSUME NEW p \in InFlight, NEW damaged \in BOOLEAN, controller_rx(p, damaged)
      PROVE  ResetInv'
  BY <1>7, ControllerRx
<1>8. ASSUME NEW k \in Cpus, NEW p \in InFlight, NEW damaged \in BOOLEAN, endpoint_rx(k, p, damaged)
      PROVE  ResetInv'
  BY <1>8, EndpointRx
<1>9. ASSUME NEW k \in Cpus, endpoint_force_reset(k) \/ endpoint_rx_done(k)
      PROVE  ResetInv'
  BY <1>9, ForceReset, EndpointRxDone
<1>10. CASE UNCHANGED reset_vars
  BY <1>10, NetStep DEF reset_vars
<1> QED BY <1>1, <1>2, <1>3, <1>4, <1>5, <1>6, <1>7, <1>8, <1>9, <1>10 DEF ResetNext, NextOn

\* The four facts together hold in every reachable state of the reset protocol
\* (fpproto.c) as long as the clocks of the two hosts agree.
THEOREM ResetInductive == ASSUME ClocksAgree PROVE ResetSpec => []ResetInv
<1>1. ResetInit => ResetInv
  BY InitReset
<1>2. ResetInv /\ [ResetNext]_reset_vars => ResetInv'
  BY ResetStep
<1> QED BY <1>1, <1>2, PTL DEF ResetSpec

\* do_proto_reset is never done twice with the same time by a side, whatever RESETs
\* are lost, repeated, delayed or crossed and whenever a host restarts.
THEOREM EpochsOnce == ASSUME ClocksAgree PROVE ResetSpec => []EnteredOnce
<1>1. ResetInv => EnteredOnce
  BY DEF ResetInv, LatestEpoch, EnteredOnce
<1> QED BY <1>1, ResetInductive, PTL

\* A controller that has set in_sync counts in an epoch that the end node has entered.
THEOREM SyncIsShared == ASSUME ClocksAgree PROVE ResetSpec => []ControllerInSync
<1>1. ResetInv => ControllerInSync
  BY DEF ResetInv
<1> QED BY <1>1, ResetInductive, PTL
=============================================================================
