--------------------------- MODULE EndnodeProofs ---------------------------
(***************************************************************************)
(* Three parts of the end node, each for every value of its constants: the *)
(* pacer (pacer.h), the control path with its descriptors and its shutdown *)
(* (sch_fastpass.c, fastpass_proto.c), and the flow table while its        *)
(* configuration changes (sch_timeslot.c).                                 *)
(***************************************************************************)
EXTENDS Pacer, EndnodeControl, TimeslotTable, TLAPS

-----------------------------------------------------------------------------
(* The rate the pacer promises, for every cost, credit and minimum gap.    *)

LEMMA LargerBounds ==
    ASSUME NEW a \in Int, NEW b \in Int
    PROVE  /\ larger(a, b) \in {a, b}
           /\ larger(a, b) >= a
           /\ larger(a, b) >= b
    BY DEF larger

LEMMA PacerInit == Init => PacerInv
    BY PacerAssumption
    DEF Init, PacerInv, TypeOK, RateBound, NoDebt, AheadOfSpending, BehindLast,
        ScheduledAfterT, pacer_is_triggered, PACER_NO_NEXT_EVENT, larger

\* Every trigger, event and tick keeps the bucket ahead of what was spent.
LEMMA PacerStep == PacerInv /\ [Next]_vars => PacerInv'
<1> SUFFICES ASSUME PacerInv, [Next]_vars
             PROVE  PacerInv'
    OBVIOUS
<1> USE PacerAssumption
<1> DEFINE excess == larger(0, COST - MAX_CREDIT)
<1>0. excess \in Nat /\ excess >= COST - MAX_CREDIT
    BY LargerBounds DEF larger
<1>1. CASE Tick
    BY <1>1 DEF Tick, PacerInv, TypeOK, RateBound, NoDebt, AheadOfSpending,
        BehindLast, ScheduledAfterT, pacer_is_triggered
<1>2. CASE pacer_trigger
    <2>1. /\ next_event' \in Nat
          /\ next_event' >= T + COST
          /\ next_event' = now + MIN_GAP \/ next_event' = T + COST
        BY <1>2, LargerBounds DEF pacer_trigger, PacerInv, TypeOK, larger
    <2>2. next_event' = T + COST => next_event' <= last + COST + excess
        BY <1>0 DEF PacerInv, TypeOK, BehindLast
    <2>3. NoDebt'
        BY <2>1, <2>2, <1>2 DEF pacer_trigger, NoDebt
    <2> QED
        BY <1>2, <2>1, <2>3 DEF pacer_trigger, PacerInv, TypeOK, RateBound,
            AheadOfSpending, BehindLast, ScheduledAfterT, pacer_is_triggered
<1>3. CASE pacer_reset
    <2>1. /\ next_event \in Nat
          /\ next_event >= T + COST
        BY <1>3 DEF pacer_reset, PacerInv, TypeOK, ScheduledAfterT, pacer_is_triggered
    <2>2. /\ T' \in Nat
          /\ T' >= T + COST
          /\ T' >= next_event - MAX_CREDIT + COST
          /\ T' = T + COST \/ T' = next_event - MAX_CREDIT + COST
        BY <1>3, <2>1 DEF pacer_reset, new_T, larger, PacerInv, TypeOK
    <2>3. TypeOK'
        BY <1>3, <2>1, <2>2 DEF pacer_reset, PacerInv, TypeOK
    <2>4. ~pacer_is_triggered'
        BY <1>3 DEF pacer_reset, pacer_is_triggered
    <2>5. RateBound'
        BY <1>3, <2>1, LargerBounds
        DEF pacer_reset, PacerInv, TypeOK, RateBound, AheadOfSpending, larger
    <2>6. AheadOfSpending'
        BY <1>3, <2>1, <2>2 DEF pacer_reset, PacerInv, TypeOK, AheadOfSpending
    <2>7. BehindLast'
        <3>1. T' <= next_event + excess
            BY <2>1, <2>2, <1>0 DEF PacerInv, TypeOK
        <3> QED
            BY <1>3, <3>1 DEF pacer_reset, BehindLast
    <2> QED
        BY <2>3, <2>4, <2>5, <2>6, <2>7 DEF PacerInv, NoDebt, ScheduledAfterT
<1>4. CASE UNCHANGED vars
    BY <1>4 DEF vars, PacerInv, TypeOK, RateBound, NoDebt, AheadOfSpending,
        BehindLast, ScheduledAfterT, pacer_is_triggered
<1> QED
    BY <1>1, <1>2, <1>3, <1>4 DEF Next

THEOREM PacerInductive == Spec => []PacerInv
    BY PacerInit, PacerStep, PTL DEF Spec

\* n events scheduled between two times cost at most that time plus the credit.
THEOREM RateIsBounded == Spec => []RateBound
<1>1. PacerInv => RateBound
    BY DEF PacerInv
<1> QED
    BY PacerInductive, <1>1, PTL

\* No event waits for more than its own gap or one cost after the latest event.
THEOREM NeverInDebt == Spec => []NoDebt
<1>1. PacerInv => NoDebt
    BY DEF PacerInv
<1> QED
    BY PacerInductive, <1>1, PTL

-----------------------------------------------------------------------------
(* The control path, for every number of descriptors, CPUs and window      *)
(* slots: descriptors are counted exactly, and a stopped qdisc is quiet    *)
(* when its memory is freed.                                               *)

in_window(d) == \E i \in Slots : unacked_pkts[i] = d

uncommitted == sender \in {"prepare", "commit"}

ControlTypeOK ==
  /\ live \subseteq Descs
  /\ refcount \in [Descs -> Int]
  /\ unacked_pkts \in [Slots -> Descs \cup {None}]
  /\ kern_pd \in Descs \cup {None}
  /\ rx \in [Cpus -> {"idle", "found", "callbacks", "successful"}]

\* What the counts say of each descriptor, slot by slot: DescsExact follows.
Counted ==
  /\ \A d \in Descs : d \in live <=> in_window(d) \/ d = kern_pd
  /\ \A i, j \in Slots : unacked_pkts[i] = unacked_pkts[j] /\ unacked_pkts[i] # None => i = j
  /\ \A d \in live : refcount[d] = IF d = kern_pd /\ (uncommitted \/ in_window(d)) THEN 2 ELSE 1

\* A request holds a descriptor from its allocation to its end; until it is
\* committed the window does not have it, and its slot stays vacant.
SenderHolds ==
  /\ sender \in {"idle", "alloc", "prepare", "commit", "send", "put"}
  /\ kern_pd = None <=> sender \in {"idle", "alloc"}
  /\ uncommitted => ~in_window(kern_pd)
  /\ sender = "commit" => unacked_pkts[1] = None

\* What each step of fpq_stop_qdisc has put an end to stays ended.
StoppedStays ==
  /\ stop \in {"no", "timer", "tasklet", "sock", "locked", "stuck", "destroyed", "freeing", "conn", "retrans",
               "stopped", "freed"}
  /\ stop # "no" => ~maintenance_timer
  /\ stop \notin {"no", "timer"} => ~maintenance_sched /\ sender = "idle"
  /\ stop \notin {"no", "timer", "tasklet"} => ~hashed
  /\ stop \notin {"no", "timer", "tasklet", "sock", "locked", "stuck"} => is_destroyed
  /\ stop \in {"conn", "retrans", "stopped", "freed"} => occupied(unacked_pkts) = {}
  /\ stop \in {"retrans", "stopped", "freed"} => ~retrans_timer
  /\ stop \in {"stopped", "freed"} => ~retrans_sched
  /\ stop = "freed" => \A c \in Cpus : rx[c] = "idle"

ControlInv == ControlTypeOK /\ Counted /\ SenderHolds /\ StoppedStays

-----------------------------------------------------------------------------
\* Slots that leave the window take one reference of each of their descriptors along
\* and free those that the sender does not hold (outwnd_pop, pktdesc_free).
LEMMA PopCounts ==
  ASSUME ControlTypeOK, Counted, SenderHolds,
         NEW I \in SUBSET occupied(unacked_pkts), outwnd_pop(I),
         kern_pd' = kern_pd, uncommitted' <=> uncommitted
  PROVE  /\ live' \subseteq Descs /\ refcount' \in [Descs -> Int]
         /\ unacked_pkts' \in [Slots -> Descs \cup {None}]
         /\ \A i \in Slots : unacked_pkts'[i] \in {unacked_pkts[i], None}
         /\ \A d \in Descs : in_window(d)' => in_window(d)
         /\ Counted'
<1> DEFINE D == {unacked_pkts[i] : i \in I}
<1> USE ControlAssumption
<1>1. /\ live' = {d \in live : d \notin D \/ refcount[d] > 1}
      /\ refcount' = [d \in Descs |-> IF d \in D THEN refcount[d] - 1 ELSE refcount[d]]
      /\ unacked_pkts' = [i \in Slots |-> IF i \in I THEN None ELSE unacked_pkts[i]]
  BY DEF outwnd_pop, pktdesc_free
<1>2. /\ live' \subseteq Descs /\ refcount' \in [Descs -> Int]
      /\ unacked_pkts' \in [Slots -> Descs \cup {None}]
      /\ \A i \in Slots : unacked_pkts'[i] \in {unacked_pkts[i], None}
  BY <1>1 DEF ControlTypeOK
<1>3. \A d \in Descs : d \in D => in_window(d)
  BY DEF in_window, occupied
<1>4. \A d \in Descs : in_window(d)' <=> in_window(d) /\ d \notin D
  <2> SUFFICES ASSUME NEW d \in Descs PROVE in_window(d)' <=> in_window(d) /\ d \notin D
    OBVIOUS
  <2>1. in_window(d)' <=> \E i \in Slots : unacked_pkts'[i] = d
    BY DEF in_window, Slots
  <2>2. in_window(d)' => in_window(d) /\ d \notin D
    BY <1>1, <2>1 DEF in_window, Counted, occupied
  <2>3. in_window(d) /\ d \notin D => in_window(d)'
    BY <1>1, <2>1 DEF in_window
  <2> QED BY <2>2, <2>3
<1>5. \A d \in D : d \in Descs /\ d \in live /\ (refcount[d] > 1 <=> d = kern_pd)
  BY <1>3 DEF Counted, SenderHolds, ControlTypeOK, occupied
<1>6. \A d \in Descs : d \in live' <=> in_window(d)' \/ d = kern_pd'
  BY <1>1, <1>4, <1>5 DEF Counted
<1>7. \A i, j \in Slots : unacked_pkts'[i] = unacked_pkts'[j] /\ unacked_pkts'[i] # None => i = j
  BY <1>1 DEF Counted
<1>8. \A d \in live' : refcount'[d] = IF d = kern_pd' /\ (uncommitted' \/ in_window(d)') THEN 2 ELSE 1
  <2> SUFFICES ASSUME NEW d \in live'
               PROVE  refcount'[d] = IF d = kern_pd /\ (uncommitted \/ in_window(d)') THEN 2 ELSE 1
    OBVIOUS
  <2>1. d \in live /\ d \in Descs
    BY <1>1 DEF ControlTypeOK
  <2>2. CASE d \in D
    BY <1>1, <1>3, <1>4, <1>5, <2>1, <2>2 DEF Counted, SenderHolds
  <2>3. CASE d \notin D
    BY <1>1, <1>4, <2>1, <2>3 DEF Counted
  <2> QED BY <2>2, <2>3
<1>9. Counted'
  BY <1>6, <1>7, <1>8 DEF Counted, Slots
<1> QED BY <1>2, <1>4, <1>9

\* Steps that leave the descriptors, the window and the request alone.
LEMMA SameCounts ==
  ASSUME ControlTypeOK, Counted, SenderHolds,
         UNCHANGED <<live, refcount, unacked_pkts, kern_pd, sender>>
  PROVE  Counted' /\ SenderHolds'
  BY DEF Counted, SenderHolds, in_window, uncommitted

\* An ack, a reset, the end of the window or a stop while the request stands still or
\* moves from preparing to committing.
LEMMA PopHolds ==
  ASSUME ControlTypeOK, Counted, SenderHolds,
         NEW I \in SUBSET occupied(unacked_pkts), outwnd_pop(I), UNCHANGED <<kern_pd, sender>>
  PROVE  /\ live' \subseteq Descs /\ refcount' \in [Descs -> Int]
         /\ unacked_pkts' \in [Slots -> Descs \cup {None}]
         /\ occupied(unacked_pkts)' \subseteq occupied(unacked_pkts)
         /\ Counted' /\ SenderHolds'
<1> USE ControlAssumption
<1>1. uncommitted' <=> uncommitted
  BY DEF uncommitted
<1>2. /\ live' \subseteq Descs /\ refcount' \in [Descs -> Int]
      /\ unacked_pkts' \in [Slots -> Descs \cup {None}]
      /\ \A i \in Slots : unacked_pkts'[i] \in {unacked_pkts[i], None}
      /\ \A d \in Descs : in_window(d)' => in_window(d)
      /\ Counted'
  BY <1>1, PopCounts
<1>3. 1 \in Slots
  BY DEF Slots
<1>4. uncommitted => kern_pd \in Descs /\ ~in_window(kern_pd)
  BY DEF SenderHolds, uncommitted, ControlTypeOK
<1>5. uncommitted' => ~in_window(kern_pd)'
  BY <1>1, <1>2, <1>4 DEF in_window
<1>6. SenderHolds'
  BY <1>2, <1>3, <1>5 DEF SenderHolds, uncommitted
<1> QED BY <1>2, <1>6 DEF occupied, Slots

-----------------------------------------------------------------------------
LEMMA InitControl == ControlInit => ControlInv
<1> SUFFICES ASSUME ControlInit PROVE ControlInv
  OBVIOUS
<1> USE ControlAssumption DEF ControlInit
<1>1. occupied(unacked_pkts) = {} /\ \A d \in Descs : ~in_window(d)
  BY DEF occupied, in_window, empty_window
<1>2. ControlTypeOK
  BY DEF ControlTypeOK, empty_window
<1>3. Counted
  BY <1>1 DEF Counted, empty_window
<1>4. SenderHolds
  BY DEF SenderHolds, uncommitted
<1>5. StoppedStays
  BY <1>1 DEF StoppedStays
<1> QED BY <1>2, <1>3, <1>4, <1>5 DEF ControlInv

\* The timers, and the end of handling a packet, change no descriptor.
LEMMA TimerSteps ==
  ASSUME ControlInv,
         \/ fpq_add_timeslot \/ maintenance_timer_func \/ retrans_timer_func
         \/ retrans_tasklet_func
         \/ \E c \in Cpus : fpproto_rcv(c) \/ fpproto_successful_rx(c)
         \/ UNCHANGED controlvars
  PROVE  ControlInv'
<1> USE DEF descs, timers
<1>1. UNCHANGED <<live, refcount, unacked_pkts, kern_pd, sender>>
  BY DEF fpq_add_timeslot, maintenance_timer_func, retrans_timer_func, retrans_tasklet_func,
         fpproto_rcv, fpproto_successful_rx, controlvars
<1>2. Counted' /\ SenderHolds'
  BY <1>1, SameCounts DEF ControlInv
<1>3. ControlTypeOK'
  BY <1>1 DEF fpq_add_timeslot, maintenance_timer_func, retrans_timer_func, retrans_tasklet_func,
         fpproto_rcv, fpproto_successful_rx, controlvars, rx_moves, ControlInv, ControlTypeOK
<1>4. occupied(unacked_pkts)' = occupied(unacked_pkts)
  BY <1>1 DEF occupied
<1>5. StoppedStays'
  <2>1. CASE fpq_add_timeslot
    BY <1>4, <2>1 DEF fpq_add_timeslot, ControlInv, StoppedStays
  <2>2. CASE maintenance_timer_func
    BY <1>4, <2>2 DEF maintenance_timer_func, ControlInv, StoppedStays
  <2>3. CASE retrans_timer_func
    BY <1>4, <2>3 DEF retrans_timer_func, ControlInv, StoppedStays
  <2>4. CASE retrans_tasklet_func
    BY <1>4, <2>4 DEF retrans_tasklet_func, ControlInv, StoppedStays
  <2>5. ASSUME NEW c \in Cpus, fpproto_rcv(c) PROVE StoppedStays'
    BY <1>4, <2>5 DEF fpproto_rcv, ControlInv, StoppedStays
  <2>6. ASSUME NEW c \in Cpus, fpproto_successful_rx(c) PROVE StoppedStays'
    BY <1>4, <2>6 DEF fpproto_successful_rx, rx_moves, ControlInv, ControlTypeOK, StoppedStays
  <2>7. CASE UNCHANGED controlvars
    BY <1>4, <2>7 DEF controlvars, ControlInv, StoppedStays
  <2> QED BY <2>1, <2>2, <2>3, <2>4, <2>5, <2>6, <2>7
<1> QED BY <1>2, <1>3, <1>5 DEF ControlInv

-----------------------------------------------------------------------------
\* A request that ends without a packet in the window frees its descriptor: it holds
\* the only reference, or nobody else has seen it.
LEMMA DoneCounts ==
  ASSUME ControlTypeOK, Counted, SenderHolds, sender_done(kern_pd),
         kern_pd \in Descs, ~in_window(kern_pd), UNCHANGED <<refcount, unacked_pkts>>
  PROVE  live' \subseteq Descs /\ kern_pd' = None /\ Counted' /\ SenderHolds'
<1> USE ControlAssumption
<1>1. /\ live' = live \ {kern_pd} /\ sender' = "idle" /\ kern_pd' = None /\ ~uncommitted'
      /\ \A d \in Descs : in_window(d)' <=> in_window(d)
  BY DEF sender_done, uncommitted, in_window
<1>2. Counted'
  BY <1>1 DEF Counted, ControlTypeOK
<1> QED BY <1>1, <1>2 DEF SenderHolds, ControlTypeOK, uncommitted

\* Until it is idle the sender keeps fpq_stop_qdisc waiting for the tasklet, before the
\* connection is destroyed.
LEMMA SenderStopped ==
  ASSUME StoppedStays, SenderNext
  PROVE  /\ UNCHANGED <<stop, maintenance_timer, hashed, is_destroyed, rx, retrans_sched>>
         /\ stop \in {"no", "timer"}
<1> USE DEF descs, timers
<1>1. maintenance_sched \/ sender # "idle"
  BY Zenon DEF SenderNext, maintenance_tasklet_func, pktdesc_alloc_fails, fpproto_pktdesc_alloc,
         send_request_prepare, send_request_commit, fpproto_send_pktdesc, fpproto_sent
<1> QED
  BY <1>1, Zenon DEF SenderNext, maintenance_tasklet_func, pktdesc_alloc_fails, fpproto_pktdesc_alloc,
         send_request_prepare, send_request_commit, fpproto_send_pktdesc, fpproto_sent, StoppedStays

\* The request: allocated with a reference for the window and one for the sender,
\* committed, sent or found dropped, and released.
LEMMA SenderSteps ==
  ASSUME ControlInv, SenderNext
  PROVE  ControlInv'
<1> USE ControlAssumption DEF ControlInv, descs, timers
<1>0. StoppedStays'
  BY SenderStopped DEF StoppedStays
<1>1. CASE maintenance_tasklet_func
  <2>1. /\ sender = "idle" /\ sender' \in {"idle", "alloc"}
        /\ UNCHANGED <<live, refcount, unacked_pkts, kern_pd, rx>>
    BY <1>1 DEF maintenance_tasklet_func
  <2> QED BY <1>0, <2>1 DEF ControlTypeOK, Counted, SenderHolds, in_window, uncommitted
<1>2. CASE pktdesc_alloc_fails
  <2>1. /\ sender = "alloc" /\ sender' = "idle"
        /\ UNCHANGED <<live, refcount, unacked_pkts, kern_pd, rx>>
    BY <1>2 DEF pktdesc_alloc_fails
  <2> QED BY <1>0, <2>1 DEF ControlTypeOK, Counted, SenderHolds, in_window, uncommitted
<1>3. CASE fpproto_pktdesc_alloc
  <2>1. PICK d \in Descs \ live : /\ live' = live \cup {d}
                                  /\ refcount' = [refcount EXCEPT ![d] = 2]
                                  /\ kern_pd' = d
    BY <1>3, Zenon DEF fpproto_pktdesc_alloc
  <2>2. sender = "alloc" /\ sender' = "prepare" /\ UNCHANGED <<unacked_pkts, rx>>
    BY <1>3 DEF fpproto_pktdesc_alloc
  <2>3. ~in_window(d) /\ kern_pd = None
    BY <2>2 DEF Counted, SenderHolds
  <2>4. \A e \in Descs : in_window(e)' <=> in_window(e)
    BY <2>2 DEF in_window
  <2>5. ControlTypeOK'
    BY <2>1, <2>2 DEF ControlTypeOK
  <2>6. uncommitted' /\ ~uncommitted
    BY <2>2 DEF uncommitted
  <2>7. Counted'
    BY <2>1, <2>2, <2>3, <2>4, <2>6 DEF Counted, ControlTypeOK
  <2>8. SenderHolds'
    BY <2>1, <2>2, <2>3 DEF SenderHolds, in_window
  <2> QED BY <1>0, <2>5, <2>7, <2>8
<1>4. CASE send_request_prepare
  <2>1. sender = "prepare" /\ uncommitted /\ kern_pd \in Descs /\ ~in_window(kern_pd) /\ rx' = rx
    BY <1>4 DEF send_request_prepare, SenderHolds, uncommitted, ControlTypeOK
  <2>2. CASE is_destroyed
    <3>1. sender_done(kern_pd) /\ UNCHANGED <<refcount, unacked_pkts>>
      BY <1>4, <2>2 DEF send_request_prepare, out_conn_destroyed
    <3> QED BY <1>0, <2>1, <3>1, DoneCounts DEF ControlTypeOK
  <2>3. CASE ~is_destroyed /\ unacked_pkts[1] = None
    <3>1. sender' = "commit" /\ UNCHANGED <<live, refcount, unacked_pkts, kern_pd>>
      BY <1>4, <2>3 DEF send_request_prepare, fpproto_prepare_to_send
    <3> QED BY <1>0, <2>1, <2>3, <3>1 DEF ControlTypeOK, Counted, SenderHolds, in_window, uncommitted
  <2>4. CASE ~is_destroyed /\ unacked_pkts[1] # None
    <3>1. sender' = "commit" /\ kern_pd' = kern_pd /\ outwnd_pop({1})
      BY <1>4, <2>4 DEF send_request_prepare, fpproto_prepare_to_send
    <3>2. {1} \in SUBSET occupied(unacked_pkts) /\ 1 \in Slots
      BY <2>4 DEF occupied, Slots
    <3>3. uncommitted'
      BY <3>1 DEF uncommitted
    <3>4. /\ live' \subseteq Descs /\ refcount' \in [Descs -> Int]
          /\ unacked_pkts' \in [Slots -> Descs \cup {None}]
          /\ \A d \in Descs : in_window(d)' => in_window(d)
          /\ Counted'
      BY <2>1, <3>1, <3>2, <3>3, PopCounts
    <3>5. unacked_pkts'[1] = None
      BY <3>1, <3>2 DEF outwnd_pop
    <3>6. ~in_window(kern_pd)'
      BY <2>1, <3>1, <3>4 DEF in_window
    <3>7. SenderHolds'
      BY <2>1, <3>1, <3>5, <3>6 DEF SenderHolds
    <3> QED BY <1>0, <2>1, <3>1, <3>4, <3>7 DEF ControlTypeOK
  <2> QED BY <2>2, <2>3, <2>4
<1>5. CASE send_request_commit
  <2>1. /\ sender = "commit" /\ uncommitted /\ kern_pd \in Descs /\ ~in_window(kern_pd)
        /\ unacked_pkts[1] = None /\ rx' = rx
    BY <1>5 DEF send_request_commit, SenderHolds, uncommitted, ControlTypeOK
  <2>2. CASE is_destroyed
    <3>1. sender_done(kern_pd) /\ UNCHANGED <<refcount, unacked_pkts>>
      BY <1>5, <2>2 DEF send_request_commit, out_conn_destroyed
    <3> QED BY <1>0, <2>1, <3>1, DoneCounts DEF ControlTypeOK
  <2>3. CASE ~is_destroyed
    <3>1. /\ unacked_pkts' = [i \in Slots |-> IF i = WND THEN kern_pd ELSE unacked_pkts[i + 1]]
          /\ sender' = "send" /\ ~uncommitted' /\ UNCHANGED <<live, refcount, kern_pd>>
      BY <1>5, <2>3 DEF send_request_commit, fpproto_commit_packet, outwnd_add, uncommitted
    <3>2. ControlTypeOK'
      BY <2>1, <3>1 DEF ControlTypeOK, Slots
    <3>3. \A d \in Descs : in_window(d)' <=> in_window(d) \/ d = kern_pd
      <4> SUFFICES ASSUME NEW d \in Descs PROVE in_window(d)' <=> in_window(d) \/ d = kern_pd
        OBVIOUS
      <4>1. in_window(d)' => in_window(d) \/ d = kern_pd
        BY <3>1 DEF in_window, Slots
      <4>2. d = kern_pd => in_window(d)'
        <5>1. WND \in Slots
          BY DEF Slots
        <5> QED BY <3>1, <5>1 DEF in_window
      <4>3. in_window(d) => in_window(d)'
        <5> SUFFICES ASSUME NEW i \in Slots, unacked_pkts[i] = d PROVE in_window(d)'
          BY DEF in_window
        <5>1. i # 1
          BY <2>1
        <5>2. i - 1 \in Slots /\ i - 1 # WND /\ (i - 1) + 1 = i
          BY <5>1 DEF Slots
        <5>3. unacked_pkts'[i - 1] = d
          BY <3>1, <5>2
        <5> QED BY <5>2, <5>3 DEF in_window
      <4> QED BY <4>1, <4>2, <4>3
    <3>4. \A i, j \in Slots : unacked_pkts'[i] = unacked_pkts'[j] /\ unacked_pkts'[i] # None => i = j
      <4> SUFFICES ASSUME NEW i \in Slots, NEW j \in Slots,
                          unacked_pkts'[i] = unacked_pkts'[j], unacked_pkts'[i] # None
                   PROVE  i = j
        OBVIOUS
      <4>1. i # WND => i + 1 \in Slots /\ unacked_pkts'[i] = unacked_pkts[i + 1]
        BY <3>1 DEF Slots
      <4>2. j # WND => j + 1 \in Slots /\ unacked_pkts'[j] = unacked_pkts[j + 1]
        BY <3>1 DEF Slots
      <4>3. \A k \in Slots : unacked_pkts[k] # kern_pd
        BY <2>1 DEF in_window
      <4>4. i = WND <=> j = WND
        BY <3>1, <4>1, <4>2, <4>3
      <4> QED BY <4>1, <4>2, <4>4 DEF Counted, Slots
    <3>5. Counted'
      BY <2>1, <3>1, <3>3, <3>4 DEF Counted, ControlTypeOK
    <3>6. SenderHolds'
      BY <2>1, <3>1 DEF SenderHolds
    <3> QED BY <1>0, <3>2, <3>5, <3>6
  <2> QED BY <2>2, <2>3
<1>6. CASE fpproto_send_pktdesc
  <2>1. /\ sender = "send" /\ ~uncommitted /\ kern_pd \in Descs /\ kern_pd \in live
        /\ UNCHANGED <<refcount, unacked_pkts, rx>>
    BY <1>6 DEF fpproto_send_pktdesc, SenderHolds, uncommitted, ControlTypeOK, Counted
  <2>2. CASE refcount[kern_pd] = 1
    <3>1. sender_done(kern_pd) /\ ~in_window(kern_pd)
      BY <1>6, <2>1, <2>2 DEF fpproto_send_pktdesc, Counted
    <3> QED BY <1>0, <2>1, <3>1, DoneCounts DEF ControlTypeOK
  <2>3. CASE refcount[kern_pd] # 1
    <3>1. sender' = "put" /\ UNCHANGED <<live, kern_pd>>
      BY <1>6, <2>3 DEF fpproto_send_pktdesc
    <3> QED BY <1>0, <2>1, <3>1 DEF ControlTypeOK, Counted, SenderHolds, in_window, uncommitted
  <2> QED BY <2>2, <2>3
<1>7. CASE fpproto_sent
  <2>1. /\ sender = "put" /\ ~uncommitted /\ kern_pd \in Descs /\ kern_pd \in live
        /\ UNCHANGED <<unacked_pkts, rx>>
    BY <1>7 DEF fpproto_sent, SenderHolds, uncommitted, ControlTypeOK, Counted
  <2>2. /\ live' = {d \in live : d \notin {kern_pd} \/ refcount[d] > 1}
        /\ refcount' = [d \in Descs |-> IF d \in {kern_pd} THEN refcount[d] - 1 ELSE refcount[d]]
        /\ sender' = "idle" /\ kern_pd' = None /\ ~uncommitted'
    BY <1>7 DEF fpproto_sent, pktdesc_free, uncommitted
  <2>3. \A d \in Descs : in_window(d)' <=> in_window(d)
    BY <2>1 DEF in_window
  <2>4. refcount[kern_pd] = IF in_window(kern_pd) THEN 2 ELSE 1
    BY <2>1 DEF Counted
  <2>5. ControlTypeOK'
    BY <2>1, <2>2 DEF ControlTypeOK
  <2>6. Counted'
    BY <2>1, <2>2, <2>3, <2>4 DEF Counted, ControlTypeOK
  <2> QED BY <1>0, <2>2, <2>5, <2>6 DEF SenderHolds
<1> QED
  BY <1>1, <1>2, <1>3, <1>4, <1>5, <1>6, <1>7 DEF SenderNext

-----------------------------------------------------------------------------
\* A received packet acks slots, resets the window, or does nothing to it; it is
\* dropped once the connection is destroyed, except by callbacks already under way.
LEMMA RxSteps ==
  ASSUME ControlInv, NEW c \in Cpus, RxNext(c)
  PROVE  ControlInv'
<1> USE DEF ControlInv, descs, timers
<1>1. CASE fpproto_successful_rx(c)
  BY <1>1, TimerSteps
<1>2. CASE ctrl_rcv_handler(c) \/ fpproto_perform_rx_callbacks(c)
  <2>1. /\ UNCHANGED <<kern_pd, sender, stop, maintenance_timer, maintenance_sched, hashed,
                       is_destroyed, retrans_sched>>
        /\ rx[c] # "idle"
        /\ \E to \in {"idle", "callbacks", "successful"} : rx' = [rx EXCEPT ![c] = to]
    BY <1>2, Zenon DEF ctrl_rcv_handler, fpproto_perform_rx_callbacks, fpproto_handle_rx_packet, rx_moves
  <2>2. \/ UNCHANGED <<live, refcount, unacked_pkts>>
        \/ \E I \in SUBSET occupied(unacked_pkts) : outwnd_pop(I)
    BY <1>2, Zenon DEF ctrl_rcv_handler, fpproto_perform_rx_callbacks, fpproto_handle_rx_packet,
                do_proto_reset, free_unacked
  <2>3. is_destroyed => retrans_timer' = retrans_timer
    BY <1>2, Zenon DEF ctrl_rcv_handler, fpproto_perform_rx_callbacks, do_proto_reset
  <2>4. /\ live' \subseteq Descs /\ refcount' \in [Descs -> Int]
        /\ unacked_pkts' \in [Slots -> Descs \cup {None}]
        /\ occupied(unacked_pkts)' \subseteq occupied(unacked_pkts)
        /\ Counted' /\ SenderHolds'
    <3>1. CASE UNCHANGED <<live, refcount, unacked_pkts>>
      BY <2>1, <3>1, SameCounts DEF ControlTypeOK, occupied
    <3>2. ASSUME NEW I \in SUBSET occupied(unacked_pkts), outwnd_pop(I)
          PROVE  /\ live' \subseteq Descs /\ refcount' \in [Descs -> Int]
                 /\ unacked_pkts' \in [Slots -> Descs \cup {None}]
                 /\ occupied(unacked_pkts)' \subseteq occupied(unacked_pkts)
                 /\ Counted' /\ SenderHolds'
      BY <2>1, <3>2, PopHolds
    <3> QED BY <2>2, <3>1, <3>2
  <2>5. ControlTypeOK'
    BY <2>1, <2>4 DEF ControlTypeOK
  <2>6. StoppedStays'
    <3>1. stop \in {"conn", "retrans", "stopped", "freed"} => occupied(unacked_pkts)' = {}
      BY <2>4 DEF StoppedStays
    <3>2. stop # "freed"
      BY <2>1 DEF StoppedStays
    <3> QED BY <2>1, <2>3, <3>1, <3>2 DEF StoppedStays
  <2> QED BY <2>4, <2>5, <2>6
<1> QED BY <1>1, <1>2 DEF RxNext

\* fpq_stop_qdisc: each step finds ended what the steps before it ended.
LEMMA StopSteps ==
  ASSUME ControlInv, cancel_maintenance_timer \/ StopNext \/ retrans_tasklet_spins
  PROVE  ControlInv'
<1> USE DEF ControlInv, descs, timers
<1>1. CASE fpproto_destroy_conn
  <2>1. /\ outwnd_pop(occupied(unacked_pkts))
        /\ UNCHANGED <<kern_pd, sender, rx, maintenance_timer, maintenance_sched, hashed,
                       is_destroyed, retrans_timer, retrans_sched>>
        /\ stop = "freeing" /\ stop' = "conn"
    BY <1>1 DEF fpproto_destroy_conn, free_unacked, stopping
  <2>2. /\ live' \subseteq Descs /\ refcount' \in [Descs -> Int]
        /\ unacked_pkts' \in [Slots -> Descs \cup {None}]
        /\ Counted' /\ SenderHolds'
    BY <2>1, PopHolds
  <2>3. occupied(unacked_pkts)' = {}
    BY <2>1 DEF outwnd_pop, occupied, Slots
  <2>4. StoppedStays'
    BY <2>1, <2>3 DEF StoppedStays
  <2> QED BY <2>1, <2>2, <2>4 DEF ControlTypeOK
<1>2. CASE ~fpproto_destroy_conn
  <2>1. UNCHANGED <<live, refcount, unacked_pkts, kern_pd, sender, rx>>
    BY <1>2 DEF cancel_maintenance_timer, StopNext, kill_maintenance_tasklet, sock_release,
           take_conn_lock, set_is_destroyed, retrans_tasklet_spins, begin_destroy_conn,
           cancel_retrans_timer, kill_retrans_tasklet, free_qdisc
  <2>2. ControlTypeOK' /\ Counted' /\ SenderHolds'
    BY <2>1, SameCounts DEF ControlTypeOK
  <2>3. occupied(unacked_pkts)' = occupied(unacked_pkts)
    BY <2>1 DEF occupied
  <2>4. StoppedStays'
    <3>1. CASE cancel_maintenance_timer
      BY <2>1, <2>3, <3>1 DEF cancel_maintenance_timer, stopping, StoppedStays
    <3>2. CASE kill_maintenance_tasklet
      BY <2>1, <2>3, <3>2 DEF kill_maintenance_tasklet, stopping, StoppedStays
    <3>3. CASE sock_release
      BY <2>1, <2>3, <3>3 DEF sock_release, stopping, StoppedStays
    <3>4. CASE set_is_destroyed
      BY <2>1, <2>3, <3>4 DEF set_is_destroyed, stopping, StoppedStays
    <3>5. CASE begin_destroy_conn
      BY <2>1, <2>3, <3>5 DEF begin_destroy_conn, stopping, StoppedStays
    <3>6. CASE cancel_retrans_timer
      BY <2>1, <2>3, <3>6 DEF cancel_retrans_timer, stopping, StoppedStays
    <3>7. CASE kill_retrans_tasklet
      BY <2>1, <2>3, <3>7 DEF kill_retrans_tasklet, stopping, StoppedStays
    <3>8. CASE free_qdisc
      BY <2>1, <2>3, <3>8 DEF free_qdisc, stopping, StoppedStays
    <3>9. CASE take_conn_lock
      BY <2>1, <2>3, <3>9 DEF take_conn_lock, stopping, StoppedStays
    <3>10. CASE retrans_tasklet_spins
      BY <2>1, <2>3, <3>10 DEF retrans_tasklet_spins, stopping, StoppedStays
    <3> QED BY <1>2, <3>1, <3>2, <3>3, <3>4, <3>5, <3>6, <3>7, <3>8, <3>9, <3>10 DEF StopNext
  <2> QED BY <2>2, <2>4
<1> QED BY <1>1, <1>2

LEMMA ControlStep == ControlInv /\ [ControlNext]_controlvars => ControlInv'
  BY TimerSteps, SenderSteps, RxSteps, StopSteps DEF ControlNext

\* The inductive invariant of the control path.
THEOREM ControlInductive == ControlSafety => []ControlInv
  BY InitControl, ControlStep, PTL DEF ControlSafety

\* A descriptor is allocated exactly as long as the window or the sender points to it,
\* and its count is the number of those pointers, for every number of descriptors,
\* window slots and receiving CPUs, unless a forced reset met fpproto_destroy_conn.
THEOREM DescriptorsExact == ControlSafety => []DescsExact
<1>1. ControlInv => DescsExact
  <2> SUFFICES ASSUME ControlInv PROVE DescsExact
    OBVIOUS
  <2> USE ControlAssumption DEF ControlInv
  <2> DEFINE W == {unacked_pkts[i] : i \in occupied(unacked_pkts)}
             pointers(d) == (IF d \in W THEN 1 ELSE 0) + (IF d = kern_pd THEN 1 ELSE 0)
  <2>1. W \subseteq Descs /\ \A d \in Descs : d \in W <=> in_window(d)
    BY DEF occupied, in_window, ControlTypeOK
  <2>2. live = W \cup ({kern_pd} \ {None})
    BY <2>1 DEF Counted, ControlTypeOK
  <2>3. \A i, j \in occupied(unacked_pkts) : unacked_pkts[i] = unacked_pkts[j] => i = j
    BY DEF Counted, occupied
  <2>4. \A d \in live : refcount[d] = IF d = kern_pd /\ sender \in {"prepare", "commit"} THEN 2
                                      ELSE pointers(d)
    <3> SUFFICES ASSUME NEW d \in live
                 PROVE  refcount[d] = IF d = kern_pd /\ uncommitted THEN 2 ELSE pointers(d)
      BY DEF uncommitted
    <3>1. d \in Descs /\ (d \in W \/ d = kern_pd)
      BY <2>1 DEF Counted, ControlTypeOK
    <3>2. refcount[d] = IF d = kern_pd /\ (uncommitted \/ d \in W) THEN 2 ELSE 1
      BY <2>1, <3>1 DEF Counted
    <3> HIDE DEF W
    <3> QED BY <3>1, <3>2
  <2> QED BY <2>2, <2>3, <2>4 DEF DescsExact
<1> QED BY <1>1, ControlInductive, PTL

\* When fpq_stop_qdisc is over and the memory is freed, no timer, tasklet, receive
\* handler or descriptor is left that could touch it, unless a forced reset met
\* fpproto_destroy_conn.
THEOREM FreedQuietly == ControlSafety => []FreedIsQuiet
<1>1. ControlInv => FreedIsQuiet
  <2> SUFFICES ASSUME ControlInv, stop = "freed" PROVE FreedIsQuiet
    BY DEF FreedIsQuiet
  <2>1. /\ ~maintenance_timer /\ ~maintenance_sched /\ sender = "idle" /\ ~retrans_timer
        /\ ~retrans_sched /\ occupied(unacked_pkts) = {} /\ \A c \in Cpus : rx[c] = "idle"
    BY DEF ControlInv, StoppedStays
  <2>2. live = {}
    BY <2>1, ControlAssumption
    DEF ControlInv, ControlTypeOK, Counted, SenderHolds, in_window, occupied
  <2> QED BY <2>1, <2>2 DEF FreedIsQuiet
<1> QED BY <1>1, ControlInductive, PTL

-----------------------------------------------------------------------------
(* The flow table keeps its flows through resizes, for every set of        *)
(* flows, every hash and every sequence of configurations.                 *)

Cells(log) == 0 .. 2 ^ log - 1

\* Array a of 2^log trees has every flow in its tree, and nothing else.
Filled(a, log) ==
    /\ DOMAIN a = Cells(log) /\ a = [i \in DOMAIN a |-> a[i]]
    /\ \A i \in DOMAIN a : a[i] = {key \in flows : cell(key, log) = i}

\* What the array in use and the new one hold at each stage of a change
Stages ==
    /\ in_order => Filled(dst_hash_tbl, hash_tbl_log)
    /\ change.at = "rehash" => DOMAIN array = Cells(change.log)
    /\ change.at \in {"free", "switch"} => Filled(array, change.log)
    /\ change.at = "size" => Filled(dst_hash_tbl, change.log)

Shapes ==
    /\ flows \subseteq Keys
    /\ hash_tbl_log \in 1 .. MAX_LOG
    /\ config = [limit |-> config.limit, rate |-> config.rate, mul |-> config.mul, shift |-> config.shift]
    /\ config.limit > 0 /\ config.rate > 0
    /\ \/ change = IDLE
       \/ /\ change = [at |-> change.at, log |-> change.log, mul |-> change.mul, shift |-> change.shift]
          /\ change.at \in {"alloc", "rehash", "free", "switch", "size", "tslot"}
          /\ change.log \in 1 .. MAX_LOG

TableInv == ~raced => Shapes /\ Stages /\ (oops <=> (config.mul = 0))

-----------------------------------------------------------------------------
LEMMA EmptyCells ==
  ASSUME NEW log
  PROVE  /\ DOMAIN empty(log) = Cells(log) /\ empty(log) = [i \in DOMAIN empty(log) |-> {}]
         /\ \A i \in Cells(log) : empty(log)[i] = {}
  BY DEF empty, Cells

LEMMA InitTable ==
  ASSUME TableInit
  PROVE  TableInv
<1>1. PICK log \in 1 .. MAX_LOG : hash_tbl_log = log /\ dst_hash_tbl = empty(log)
  BY DEF TableInit
<1>2. flows = {} /\ config = [limit |-> 1, rate |-> 1, mul |-> 1, shift |-> 1] /\ change = IDLE /\ oops = FALSE
  BY DEF TableInit
<1>3. Filled(dst_hash_tbl, hash_tbl_log)
  BY <1>1, <1>2, EmptyCells DEF Filled
<1>4. Stages
  BY <1>2, <1>3 DEF Stages, IDLE, in_order
<1>5. Shapes
  BY <1>1, <1>2 DEF Shapes
<1> QED BY <1>2, <1>4, <1>5 DEF TableInv

\* A lookup adds a missing flow to the tree where lookups look for it.
LEMMA LookupStep ==
  ASSUME TableInv, NEW key \in Keys, NEW create \in BOOLEAN, dst_lookup(key, create)
  PROVE  TableInv'
<1>1. CASE ~in_order
  BY <1>1 DEF dst_lookup, TableInv
<1>2. CASE in_order
  <2> DEFINE i == cell(key, hash_tbl_log)
  <2>1. /\ ~raced /\ raced' = raced /\ change' = change /\ hash_tbl_log' = hash_tbl_log
        /\ array' = array /\ config' = config /\ oops' = oops
        /\ dst_hash_tbl' = [dst_hash_tbl EXCEPT ![i] = @ \cup {key}]
        /\ flows' = flows \cup {key}
    BY <1>2 DEF dst_lookup
  <2>2. Shapes /\ Stages /\ (oops <=> (config.mul = 0))
    BY <2>1 DEF TableInv
  <2>3. Filled(dst_hash_tbl, hash_tbl_log) /\ i \in Cells(hash_tbl_log)
    BY <1>2, <2>2, HashInRange DEF Stages, Shapes, Cells
  <2>4. Filled(dst_hash_tbl, hash_tbl_log)'
    <3> HIDE DEF i
    <3>1. /\ DOMAIN dst_hash_tbl' = Cells(hash_tbl_log)
          /\ dst_hash_tbl' = [j \in DOMAIN dst_hash_tbl' |-> dst_hash_tbl'[j]]
      BY <2>1, <2>3, Zenon DEF Filled
    <3>2. ASSUME NEW j \in Cells(hash_tbl_log)
          PROVE  dst_hash_tbl'[j] = {k \in flows' : cell(k, hash_tbl_log) = j}
      <4>1. CASE j = i
        BY <2>1, <2>3, <4>1 DEF Filled, i
      <4>2. CASE j # i
        BY <2>1, <2>3, <4>2 DEF Filled, i
      <4> QED BY <4>1, <4>2
    <3> QED BY <2>1, <3>1, <3>2 DEF Filled, cell
  <2>5. Stages'
    BY <1>2, <2>1, <2>2, <2>4 DEF Stages, in_order
  <2>6. Shapes'
    BY <2>1, <2>2 DEF Shapes
  <2> QED BY <2>1, <2>2, <2>5, <2>6 DEF TableInv
<1> QED BY <1>1, <1>2

\* Of a change, only a wrong value is not taken.
LEMMA ChangeStep ==
  ASSUME TableInv, NEW req \in Requests, tsq_tc_change(req)
  PROVE  TableInv'
<1>1. /\ ~raced /\ raced' = raced /\ change = IDLE /\ hash_tbl_log' = hash_tbl_log /\ ~oops
      /\ array' = array /\ oops' = oops /\ flows' = flows /\ dst_hash_tbl' = dst_hash_tbl
      /\ config' = accepted(req)
      /\ change' = [at |-> IF fp_log(req) = hash_tbl_log THEN "tslot" ELSE "alloc",
                    log |-> fp_log(req), mul |-> req.mul, shift |-> req.shift]
  BY DEF tsq_tc_change
<1>2. Shapes /\ Stages /\ (oops <=> (config.mul = 0))
  BY <1>1 DEF TableInv
<1>3. fp_log(req) \in 1 .. MAX_LOG
  BY <1>2 DEF fp_log, Shapes
<1>4. /\ config' = [limit |-> config'.limit, rate |-> config'.rate, mul |-> config'.mul, shift |-> config'.shift]
      /\ config'.limit > 0 /\ config'.rate > 0 /\ config'.mul = config.mul
  BY <1>1, <1>2, Zenon DEF accepted, Shapes
<1>5. /\ change' = [at |-> change'.at, log |-> change'.log, mul |-> change'.mul, shift |-> change'.shift]
      /\ change'.at \in {"alloc", "tslot"} /\ change'.log \in 1 .. MAX_LOG
  BY <1>1, <1>3
<1>6. Shapes'
  BY <1>1, <1>2, <1>4, <1>5 DEF Shapes
<1>7. Filled(dst_hash_tbl, hash_tbl_log)'
  BY <1>1, <1>2 DEF Stages, in_order, IDLE, Filled, cell
<1>8. Stages'
  BY <1>5, <1>7 DEF Stages
<1> QED BY <1>1, <1>2, <1>4, <1>6, <1>8 DEF TableInv

\* No flow is in two trees, so the rehash meets no key twice.
LEMMA RehashStep ==
  ASSUME TableInv, rehash_dst_table
  PROVE  TableInv'
<1>1. /\ ~raced /\ raced' = raced /\ change.at = "rehash" /\ ~oops
      /\ flows' = flows /\ hash_tbl_log' = hash_tbl_log /\ config' = config
      /\ change' = [change EXCEPT !.at = "free"]
      /\ array' = [i \in DOMAIN array |->
                     {k \in keys_in(dst_hash_tbl) : cell(k, change.log) = i}]
      /\ oops' = (\E i, j \in DOMAIN dst_hash_tbl : i # j /\ dst_hash_tbl[i] \cap dst_hash_tbl[j] # {})
  BY DEF rehash_dst_table, at_change
<1>2. Shapes /\ Stages /\ (oops <=> (config.mul = 0))
  BY <1>1 DEF TableInv
<1>3. Filled(dst_hash_tbl, hash_tbl_log) /\ DOMAIN array = Cells(change.log)
  BY <1>1, <1>2 DEF Stages, in_order
<1>4. keys_in(dst_hash_tbl) = flows
  <2>1. ASSUME NEW k \in flows PROVE k \in keys_in(dst_hash_tbl)
    <3>1. cell(k, hash_tbl_log) \in DOMAIN dst_hash_tbl
      BY <1>2, <1>3, HashInRange DEF Shapes, Filled, Cells
    <3>2. k \in dst_hash_tbl[cell(k, hash_tbl_log)]
      BY <1>3, <3>1 DEF Filled
    <3> QED BY <3>1, <3>2 DEF keys_in
  <2>2. ASSUME NEW k \in keys_in(dst_hash_tbl) PROVE k \in flows
    BY <1>3 DEF keys_in, Filled
  <2> QED BY <2>1, <2>2
<1>5. ASSUME NEW i \in DOMAIN dst_hash_tbl, NEW j \in DOMAIN dst_hash_tbl, i # j
      PROVE  dst_hash_tbl[i] \cap dst_hash_tbl[j] = {}
  BY <1>3, <1>5, Zenon DEF Filled
<1>6. oops' = FALSE
  BY <1>1, <1>5, Zenon
<1>7. /\ change' = [at |-> "free", log |-> change.log, mul |-> change.mul, shift |-> change.shift]
      /\ change.log \in 1 .. MAX_LOG
  BY <1>1, <1>2 DEF Shapes, IDLE
<1>8. change'.at = "free" /\ change'.log = change.log
  BY <1>7
<1>9. Filled(array, change.log)'
  BY <1>1, <1>3, <1>4, <1>8 DEF Filled, cell
<1>10. Stages'
  BY <1>8, <1>9 DEF Stages, in_order
<1>11. Shapes'
  BY <1>1, <1>2, <1>7, Zenon DEF Shapes
<1> QED BY <1>1, <1>2, <1>6, <1>10, <1>11 DEF TableInv

\* The other steps of a change
LEMMA ResizeSteps ==
  ASSUME TableInv, resize_alloc \/ free_old_table \/ switch_table \/ switch_log \/ change_timeslot
  PROVE  TableInv'
<1>1. ~raced /\ raced' = raced /\ ~oops /\ flows' = flows
  BY DEF resize_alloc, free_old_table, switch_table, switch_log, change_timeslot, at_change
<1>2. Shapes /\ Stages /\ config.mul # 0
  BY <1>1 DEF TableInv
<1>3. CASE resize_alloc
  <2>1. /\ change.at = "alloc" /\ dst_hash_tbl' = dst_hash_tbl /\ hash_tbl_log' = hash_tbl_log
        /\ config' = config /\ oops' = oops
        /\ \/ array' = empty(change.log) /\ change' = [change EXCEPT !.at = "rehash"]
           \/ change' = IDLE
    BY <1>3 DEF resize_alloc, at_change
  <2>2. Filled(dst_hash_tbl, hash_tbl_log)'
    BY <1>1, <1>2, <2>1 DEF Stages, in_order, Filled, cell
  <2>3. CASE change' = IDLE
    BY <1>1, <1>2, <2>1, <2>2, <2>3 DEF TableInv, Shapes, Stages, IDLE
  <2>4. CASE array' = empty(change.log) /\ change' = [change EXCEPT !.at = "rehash"]
    <3>1. /\ change' = [at |-> "rehash", log |-> change.log, mul |-> change.mul, shift |-> change.shift]
          /\ change.log \in 1 .. MAX_LOG
      BY <1>2, <2>1, <2>4 DEF Shapes, IDLE
    <3>2. DOMAIN array' = Cells(change'.log)
      BY <2>4, <3>1, EmptyCells
    <3>3. Stages'
      BY <2>2, <3>1, <3>2 DEF Stages
    <3>4. Shapes'
      BY <1>1, <1>2, <2>1, <3>1 DEF Shapes
    <3> QED BY <1>1, <1>2, <2>1, <3>3, <3>4 DEF TableInv
  <2> QED BY <2>1, <2>3, <2>4
<1>4. CASE free_old_table
  <2>1. /\ change.at = "free" /\ change' = [change EXCEPT !.at = "switch"]
        /\ array' = array /\ config' = config /\ oops' = oops /\ hash_tbl_log' = hash_tbl_log
    BY <1>4 DEF free_old_table, at_change
  <2>2. /\ change' = [at |-> "switch", log |-> change.log, mul |-> change.mul, shift |-> change.shift]
        /\ change.log \in 1 .. MAX_LOG
    BY <1>2, <2>1 DEF Shapes, IDLE
  <2>3. change'.at = "switch" /\ change'.log = change.log
    BY <2>2
  <2>4. Filled(array, change.log)'
    BY <1>1, <1>2, <2>1, <2>3 DEF Stages, Filled, cell
  <2>5. Stages'
    BY <2>3, <2>4 DEF Stages, in_order
  <2>6. Shapes'
    BY <1>1, <1>2, <2>1, <2>2, Zenon DEF Shapes
  <2> QED BY <1>1, <1>2, <2>1, <2>5, <2>6 DEF TableInv
<1>5. CASE switch_table
  <2>1. /\ change.at = "switch" /\ change' = [change EXCEPT !.at = "size"]
        /\ dst_hash_tbl' = array /\ config' = config /\ oops' = oops /\ hash_tbl_log' = hash_tbl_log
    BY <1>5 DEF switch_table, at_change
  <2>2. /\ change' = [at |-> "size", log |-> change.log, mul |-> change.mul, shift |-> change.shift]
        /\ change.log \in 1 .. MAX_LOG
    BY <1>2, <2>1 DEF Shapes, IDLE
  <2>3. change'.at = "size" /\ change'.log = change.log
    BY <2>2
  <2>4. Filled(dst_hash_tbl, change.log)'
    BY <1>1, <1>2, <2>1, <2>3 DEF Stages, Filled, cell
  <2>5. Stages'
    BY <2>3, <2>4 DEF Stages, in_order
  <2>6. Shapes'
    BY <1>1, <1>2, <2>1, <2>2, Zenon DEF Shapes
  <2> QED BY <1>1, <1>2, <2>1, <2>5, <2>6 DEF TableInv
<1>6. CASE switch_log
  <2>1. /\ change.at = "size" /\ change' = [change EXCEPT !.at = "tslot"]
        /\ hash_tbl_log' = change.log
        /\ dst_hash_tbl' = dst_hash_tbl /\ config' = config /\ oops' = oops
    BY <1>6 DEF switch_log, switch_size, at_change
  <2>2. /\ change' = [at |-> "tslot", log |-> change.log, mul |-> change.mul, shift |-> change.shift]
        /\ change.log \in 1 .. MAX_LOG
    BY <1>2, <2>1 DEF Shapes, IDLE
  <2>3. change'.at = "tslot"
    BY <2>2
  <2>4. Filled(dst_hash_tbl, hash_tbl_log)'
    BY <1>1, <1>2, <2>1 DEF Stages, Filled, cell
  <2>5. Stages'
    BY <2>3, <2>4 DEF Stages
  <2>6. Shapes'
    BY <1>1, <1>2, <2>1, <2>2, Zenon DEF Shapes
  <2> QED BY <1>1, <1>2, <2>1, <2>5, <2>6 DEF TableInv
<1>7. CASE change_timeslot
  <2> DEFINE mul == changed_to(change.mul, config.mul)
  <2>1. /\ change.at = "tslot" /\ change' = IDLE
        /\ config' = [config EXCEPT !.mul = mul, !.shift = changed_to(change.shift, @)]
        /\ oops' = ({change.mul, change.shift} # {ABSENT} /\ mul = 0)
        /\ dst_hash_tbl' = dst_hash_tbl /\ hash_tbl_log' = hash_tbl_log
    BY <1>7 DEF change_timeslot, at_change
  <2>2. config' = [limit |-> config.limit, rate |-> config.rate, mul |-> mul,
                   shift |-> changed_to(change.shift, config.shift)]
    <3> HIDE DEF mul
    <3> QED BY <1>2, <2>1 DEF Shapes
  <2>3. oops' <=> (config'.mul = 0)
    <3>1. config'.mul = mul
      BY <2>2
    <3>2. CASE change.mul = ABSENT
      <4>1. mul # 0
        BY <1>2, <3>2 DEF changed_to
      <4> HIDE DEF mul
      <4> QED BY <2>1, <3>1, <4>1
    <3>3. CASE change.mul # ABSENT
      <4>1. {change.mul, change.shift} # {ABSENT}
        BY <3>3, Zenon
      <4> HIDE DEF mul
      <4> QED BY <2>1, <3>1, <4>1
    <3> QED BY <3>2, <3>3
  <2>4. Filled(dst_hash_tbl, hash_tbl_log)'
    BY <1>1, <1>2, <2>1 DEF Stages, in_order, Filled, cell
  <2>5. Stages'
    BY <2>1, <2>4 DEF Stages, IDLE
  <2>6. Shapes'
    BY <1>1, <1>2, <2>1, <2>2 DEF Shapes
  <2> QED BY <1>1, <2>3, <2>5, <2>6 DEF TableInv
<1> QED BY <1>3, <1>4, <1>5, <1>6, <1>7

-----------------------------------------------------------------------------
\* At every stage of every change the flows of the table are in one array, each in the
\* tree of its hash.
THEOREM TableInductive == TableSpec => []TableInv
<1>1. TableInit => TableInv
  BY InitTable
<1>2. TableInv /\ [TableNext]_tablevars => TableInv'
  <2> SUFFICES ASSUME TableInv, [TableNext]_tablevars PROVE TableInv'
    OBVIOUS
  <2>1. CASE UNCHANGED tablevars
    BY <2>1 DEF tablevars, TableInv, Shapes, Stages, Filled, in_order, cell
  <2>2. CASE TableNext
    BY <2>2, LookupStep, ChangeStep, RehashStep, ResizeSteps DEF TableNext
  <2> QED BY <2>1, <2>2
<1> QED BY <1>1, <1>2, PTL DEF TableSpec

\* dst_lookup finds every flow that was created, exactly once, whatever resizes
\* (tsq_tc_resize, rehash_dst_table) came before, and no change but a multiplier of
\* zero stops the kernel, until a lookup runs inside an unlocked switch of tables.
THEOREM LookupsFind == TableSpec => []FlowsFindable
<1>1. TableInv => FlowsFindable
  BY DEF TableInv, Shapes, Stages, Filled, FlowsFindable
<1> QED BY <1>1, TableInductive, PTL
=============================================================================
