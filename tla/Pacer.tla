------------------------------- MODULE Pacer -------------------------------
(***************************************************************************)
(* The token-bucket pacer of src/protocol/pacer.h as its two users drive   *)
(* it: a request is triggered at any time, and the pending event is taken  *)
(* by the end node's maintenance tasklet (sch_fastpass.c) or the arbiter's *)
(* transmit timer (comm_core.c) at some moment not before next_event.      *)
(*                                                                         *)
(* Times are natural numbers.  The clock starts at START >= MAX_CREDIT, so *)
(* the unsigned subtractions of the code never wrap.                       *)
(***************************************************************************)
EXTENDS Integers

CONSTANTS COST,         \* time that one event costs
          MAX_CREDIT,   \* time that may accumulate for a burst
          MIN_GAP,      \* least delay from a trigger to its event
          START,        \* the clock when pacer_init_full runs
          MAX_TIME      \* bound on the clock

ASSUME PacerAssumption ==
    /\ COST \in Nat \ {0}
    /\ MAX_CREDIT \in Nat
    /\ MIN_GAP \in Nat
    /\ START \in Nat /\ START >= MAX_CREDIT
    /\ MAX_TIME \in Nat

PACER_NO_NEXT_EVENT == -1

VARIABLES now,         \* the clock
          T,           \* pa->T
          next_event,  \* pa->next_event
          asked,       \* history: when the pending event was triggered
          last,        \* history: when the latest event was scheduled
          first,       \* history: scheduled time of the event measuring began at
          spent        \* history: COST times the events since then, 0 if none

vars == <<now, T, next_event, asked, last, first, spent>>

larger(a, b) == IF a >= b THEN a ELSE b

pacer_is_triggered == next_event # PACER_NO_NEXT_EVENT

\* pacer_init_full: start with a full bucket
Init ==
    /\ now = START
    /\ T = START - MAX_CREDIT
    /\ next_event = PACER_NO_NEXT_EVENT
    /\ asked = START /\ last = START /\ first = START /\ spent = 0

Tick ==
    /\ now < MAX_TIME
    /\ now' = now + 1
    /\ UNCHANGED <<T, next_event, asked, last, first, spent>>

\* A second trigger of a pending event changes nothing.
pacer_trigger ==
    /\ ~pacer_is_triggered
    /\ next_event' = larger(T + COST, now + MIN_GAP)
    /\ asked' = now
    /\ UNCHANGED <<now, T, last, first, spent>>

mut_unclamped_T == T + COST

\* The bucket after an event: credit older than MAX_CREDIT is forfeited.
new_T == larger(T, next_event - MAX_CREDIT) + COST

\* pacer_reset, called once the clock has reached next_event.  The observer may
\* start measuring at any event and counts every later one.
pacer_reset ==
    /\ pacer_is_triggered
    /\ now >= next_event
    /\ T' = new_T
    /\ next_event' = PACER_NO_NEXT_EVENT
    /\ last' = next_event
    /\ \/ /\ spent = 0
          /\ first' = next_event
          /\ spent' \in {0, COST}
       \/ /\ spent > 0
          /\ spent' = spent + COST
          /\ UNCHANGED first
    /\ UNCHANGED <<now, asked>>

Next == Tick \/ pacer_trigger \/ pacer_reset

Spec == Init /\ [][Next]_vars

-----------------------------------------------------------------------------

TypeOK ==
    /\ now \in Nat
    /\ T \in Nat
    /\ next_event \in Nat \cup {PACER_NO_NEXT_EVENT}
    /\ asked \in Nat /\ last \in Nat /\ first \in Nat /\ spent \in Nat

\* Whatever event the count starts at, n events scheduled in a stretch of time
\* cost at most the length of the stretch plus the burst credit (or one event, when
\* the bucket is smaller than that): the rate the pacer promises.
RateBound == spent > 0 => spent <= last - first + larger(COST, MAX_CREDIT)

\* No debt: an event is put off only for its own minimum gap or for one cost after
\* the latest event (longer only by what one event costs beyond a full bucket),
\* however many events came before it.
NoDebt ==
    pacer_is_triggered =>
        \/ next_event = asked + MIN_GAP
        \/ next_event <= last + COST + larger(0, COST - MAX_CREDIT)

-----------------------------------------------------------------------------

\* The inductive invariant: RateBound and NoDebt hold because T runs ahead of the
\* tokens spent since any event, and never ahead of the latest event.
AheadOfSpending == spent > 0 => T >= first - MAX_CREDIT + spent

BehindLast == T <= last + larger(0, COST - MAX_CREDIT)

ScheduledAfterT ==
    pacer_is_triggered =>
        /\ next_event >= T + COST
        /\ next_event = asked + MIN_GAP \/ next_event = T + COST

PacerInv ==
    TypeOK /\ RateBound /\ NoDebt /\ AheadOfSpending /\ BehindLast /\ ScheduledAfterT

=============================================================================
