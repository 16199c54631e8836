----------------------------- MODULE TimerWheel -----------------------------
(***************************************************************************)
(* The timer wheel of src/arbiter/fp_timer.h.  A wheel is a record         *)
(*   head   the slot that is processed next, in units of GRANULARITY       *)
(*   slots  for each of the SLOTS slots the list of timers on it           *)
(*   time   for each timer when it fires, or NOT_SET                       *)
(* The operators are the functions of the file; times are cycle counts.    *)
(***************************************************************************)
EXTENDS Integers, Sequences, SequencesExt

CONSTANTS
  SLOTS,        \* MAX_TIMER_SLOTS
  GRANULARITY   \* TIMER_GRANULARITY

NOT_SET == -1   \* TIMER_NOT_SET_TIME, later than any time

fp_init_timers(Timers, now) ==
  [head |-> now \div GRANULARITY,
   slots |-> [i \in 0 .. SLOTS - 1 |-> <<>>],
   time |-> [t \in Timers |-> NOT_SET]]

is_set(w, t) == w.time[t] # NOT_SET

(* list_del, whichever list the timer is on. *)
list_del(w, t) ==
  [w EXCEPT !.slots = [i \in DOMAIN w.slots |-> SelectSeq(w.slots[i], LAMBDA u : u # t)]]

(* A timer that is already due goes on the slot that is processed next. *)
slot_of(w, when) == (IF when <= w.head THEN w.head ELSE when) % SLOTS

fp_timer_reset(w, t, cycles) ==
  LET when == cycles \div GRANULARITY
      off == IF is_set(w, t) THEN list_del(w, t) ELSE w
  IN  [off EXCEPT !.time[t] = when, !.slots[slot_of(w, when)] = Append(@, t)]

fp_timer_stop(w, t) ==
  IF is_set(w, t) THEN [list_del(w, t) EXCEPT !.time[t] = NOT_SET] ELSE w

(* The timers that expire by the given time, in the order in which the walk *)
(* from head meets them.  A slot met again has no more of them.             *)
expired(w, cycles) ==
  LET now == cycles \div GRANULARITY
      due(t) == w.time[t] <= now
  IN  FlattenSeq([i \in 1 .. Min({now - w.head + 1, SLOTS}) |->
                    SelectSeq(w.slots[(w.head + i - 1) % SLOTS], due)])

mut_fp_timer_get_expired(w, cycles) ==
  LET l == Range(expired(w, cycles))
  IN  [head |-> cycles \div GRANULARITY + 1,
       slots |-> [i \in DOMAIN w.slots |-> SelectSeq(w.slots[i], LAMBDA t : t \notin l)],
       time |-> [t \in DOMAIN w.time |-> IF t \in l THEN NOT_SET ELSE w.time[t]]]

(* The wheel once they are taken off; head stays at the slot of now, so that *)
(* timers reset within it are found by the next call.                        *)
fp_timer_get_expired(w, cycles) ==
  LET l == Range(expired(w, cycles))
  IN  [head |-> cycles \div GRANULARITY,
       slots |-> [i \in DOMAIN w.slots |-> SelectSeq(w.slots[i], LAMBDA t : t \notin l)],
       time |-> [t \in DOMAIN w.time |-> IF t \in l THEN NOT_SET ELSE w.time[t]]]
=============================================================================
