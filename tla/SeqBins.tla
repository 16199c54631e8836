------------------------------ MODULE SeqBins ------------------------------
(***************************************************************************)
(* bin_index_from_timeslot (graph-algo/admissible_traffic.h): the priority *)
(* bin of a flow, from the timeslot that was last allocated to it and the  *)
(* first timeslot of the batch.  Bin 0 is served first.  The last NUM_BINS *)
(* timeslots before the batch have a bin each; older ones are folded into  *)
(* the first BATCH_SIZE bins in groups of BATCH_SIZE timeslots, group g    *)
(* 2^(g+1) timeslots to a bin, and all that is older still is in bin 0.    *)
(*                                                                         *)
(* Timeslots are kept modulo TIME, which is 2^32 in the code.  The group   *)
(* number is kept modulo GROUPS, which is 2^16.                            *)
(***************************************************************************)
EXTENDS Naturals, Integers

CONSTANTS BATCH_SHIFT, NUM_BINS, TIME, GROUPS

ASSUME BinsAssumption == /\ {BATCH_SHIFT, NUM_BINS, TIME, GROUPS} \subseteq Nat \ {0}
                         /\ NUM_BINS + 2^BATCH_SHIFT < TIME
                         /\ BATCH_SHIFT < GROUPS
                         /\ 2^BATCH_SHIFT \in Nat \ {0}

BATCH_SIZE == 2^BATCH_SHIFT

Bin == 0 .. NUM_BINS + BATCH_SIZE - 1

\* How long before the end of the batch the flow was last served
gap_of(last_allocated, current_timeslot) == (current_timeslot + BATCH_SIZE - last_allocated) % TIME

mut_group_ind(gap) == (gap \div BATCH_SIZE + 1) % GROUPS

\* Which of the groups a gap beyond NUM_BINS + 1 falls in
group_ind(gap) == (gap \div BATCH_SIZE) % GROUPS

\* #group ones, a zero, and the offset in the group shifted right by 1 + #group: counted down from bin BATCH_SIZE - 1
bin_of_group(gap, group) ==
  LET bin_gap == ((gap % BATCH_SIZE) - 2 * BATCH_SIZE) \div 2^(1 + group)
  IN IF group >= BATCH_SHIFT THEN 0 ELSE BATCH_SIZE - 1 - (bin_gap % BATCH_SIZE)

bin_of_gap(gap) ==
  LET old == gap - (NUM_BINS + 1)
  IN IF gap <= NUM_BINS THEN NUM_BINS + BATCH_SIZE - 1 - gap ELSE bin_of_group(old, group_ind(old))

bin_index_from_timeslot(last_allocated, current_timeslot) == bin_of_gap(gap_of(last_allocated, current_timeslot))
=============================================================================
