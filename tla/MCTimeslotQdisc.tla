-------------------------- MODULE MCTimeslotQdisc --------------------------
(***************************************************************************)
(* TimeslotQdisc for TLC: packets of half a timeslot and of more than one, *)
(* and at most one that is not data.  There are more packets if they are   *)
(* all of one flow and the qdisc is not reset.                             *)
(***************************************************************************)
EXTENDS QdiscOrder

VARIABLE one_flow

mc_vars == <<vars, one_flow>>

Within ==
    /\ accepted'[HI] + accepted'[REG] <= 1
    /\ IF one_flow THEN resets' = 0 /\ \A f, g \in Flows : accepted'[f] > 0 /\ accepted'[g] > 0 => f = g
       ELSE SumFunction(accepted') < MAX_PKTS

MCInit == Init /\ one_flow \in BOOLEAN

MCNext == Next /\ Within /\ UNCHANGED one_flow

MCSpec == MCInit /\ [][MCNext]_mc_vars

Symmetry == Permutations(Flows) \cup Permutations(Cpus)
=============================================================================
