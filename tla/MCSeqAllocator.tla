--------------------------- MODULE MCSeqAllocator ---------------------------
(***************************************************************************)
(* SeqAllocator for TLC: nodes are numbers, 9 is out of the boundary.  Two *)
(* flows are used, and a scenario, which never changes, says which.        *)
(***************************************************************************)
EXTENDS SeqAllocator

VARIABLE scenario

mc_vars == <<vars, scenario>>

\* Two flows share a source, two share a destination.
ThreeFlows == {<<1, 1>>, <<1, 2>>, <<2, 1>>}

TwoFlows == {<<1, 1>>, <<1, 2>>}

SharedFlows == {<<1, 1>>, <<2, 1>>}

\* The second flow has demands of one timeslot only.
OneSource == [few |-> {<<1, 2>>}, none |-> {<<2, 1>>}, total |-> MAX_TOTAL, resets |-> 0]

OneDestination == [few |-> {<<2, 1>>}, none |-> {<<1, 2>>}, total |-> MAX_TOTAL - 1, resets |-> MAX_RESETS]

Within == /\ \A f \in Flows : pending'[f] <= IF f \in scenario.none THEN 0
                                           ELSE IF f \in scenario.few THEN 1 ELSE MAX_DEMAND
          /\ SumFunction(pending') <= scenario.total
          /\ resets' <= scenario.resets

\* While a core allocates it reads and writes its own state only, except that it adds bins to its output: these steps
\* commute with those of the others and are taken at once.
Busy == {c \in Cores : core[c].todo # <<>> \/ ~at_loop_head(core[c])}

AtOnce(next) == IF Busy # {} THEN admission_core(Min(Busy)) ELSE next

MCInit == Init /\ scenario \in {OneSource, OneDestination}

MCNext == AtOnce(Next) /\ Within /\ UNCHANGED scenario

MCSpec == MCInit /\ [][MCNext]_mc_vars

MCFairInit == Init /\ scenario = OneSource

MCPromptNext == AtOnce(PromptNext) /\ UNCHANGED scenario

MCFairSpec == MCFairInit /\ [][MCPromptNext]_mc_vars /\ Fairness
=============================================================================
