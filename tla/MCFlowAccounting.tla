-------------------------- MODULE MCFlowAccounting --------------------------
(***************************************************************************)
(* FlowAccounting for TLC: a few scenarios, each of which lets one kind of *)
(* trouble happen.                                                         *)
(***************************************************************************)
EXTENDS FlowAccounting, FiniteSets, TLC

CONSTANT Scenarios

VARIABLE scenario

mc_vars == <<vars, scenario>>

\* Two requests at a time, with a loss or with two packets waiting; two packets of the arbiter at a time; a reset.
\* A flow that has sent M - 1 packets before passes the modulus.
SafetyScenarios ==
  {[past |-> M - 1, reqs |-> 2, allocs |-> 1, losses |-> 1, resets |-> 0, qlen |-> 1, enqueued |-> 1],
   [past |-> 0, reqs |-> 2, allocs |-> 1, losses |-> 0, resets |-> 0, qlen |-> 2, enqueued |-> 2],
   [past |-> M - 1, reqs |-> 1, allocs |-> 2, losses |-> 1, resets |-> 0, qlen |-> 1, enqueued |-> 1],
   [past |-> 0, reqs |-> 1, allocs |-> 1, losses |-> 0, resets |-> 1, qlen |-> 1, enqueued |-> 2]}

\* A loss while two packets wait and the counts pass the modulus
LossScenarios ==
  {[past |-> M - 1, reqs |-> 1, allocs |-> 1, losses |-> 1, resets |-> 0, qlen |-> 2, enqueued |-> 2]}

\* A reset of a flow that has sent half the modulus before
ResetScenarios ==
  {[past |-> M \div 2, reqs |-> 1, allocs |-> 1, losses |-> 0, resets |-> 1, qlen |-> 1, enqueued |-> 1]}

Slot == Permutations(ReqSlots) \cup Permutations(AllocSlots)

in_use(pkts) == Cardinality({s \in DOMAIN pkts : pkts[s] # FREE})

Within == /\ in_use(reqs') <= scenario.reqs /\ in_use(allocs') <= scenario.allocs
          /\ building' # NONE => in_use(reqs') < scenario.reqs
          /\ losses' <= scenario.losses /\ resets' <= scenario.resets
          /\ qlen' <= scenario.qlen /\ enqueued' <= scenario.enqueued

MCNext == Next /\ Within /\ UNCHANGED scenario

MCInit == scenario \in Scenarios /\ AtRest(scenario.past)

MCSpec == MCInit /\ [][MCNext]_mc_vars

MCFairSpec == MCSpec /\ Fairness

\* One CPU: no request is being made while the end node is reset, and none begins.
Serial == ~(building' # NONE /\ resetting')

MCSerialFairSpec == MCInit /\ [][MCNext /\ Serial]_mc_vars /\ Fairness
=============================================================================
