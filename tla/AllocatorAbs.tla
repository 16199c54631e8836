---------------------------- MODULE AllocatorAbs ----------------------------
(***************************************************************************)
(* What a timeslot allocator promises the arbiter, whatever its algorithm: *)
(* every packet of demand is given at most one timeslot, and the flows of  *)
(* a timeslot fit in it: no node sends or receives two packets and, where  *)
(* the allocator knows the network's capacity, no link carries too many.   *)
(***************************************************************************)
EXTENDS Naturals, FiniteSets

CONSTANTS Flows,   \* pairs of source and destination
          Slots,   \* timeslots
          Fits(_)  \* the sets of flows a timeslot has room for

VARIABLES demand,  \* packets of each flow that have no timeslot yet
          slots    \* the flows that are given each timeslot

avars == <<demand, slots>>

AInit ==
    /\ demand = [f \in Flows |-> 0]
    /\ slots = [t \in Slots |-> {}]

\* More packets are asked for.
Ask ==
    /\ \E f \in Flows : \E n \in 1 .. demand'[f] : demand' = [demand EXCEPT ![f] = @ + n]
    /\ UNCHANGED slots

\* Packets are given timeslots they fit in, each at the cost of one of its flow's.
Admit ==
    /\ slots' \in [Slots -> SUBSET Flows] /\ slots' # slots
    /\ \A t \in Slots : slots[t] \subseteq slots'[t] /\ Fits(slots'[t])
    /\ demand' \in [Flows -> Nat]
    /\ \A f \in Flows :
         demand[f] = demand'[f] + Cardinality({t \in Slots : f \in slots'[t] \ slots[t]})

ANext == Ask \/ Admit

ASpec == AInit /\ [][ANext]_avars
=============================================================================
