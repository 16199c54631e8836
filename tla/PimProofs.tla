----------------------------- MODULE PimProofs -----------------------------
(***************************************************************************)
(* The theorems about parallel iterative matching: its phases keep the     *)
(* cores' accesses apart, a flow waits in one place while it has backlog,  *)
(* and the cores together implement the allocator of AllocatorAbs, for     *)
(* every number of partitions, nodes and iterations, every set of flows    *)
(* and every interleaving of the cores and the comm core.                  *)
(***************************************************************************)
EXTENDS PimPlaceProofs, FiniteSetTheorems, WellFoundedInduction

-----------------------------------------------------------------------------
(* What PimMatchProofs and PimPlaceProofs take for granted.                *)

LEMMA LeastNumber ==
  ASSUME NEW T \in SUBSET Nat, T # {}
  PROVE  \E n \in T : \A m \in T : n <= m
<1> DEFINE R == OpToRel(<, Nat)
<1>1. IsWellFoundedOn(R, Nat)
  BY NatLessThanWellFounded
<1> HIDE DEF R
<1>2. PICK n \in T : \A m \in T : ~(<<m, n>> \in R)
  BY <1>1, WFMin, Zenon
<1>3. \A m \in T : ~(m < n)
  BY <1>2, Zenon DEF R, OpToRel
<1>4. \A m \in T : m \in Nat /\ n \in Nat
  OBVIOUS
<1> QED BY <1>3, <1>4

LEMMA PartitionsFinite == IsFiniteSet(Partitions) /\ Cardinality(Partitions) = N_PARTITIONS
<1>1. /\ IsFiniteSet(0 .. N_PARTITIONS - 1)
      /\ Cardinality(0 .. N_PARTITIONS - 1) = IF 0 > N_PARTITIONS - 1 THEN 0 ELSE (N_PARTITIONS - 1) - 0 + 1
  BY FS_Interval, Sizes
<1> QED BY <1>1, Sizes DEF Partitions

LEMMA CountingHolds == Counting
<1>1. \A T \in SUBSET Nat : T # {} => \E n \in T : \A m \in T : n <= m
  BY LeastNumber, Zenon
<1>2. Cardinality({}) = 0 /\ \A x : Cardinality({x}) = 1
  BY FS_EmptySet, FS_Singleton
<1>3. ASSUME NEW S \in SUBSET Partitions
      PROVE  Cardinality(S) \in Nat /\ \A q \in Partitions \ S : Cardinality(S \cup {q}) = Cardinality(S) + 1
  <2>1. IsFiniteSet(S)
    BY PartitionsFinite, FS_Subset
  <2> QED BY <2>1, FS_AddElement, FS_CardinalityType
<1>4. ASSUME NEW p \in Partitions, NEW S \in SUBSET (Partitions \ {p})
      PROVE  Cardinality(S) = N_PARTITIONS - 1 <=> S = Partitions \ {p}
  <2>1. IsFiniteSet(Partitions \ {p}) /\ Cardinality(Partitions \ {p}) = N_PARTITIONS - 1
    BY PartitionsFinite, FS_RemoveElement
  <2> QED BY <2>1, FS_Subset
<1> QED BY <1>1, <1>2, <1>3, <1>4, Zenon DEF Counting

-----------------------------------------------------------------------------
(* The results.                                                            *)

\* The types and the phases are an inductive invariant of the whole allocator, for every number of
\* partitions and iterations (phase.h and the waits in pim_do_accept and pim_process_accepts).
THEOREM PimPhases == Spec => [](PimTypeOK /\ PhaseInv)
<1>1. Init => PimTypeOK /\ PhaseInv
  BY CountingHolds, InitTypes, InitPhases
<1>2. PimTypeOK /\ PhaseInv /\ [Next]_vars => (PimTypeOK /\ PhaseInv)'
  BY TypesInductive, PhasesInductive
<1> QED BY <1>1, <1>2, PTL DEF Spec

\* pim_do_grant never reads the destinations' marks while pim_do_accept or pim_prepare of another
\* core may write them: the phases alone see to it.
THEOREM PhasesOrderMarks == Spec => []NoRace
<1>1. PimTypeOK /\ PhaseInv => NoRace
  BY InvNoRace
<1> QED BY <1>1, PimPhases, PTL

\* What the cores grant, accept, mark and admit fits together in every interleaving: it is an
\* inductive invariant (pim_do_grant, pim_do_accept, process_accepts_from_partition).
THEOREM PimInvariant == Spec => [](PimTypeOK /\ PhaseInv /\ MatchInv)
<1>1. Init => MatchInv
  BY InitMatch
<1>2. PimTypeOK /\ PhaseInv /\ MatchInv /\ [Next]_vars => MatchInv'
  BY MatchInductive
<1> QED BY <1>1, <1>2, PimPhases, PTL DEF Spec

\* A flow is in one bin or request list while it has backlog, and in none when it has not: the index
\* that process_accepts_from_partition deletes is that of the flow whose backlog ran out.
THEOREM FlowsWaitOnce == Spec => []OnePlace
<1>1. MatchInv => OnePlace
  BY CountingHolds, InvOnePlace DEF MatchInv
<1> QED BY <1>1, PimInvariant, PTL

\* Although each core numbers its timeslots and marks its nodes on its own, what they admit in a
\* timeslot is a matching, and every packet asked for is admitted once at most.
THEOREM CoresAllocate == Spec => PimAllocates
<1>1. Init => Abs!AInit
  BY InitRefines
<1>2. /\ PimTypeOK /\ PhaseInv /\ MatchInv
      /\ (PimTypeOK /\ PhaseInv /\ MatchInv)'
      /\ [Next]_vars
      => [Abs!ANext]_<<backlog, slots_out>>
  BY StepRefines
<1>3. Abs!avars = <<backlog, slots_out>>
  BY DEF Abs!avars
<1> QED BY <1>1, <1>2, <1>3, PimInvariant, PTL DEF Spec, PimAllocates, Abs!ASpec, Abs!avars
=============================================================================
