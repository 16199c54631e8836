--------------------------- MODULE PimMatchProofs ---------------------------
(***************************************************************************)
(* The phases of parallel iterative matching (grant-accept/phase.h, pim.c) *)
(* order the cores' accesses to what they share, and what the cores grant, *)
(* accept and admit in them is a matching, for every number of partitions, *)
(* nodes and iterations, every set of flows and every interleaving of the  *)
(* cores and the comm core.                                                *)
(***************************************************************************)
EXTENDS Pim, TLAPS

\* The flows whose source is of partition p
FlowsOf(p) == {f \in Flows : PARTITION_OF(f[1]) = p}

\* Rounds of grant and accept that core p has left behind it, in all its timeslots
round(p) ==
    NUM_ITERATIONS * Len(q_admitted_out[p])
      + (IF stage[p] = "prepare" THEN 0 ELSE iteration[p] - 1)

\* Phases that core p has finished, not reduced modulo PHASES: two in each round
ended(p) ==
    2 * round(p) + (IF stage[p] = "accept" THEN 1 ELSE IF stage[p] = "process" THEN 2 ELSE 0)

\* Core p has put the end of its phase into the ring of core q.
Told(p, q) == \E k \in 1 .. told[p] - 1 : q = (p + k) % N_PARTITIONS

\* Core p has put the end of the phase that core q is in into the ring of core q.
Sent(p, q) == ended(p) = ended(q) + 1 \/ (ended(p) = ended(q) /\ Told(p, q))

Elements(s) == {s[i] : i \in DOMAIN s}
Distinct(s) == \A i, j \in DOMAIN s : s[i] = s[j] => i = j

Ring(p) == Elements(q_ready[p])

\* The entries of core q for the phase that core p is in and for the one after it
ThisPhase(p, q) == <<ended(p) % PHASES, q>>
NextPhase(p, q) == <<(ended(p) + 1) % PHASES, q>>

\* The cores that core p has heard of in its phase
Heard(p) == {q \in Partitions \ {p} : Sent(q, p) /\ ThisPhase(p, q) \notin Ring(p)}

PhaseTypeOK ==
    /\ stage \in [Partitions -> {"prepare", "grant", "accept", "process"}]
    /\ iteration \in [Partitions -> 1 .. NUM_ITERATIONS]
    /\ phase \in [Partitions -> Nat]
    /\ told \in [Partitions -> 1 .. N_PARTITIONS]
    /\ heard \in [Partitions -> 1 .. N_PARTITIONS]
    /\ q_ready \in [Partitions -> Seq(Nat \X Partitions)]

\* Every request is of a flow.
Legal(r) == \A s \in Nodes : \A i \in DOMAIN r[s] : <<s, r[s][i]>> \in Flows

\* Requests and grants are of flows, and what core p admits are its own.
EdgeTypeOK ==
    /\ requests \in [Nodes -> Seq(Nodes)] /\ Legal(requests)
    /\ grant_adj_index \in [Nodes -> Nat]
    /\ grants \in [Nodes -> SUBSET Nodes]
    /\ \A s \in Nodes : \A d \in grants[s] : <<s, d>> \in Flows
    /\ grants_by_dst \in [Nodes -> SUBSET Nodes]
    /\ \A d \in Nodes : \A s \in grants_by_dst[d] : <<s, d>> \in Flows
    /\ accepts \subseteq Flows
    /\ src_endnodes \subseteq Nodes /\ dst_endnodes \subseteq Nodes
    /\ admitted \in [Partitions -> SUBSET Flows]
    /\ \A p \in Partitions : admitted[p] \subseteq FlowsOf(p)
    /\ q_admitted_out \in [Partitions -> Seq(SUBSET Flows)]
    /\ \A p \in Partitions : q_admitted_out[p] \in Seq(SUBSET FlowsOf(p))

DemandTypeOK ==
    /\ backlog \in [Flows -> Int] /\ asked \in [Flows -> Nat]
    /\ new_demands \in [Partitions -> Seq(Flows)]
    /\ \A p \in Partitions : new_demands[p] \in Seq(FlowsOf(p))
    /\ q_new_demands \in [Partitions -> Seq(Flows)]
    /\ \A p \in Partitions : q_new_demands[p] \in Seq(FlowsOf(p))

\* What the steps below use of the order of the natural numbers and of the sizes of finite sets, in
\* every state: PimProofs takes it from the library.
Counting ==
    /\ \A T \in SUBSET Nat : T # {} => \E n \in T : \A m \in T : n <= m
    /\ Cardinality({}) = 0 /\ \A x : Cardinality({x}) = 1
    /\ \A S \in SUBSET Partitions :
         Cardinality(S) \in Nat /\ \A q \in Partitions \ S : Cardinality(S \cup {q}) = Cardinality(S) + 1
    /\ \A p \in Partitions : \A S \in SUBSET (Partitions \ {p}) :
         Cardinality(S) = N_PARTITIONS - 1 <=> S = Partitions \ {p}

PimTypeOK == Counting /\ PhaseTypeOK /\ EdgeTypeOK /\ DemandTypeOK

\* A core between two phases has told and heard of all.
Settled ==
    \A p \in Partitions :
        stage[p] \in {"prepare", "grant"} => told[p] = N_PARTITIONS /\ heard[p] = N_PARTITIONS

\* No core is more than one phase ahead of another, and none passes one that has not told it.
InStep ==
    \A p, q \in Partitions :
        p # q => /\ ended(q) <= ended(p) + 1
                 /\ ended(q) = ended(p) + 1 => Told(p, q)

\* e is an entry of core q in the ring of core p, for the phase that p is in or for the one after it.
EntryOf(p, q, e) ==
    \/ e = ThisPhase(p, q) /\ Sent(q, p)
    \/ e = NextPhase(p, q) /\ ended(q) = ended(p) + 1 /\ Told(q, p)

Entries(p) ==
    /\ Distinct(q_ready[p])
    /\ \A e \in Ring(p) : \E q \in Partitions \ {p} : EntryOf(p, q, e)
    /\ \A q \in Partitions \ {p} :
         ended(q) = ended(p) + 1 /\ Told(q, p) => NextPhase(p, q) \in Ring(p)

PhaseInv ==
    /\ Settled
    /\ InStep
    /\ \A p \in Partitions : /\ phase[p] = ended(p) % PHASES
                             /\ Entries(p)
                             /\ heard[p] = 1 + Cardinality(Heard(p))

-----------------------------------------------------------------------------
(* Numbers.                                                                *)

LEMMA Sizes ==
  /\ N_PARTITIONS \in Nat \ {0} /\ PARTITION_N_NODES \in Nat \ {0} /\ NUM_ITERATIONS \in Nat \ {0}
  /\ SMALL_BIN_SIZE \in Nat \ {0} /\ PHASES \in Nat /\ PHASES > 1 /\ MAX_DEMAND \in Nat /\ MAX_SLOTS \in Nat
  BY PimAssumption

LEMMA Least ==
  ASSUME Counting, NEW T \in SUBSET Nat, T # {}
  PROVE  \E n \in T : \A m \in T : n <= m
  BY Zenon DEF Counting

\* Each node is of one of the partitions.
LEMMA NodeFacts ==
  ASSUME NEW n \in Nodes
  PROVE  n \in Nat /\ PARTITION_OF(n) \in Partitions
<1> DEFINE M == N_PARTITIONS * PARTITION_N_NODES
<1>1. n \in 0 .. M - 1
  BY PimAssumption, Zenon DEF Nodes
<1>2. M \in Nat
  BY Sizes
<1>3. n \in Nat /\ n < M
  BY <1>1, <1>2
<1>4. n = PARTITION_N_NODES * (n \div PARTITION_N_NODES) + (n % PARTITION_N_NODES)
      /\ n \div PARTITION_N_NODES \in Nat /\ n % PARTITION_N_NODES \in Nat
  BY <1>3, Sizes
<1>5. n \div PARTITION_N_NODES < N_PARTITIONS
  <2> DEFINE x == n \div PARTITION_N_NODES
  <2>1. x \in Nat /\ PARTITION_N_NODES * x <= n
    BY <1>3, <1>4, Sizes
  <2> HIDE DEF x
  <2>2. ASSUME x >= N_PARTITIONS PROVE FALSE
    <3>1. PARTITION_N_NODES * x >= PARTITION_N_NODES * N_PARTITIONS
      BY <2>1, <2>2, Sizes
    <3> QED BY <1>2, <1>3, <2>1, <3>1, Sizes
  <2> QED BY <2>1, <2>2, Sizes DEF x
<1> QED BY <1>3, <1>4, <1>5, Sizes DEF PARTITION_OF, Partitions

\* A flow is a pair of nodes.
LEMMA FlowFacts ==
  ASSUME NEW f \in Flows
  PROVE  f = <<f[1], f[2]>> /\ f[1] \in Nodes /\ f[2] \in Nodes
<1> DEFINE all == 0 .. N_PARTITIONS * PARTITION_N_NODES - 1
<1>1. f \in all \X all
  BY PimAssumption, Zenon
<1>2. f = <<f[1], f[2]>>
  BY <1>1
<1>3. f[1] \in Nodes /\ f[2] \in Nodes
  BY Zenon DEF Nodes
<1> QED BY <1>2, <1>3

-----------------------------------------------------------------------------
(* Rings.                                                                  *)

LEMMA ElementsEmpty == Elements(<<>>) = {} /\ Distinct(<<>>)
  BY DEF Elements, Distinct

LEMMA ElementsAppend ==
  ASSUME NEW S, NEW s \in Seq(S), NEW x \in S
  PROVE  /\ Elements(Append(s, x)) = Elements(s) \cup {x}
         /\ Distinct(s) /\ x \notin Elements(s) => Distinct(Append(s, x))
<1> DEFINE t == Append(s, x)
<1>1. Len(s) \in Nat /\ DOMAIN s = 1 .. Len(s) /\ DOMAIN t = 1 .. Len(s) + 1
      /\ t[Len(s) + 1] = x /\ \A i \in 1 .. Len(s) : t[i] = s[i]
  OBVIOUS
<1> HIDE DEF t
<1>2. \A i : i \in DOMAIN t <=> i \in DOMAIN s \/ i = Len(s) + 1
  BY <1>1
<1>3. Elements(t) = Elements(s) \cup {x}
  BY <1>1, <1>2, Zenon DEF Elements
<1>4. ASSUME Distinct(s), x \notin Elements(s) PROVE Distinct(t)
  <2> SUFFICES ASSUME NEW i \in DOMAIN t, NEW j \in DOMAIN t, t[i] = t[j] PROVE i = j
    BY Zenon DEF Distinct
  <2>1. CASE i \in DOMAIN s /\ j \in DOMAIN s
    BY <1>1, <1>4, <2>1, Zenon DEF Distinct
  <2>2. CASE i = Len(s) + 1 /\ j \in DOMAIN s
    BY <1>1, <1>4, <2>2, Zenon DEF Elements
  <2>3. CASE j = Len(s) + 1 /\ i \in DOMAIN s
    BY <1>1, <1>4, <2>3, Zenon DEF Elements
  <2> QED BY <1>2, <2>1, <2>2, <2>3, Zenon
<1> QED BY <1>3, <1>4, Zenon DEF t

LEMMA ElementsTail ==
  ASSUME NEW S, NEW s \in Seq(S), s # <<>>
  PROVE  /\ Head(s) \in S /\ Head(s) \in Elements(s) /\ Tail(s) \in Seq(S)
         /\ Elements(s) = Elements(Tail(s)) \cup {Head(s)}
         /\ Distinct(s) => Distinct(Tail(s)) /\ Head(s) \notin Elements(Tail(s))
<1> DEFINE t == Tail(s)
           x == Head(s)
<1>1. Len(s) \in Nat \ {0} /\ DOMAIN s = 1 .. Len(s) /\ DOMAIN t = 1 .. Len(s) - 1 /\ x = s[1]
      /\ x \in S /\ t \in Seq(S) /\ \A i \in 1 .. Len(s) - 1 : t[i] = s[i + 1]
  OBVIOUS
<1> HIDE DEF t, x
<1>2. \A i : i \in DOMAIN s <=> i = 1 \/ \E j \in DOMAIN t : i = j + 1
  <2>1. \A i \in 1 .. Len(s) : i # 1 => i - 1 \in 1 .. Len(s) - 1 /\ i = (i - 1) + 1
    BY <1>1
  <2>2. 1 \in 1 .. Len(s) /\ \A j \in 1 .. Len(s) - 1 : j + 1 \in 1 .. Len(s)
    BY <1>1
  <2> QED BY <1>1, <2>1, <2>2, Zenon
<1>t. \A i \in DOMAIN t : t[i] = s[i + 1]
  BY <1>1, Zenon
<1>3. Elements(s) = Elements(t) \cup {x}
  <2>1. ASSUME NEW y \in Elements(s) PROVE y \in Elements(t) \cup {x}
    <3>1. PICK i \in DOMAIN s : y = s[i]
      BY <2>1, Zenon DEF Elements
    <3>2. CASE i = 1
      BY <1>1, <3>1, <3>2
    <3>3. CASE \E j \in DOMAIN t : i = j + 1
      BY <1>t, <3>1, <3>3, Zenon DEF Elements
    <3> QED BY <1>2, <3>1, <3>2, <3>3, Zenon
  <2>2. ASSUME NEW y \in Elements(t) \cup {x} PROVE y \in Elements(s)
    <3>1. CASE y = x
      BY <1>1, <1>2, <3>1, Zenon DEF Elements
    <3>2. CASE y \in Elements(t)
      <4>1. PICK j \in DOMAIN t : y = s[j + 1]
        BY <1>t, <3>2, Zenon DEF Elements
      <4>2. j + 1 \in DOMAIN s
        BY <1>2, Zenon
      <4> QED BY <4>1, <4>2, Zenon DEF Elements
    <3> QED BY <2>2, <3>1, <3>2
  <2> QED BY <2>1, <2>2, Zenon
<1>4. ASSUME Distinct(s) PROVE Distinct(t) /\ x \notin Elements(t)
  <2>1. \A i, j \in DOMAIN t : i + 1 \in DOMAIN s /\ i + 1 # 1 /\ 1 \in DOMAIN s /\ (i + 1 = j + 1 => i = j)
    BY <1>1
  <2>2. Distinct(t)
    BY <1>1, <1>4, <2>1, Zenon DEF Distinct
  <2>3. ASSUME NEW i \in DOMAIN t, x = t[i] PROVE FALSE
    <3>1. s[1] = s[i + 1]
      BY <1>1, <1>t, <2>3, Zenon
    <3> QED BY <1>4, <2>1, <3>1, Zenon DEF Distinct
  <2> QED BY <2>2, <2>3, Zenon DEF Elements
<1>5. x \in Elements(s)
  BY <1>3
<1> QED BY <1>1, <1>3, <1>4, <1>5, Zenon DEF t, x

LEMMA ElementsRotate ==
  ASSUME NEW S, NEW s \in Seq(S), s # <<>>
  PROVE  /\ Append(Tail(s), Head(s)) \in Seq(S)
         /\ Elements(Append(Tail(s), Head(s))) = Elements(s)
         /\ Distinct(s) => Distinct(Append(Tail(s), Head(s)))
<1> DEFINE a == Tail(s)
           x == Head(s)
<1>1. x \in S /\ a \in Seq(S) /\ Elements(s) = Elements(a) \cup {x}
      /\ (Distinct(s) => Distinct(a) /\ x \notin Elements(a))
  BY ElementsTail, Zenon
<1> HIDE DEF a, x
<1>2. /\ Elements(Append(a, x)) = Elements(a) \cup {x}
      /\ Distinct(a) /\ x \notin Elements(a) => Distinct(Append(a, x))
  BY <1>1, ElementsAppend, Zenon
<1>3. Append(a, x) \in Seq(S)
  BY <1>1
<1>4. Elements(Append(a, x)) = Elements(s)
  BY <1>1, <1>2
<1> QED BY <1>1, <1>2, <1>3, <1>4, Zenon DEF a, x

-----------------------------------------------------------------------------
(* New requests.                                                           *)

Requests == [Nodes -> Seq(Nodes)]

\* The requests r after one flow more
added(r, f) == [r EXCEPT ![f[1]] = Append(@, f[2])]

LEMMA Added ==
  ASSUME NEW r \in Requests, NEW f \in Flows
  PROVE  /\ added(r, f) \in Requests
         /\ \A s \in Nodes : added(r, f)[s] = IF s = f[1] THEN Append(r[s], f[2]) ELSE r[s]
<1>1. f[1] \in Nodes /\ f[2] \in Nodes
  BY FlowFacts
<1>2. r[f[1]] \in Seq(Nodes)
  BY <1>1 DEF Requests
<1>3. Append(r[f[1]], f[2]) \in Seq(Nodes)
  BY <1>1, <1>2
<1> QED BY <1>1, <1>3, Zenon DEF added, Requests

\* f[k] is the requests r after the first k flows of new.
Adds(f, r, new) == f = [k \in 0 .. Len(new) |-> IF k = 0 THEN r ELSE added(f[k - 1], new[k])]

LEMMA AddsExists ==
  ASSUME Counting, NEW r \in Requests, NEW new \in Seq(Flows)
  PROVE  \E f : Adds(f, r, new)
<1> DEFINE P(k) == \E f \in [0 .. k -> Requests] : f[0] = r /\ \A i \in 1 .. k : f[i] = added(f[i - 1], new[i])
           T == {k \in 0 .. Len(new) : ~P(k)}
<1>0. Len(new) \in Nat /\ \A i \in 1 .. Len(new) : new[i] \in Flows
  OBVIOUS
<1>1. P(0)
  <2> DEFINE f == [i \in 0 .. 0 |-> r]
  <2>1. f \in [0 .. 0 -> Requests] /\ f[0] = r /\ \A i \in 1 .. 0 : f[i] = added(f[i - 1], new[i])
    OBVIOUS
  <2> QED BY <2>1, Zenon
<1>2. ASSUME NEW k \in 0 .. Len(new) - 1, P(k) PROVE P(k + 1)
  <2>1. PICK f \in [0 .. k -> Requests] : f[0] = r /\ \A i \in 1 .. k : f[i] = added(f[i - 1], new[i])
    BY <1>2, Zenon
  <2> DEFINE x == added(f[k], new[k + 1])
             g == [i \in 0 .. k + 1 |-> IF i = k + 1 THEN x ELSE f[i]]
  <2>2. k \in Nat /\ k + 1 \in 1 .. Len(new) /\ new[k + 1] \in Flows /\ f[k] \in Requests
    BY <1>0
  <2>3. x \in Requests
    BY <2>2, Added, Zenon
  <2> HIDE DEF x
  <2>4. g \in [0 .. k + 1 -> Requests]
    BY <2>2, <2>3
  <2>5. g[0] = r
    BY <2>1, <2>2
  <2>6. \A i \in 1 .. k + 1 : g[i] = added(g[i - 1], new[i])
    <3>1. g[k + 1] = x /\ \A i \in 0 .. k : g[i] = f[i]
      BY <2>2
    <3> HIDE DEF g
    <3>2. k \in 0 .. k /\ (k + 1) - 1 = k /\ \A i \in 1 .. k : i \in 0 .. k /\ i - 1 \in 0 .. k
      BY <2>2
    <3>3. \A i \in 1 .. k : g[i] = added(g[i - 1], new[i])
      BY <2>1, <3>1, <3>2, Zenon
    <3>4. g[k + 1] = added(g[(k + 1) - 1], new[k + 1])
      BY <3>1, <3>2 DEF x
    <3>5. \A i \in 1 .. k + 1 : i = k + 1 \/ i \in 1 .. k
      BY <2>2
    <3> QED BY <3>3, <3>4, <3>5, Zenon
  <2> QED BY <2>4, <2>5, <2>6, Zenon
<1> HIDE DEF P
<1>3. T = {}
  <2> SUFFICES ASSUME T # {} PROVE FALSE
    OBVIOUS
  <2>1. T \in SUBSET Nat
    BY <1>0
  <2>2. PICK n \in T : \A m \in T : n <= m
    BY <2>1, Least, Zenon
  <2>3. n \in 1 .. Len(new) /\ ~P(n)
    BY <1>0, <1>1, <2>2
  <2>4. n - 1 \in 0 .. Len(new) - 1 /\ n - 1 \notin T
    BY <1>0, <2>2, <2>3
  <2>5. P(n - 1) /\ (n - 1) + 1 = n
    BY <1>0, <2>3, <2>4
  <2> QED BY <1>2, <2>3, <2>4, <2>5
<1>4. P(Len(new))
  BY <1>0, <1>3
<1>5. PICK f \in [0 .. Len(new) -> Requests] : f[0] = r /\ \A i \in 1 .. Len(new) : f[i] = added(f[i - 1], new[i])
  BY <1>4 DEF P
<1>6. f = [i \in 0 .. Len(new) |-> IF i = 0 THEN r ELSE added(f[i - 1], new[i])]
  BY <1>0, <1>5
<1> QED BY <1>6, Zenon DEF Adds

\* What process_new_requests does to the requests, flow by flow
LEMMA NewRequests ==
  ASSUME Counting, NEW p \in Partitions, requests \in Requests, q_new_demands[p] \in Seq(Flows)
  PROVE  \E f : /\ \A k \in 0 .. Len(q_new_demands[p]) : f[k] \in Requests
                /\ f[0] = requests
                /\ \A k \in 1 .. Len(q_new_demands[p]) : f[k] = added(f[k - 1], q_new_demands[p][k])
                /\ with_new_requests(p) = f[Len(q_new_demands[p])]
<1> DEFINE new == q_new_demands[p]
           f == CHOOSE g : Adds(g, requests, new)
           T == {k \in 0 .. Len(new) : f[k] \notin Requests}
<1>1. Adds(f, requests, new)
  BY AddsExists, Zenon
<1>2. with_new_requests(p) = f[Len(new)]
  BY Zenon DEF with_new_requests, Adds, added
<1> HIDE DEF f
<1>0. Len(new) \in Nat /\ \A i \in 1 .. Len(new) : new[i] \in Flows
  OBVIOUS
<1> HIDE DEF new
<1>3. f[0] = requests /\ \A i \in 1 .. Len(new) : f[i] = added(f[i - 1], new[i])
  BY <1>0, <1>1, SMTT(30) DEF Adds
<1>4. T = {}
  <2> SUFFICES ASSUME T # {} PROVE FALSE
    OBVIOUS
  <2>1. T \in SUBSET Nat
    BY <1>0
  <2>2. PICK n \in T : \A m \in T : n <= m
    BY <2>1, Least, Zenon
  <2>3. n \in 0 .. Len(new) /\ f[n] \notin Requests
    BY <2>2
  <2>4. n # 0
    BY <1>3, <2>3
  <2>5. n \in 1 .. Len(new) /\ n - 1 \in 0 .. Len(new) /\ n - 1 \notin T
    BY <1>0, <2>2, <2>3, <2>4
  <2>6. f[n - 1] \in Requests /\ new[n] \in Flows
    BY <1>0, <2>5
  <2>7. f[n] = added(f[n - 1], new[n])
    BY <1>3, <2>5, Zenon
  <2>8. added(f[n - 1], new[n]) \in Requests
    BY <2>6, Added, Zenon
  <2> QED BY <2>3, <2>7, <2>8
<1>5. \A k \in 0 .. Len(new) : f[k] \in Requests
  BY <1>4, Zenon
<1> QED BY <1>2, <1>3, <1>5, Zenon DEF new

-----------------------------------------------------------------------------
(* Types.                                                                  *)

LEMMA InitTypes == Counting /\ Init => PimTypeOK
<1> SUFFICES ASSUME Counting, Init PROVE PimTypeOK
  OBVIOUS
<1>1. PhaseTypeOK
  BY Sizes DEF Init, InitCores, PhaseTypeOK
<1>2. EdgeTypeOK
  <2>1. \A s \in Nodes : requests[s] = <<>> /\ grants[s] = {} /\ grants_by_dst[s] = {}
    BY Zenon DEF Init, InitCores
  <2>2. Legal(requests)
    BY <2>1 DEF Legal
  <2>3. requests \in [Nodes -> Seq(Nodes)] /\ grant_adj_index \in [Nodes -> Nat]
        /\ grants \in [Nodes -> SUBSET Nodes] /\ grants_by_dst \in [Nodes -> SUBSET Nodes]
        /\ admitted \in [Partitions -> SUBSET Flows] /\ q_admitted_out \in [Partitions -> Seq(SUBSET Flows)]
    BY DEF Init, InitCores
  <2>4. \A p \in Partitions : admitted[p] = {} /\ q_admitted_out[p] = <<>>
    BY Zenon DEF Init, InitCores
  <2>5. \A p \in Partitions : admitted[p] \subseteq FlowsOf(p) /\ q_admitted_out[p] \in Seq(SUBSET FlowsOf(p))
    <3>1. \A S : <<>> \in Seq(S)
      OBVIOUS
    <3> QED BY <2>4, <3>1, Zenon
  <2>6. accepts = {} /\ src_endnodes = {} /\ dst_endnodes = {}
    BY Zenon DEF Init, InitCores
  <2> QED BY <2>1, <2>2, <2>3, <2>5, <2>6, Zenon DEF EdgeTypeOK
<1>3. DemandTypeOK
  BY DEF Init, DemandTypeOK
<1> QED BY <1>1, <1>2, <1>3 DEF PimTypeOK

\* Source s of core p grants nothing, or the request that its index says: later than
\* in the first iteration only if both ends are free.
Grants(p, s) ==
    \/ grants'[s] = {} /\ grant_adj_index'[s] = grant_adj_index[s]
    \/ \E i \in DOMAIN requests[s] :
         /\ grants'[s] = {requests[s][i]} /\ grant_adj_index'[s] = i
         /\ iteration[p] > 1 => requests[s][i] \notin dst_endnodes /\ s \notin src_endnodes

LEMMA GrantFacts ==
  ASSUME PimTypeOK, NEW p \in Partitions, pim_do_grant(p)
  PROVE  /\ grants' = [s \in Nodes |-> grants'[s]] /\ grant_adj_index' = [s \in Nodes |-> grant_adj_index'[s]]
         /\ \A s \in NodesOf(p) : Grants(p, s)
         /\ \A s \in Nodes \ NodesOf(p) : grants'[s] = grants[s] /\ grant_adj_index'[s] = grant_adj_index[s]
<1>1. PICK draw \in [NodesOf(p) -> 0 .. Cardinality(Nodes)] :
         /\ \A s \in NodesOf(p) : draw[s] \in may_grant(p, s)
         /\ grants' = [s \in Nodes |-> IF s \notin NodesOf(p) THEN grants[s]
                                       ELSE {requests[s][i] : i \in {draw[s]} \ {0}}]
         /\ grant_adj_index' = [s \in Nodes |-> IF s \in NodesOf(p) /\ draw[s] # 0
                                                THEN draw[s] ELSE grant_adj_index[s]]
  BY Zenon DEF pim_do_grant
<1>2. NodesOf(p) \subseteq Nodes
  BY DEF NodesOf
<1>3. ASSUME NEW s \in NodesOf(p) PROVE Grants(p, s)
  <2>1. grants'[s] = {requests[s][i] : i \in {draw[s]} \ {0}}
        /\ grant_adj_index'[s] = IF draw[s] # 0 THEN draw[s] ELSE grant_adj_index[s]
    BY <1>1, <1>2, <1>3, Zenon
  <2>2. CASE draw[s] = 0
    BY <2>1, <2>2, Zenon DEF Grants
  <2>3. CASE draw[s] # 0
    <3>1. draw[s] \in may_grant(p, s)
      BY <1>1, <1>3, Zenon
    <3>2. iteration[p] \in Nat /\ (iteration[p] = 1 \/ iteration[p] > 1) /\ ~(iteration[p] = 1 /\ iteration[p] > 1)
      BY Sizes DEF PimTypeOK, PhaseTypeOK
    <3> DEFINE all == DOMAIN requests[s]
               free == {i \in all : requests[s][i] \notin dst_endnodes}
    <3>3. all # {}
      <4> SUFFICES ASSUME all = {} PROVE FALSE
        OBVIOUS
      <4>1. may_grant(p, s) = {0}
        BY Zenon DEF may_grant
      <4> QED BY <2>3, <3>1, <4>1
    <3>4. CASE iteration[p] = 1
      <4>1. may_grant(p, s) = all
        BY <3>2, <3>3, <3>4, Zenon DEF may_grant
      <4>2. draw[s] \in all /\ ~(iteration[p] > 1)
        BY <3>1, <3>2, <3>4, <4>1, Zenon
      <4>3. grants'[s] = {requests[s][draw[s]]} /\ grant_adj_index'[s] = draw[s]
        BY <2>1, <2>3, Zenon
      <4> QED BY <4>2, <4>3, Zenon DEF Grants
    <3>5. CASE iteration[p] > 1
      <4>1. may_grant(p, s) = IF s \in src_endnodes THEN {0} ELSE free \cup (IF free = all THEN {} ELSE {0})
        BY <3>2, <3>3, <3>5, Zenon DEF may_grant
      <4>2. s \notin src_endnodes /\ draw[s] \in free
        BY <2>3, <3>1, <4>1
      <4>3. grants'[s] = {requests[s][draw[s]]} /\ grant_adj_index'[s] = draw[s]
        BY <2>1, <2>3, Zenon
      <4> QED BY <4>2, <4>3, Zenon DEF Grants
    <3> QED BY <3>2, <3>4, <3>5
  <2> QED BY <2>2, <2>3
<1>4. grants' = [s \in Nodes |-> grants'[s]]
  BY <1>1, Zenon
<1>5. grant_adj_index' = [s \in Nodes |-> grant_adj_index'[s]]
  BY <1>1, Zenon
<1>6. \A s \in Nodes \ NodesOf(p) : grants'[s] = grants[s] /\ grant_adj_index'[s] = grant_adj_index[s]
  BY <1>1, Zenon
<1> QED BY <1>3, <1>4, <1>5, <1>6, Zenon

\* Core p accepts one granting source for each of its granted destinations.
Accepts(p, new) ==
    /\ accepts' = accepts \cup new
    /\ new \subseteq Flows
    /\ \A f \in new : f[2] \in NodesOf(p) /\ f[1] \in grants_by_dst[f[2]] /\ f[2] \in dst_endnodes'
    /\ \A f, g \in new : f[2] = g[2] => f = g

LEMMA AcceptFacts ==
  ASSUME PimTypeOK, NEW p \in Partitions, pim_do_accept(p)
  PROVE  /\ \E new : Accepts(p, new)
         /\ dst_endnodes' = dst_endnodes \cup {d \in NodesOf(p) : grants_by_dst[d] # {}}
<1> DEFINE chosen == {d \in NodesOf(p) : grants_by_dst[d] # {}}
<1>1. dst_endnodes' = dst_endnodes \cup chosen
  BY Zenon DEF pim_do_accept
<1>2. PICK src \in [chosen -> Nodes] :
         /\ \A d \in chosen : src[d] \in grants_by_dst[d]
         /\ accepts' = accepts \cup {<<src[d], d>> : d \in chosen}
  BY Zenon DEF pim_do_accept
<1> DEFINE new == {<<src[d], d>> : d \in chosen}
<1>3. \A d \in chosen : d \in NodesOf(p) /\ d \in Nodes /\ src[d] \in grants_by_dst[d] /\ <<src[d], d>> \in Flows
  <2>1. \A d \in chosen : d \in NodesOf(p) /\ d \in Nodes
    BY DEF NodesOf
  <2> QED BY <1>2, <2>1, Zenon DEF PimTypeOK, EdgeTypeOK
<1>4. chosen \subseteq dst_endnodes'
  BY <1>1, Zenon
<1> HIDE DEF chosen
<1>5. ASSUME NEW f \in new
      PROVE  f \in Flows /\ f[2] \in NodesOf(p) /\ f[1] \in grants_by_dst[f[2]] /\ f[2] \in dst_endnodes'
  <2>1. PICK d \in chosen : f = <<src[d], d>>
    BY <1>5, Zenon
  <2>2. f[1] = src[d] /\ f[2] = d
    BY <2>1
  <2> QED BY <1>3, <1>4, <2>1, <2>2, Zenon
<1>6. ASSUME NEW f \in new, NEW g \in new, f[2] = g[2] PROVE f = g
  <2>1. PICK d \in chosen : f = <<src[d], d>>
    BY <1>6, Zenon
  <2>2. PICK e \in chosen : g = <<src[e], e>>
    BY <1>6, Zenon
  <2>3. f[2] = d /\ g[2] = e
    BY <2>1, <2>2
  <2> QED BY <1>6, <2>1, <2>2, <2>3
<1>7. accepts' = accepts \cup new
  BY <1>2, Zenon
<1> HIDE DEF new
<1>8. Accepts(p, new)
  BY <1>5, <1>6, <1>7, Zenon DEF Accepts
<1> QED BY <1>1, <1>8, Zenon DEF chosen

LEMMA TypesInductive == PimTypeOK /\ [Next]_vars => PimTypeOK'
<1>AddedLegal. ASSUME NEW r \in Requests, NEW f \in Flows, Legal(r)
    PROVE  Legal(added(r, f))
  <2> USE <1>AddedLegal
  <2> SUFFICES ASSUME NEW s \in Nodes, NEW i \in DOMAIN added(r, f)[s]
               PROVE  <<s, added(r, f)[s][i]>> \in Flows
    BY Zenon DEF Legal
  <2>1. added(r, f)[s] = IF s = f[1] THEN Append(r[s], f[2]) ELSE r[s]
    BY Added
  <2>2. r[s] \in Seq(Nodes) /\ f = <<f[1], f[2]>> /\ f[2] \in Nodes
    BY FlowFacts DEF Requests
  <2>3. CASE s # f[1]
    BY <2>1, <2>3, Zenon DEF Legal
  <2>4. CASE s = f[1]
    <3>1. added(r, f)[s] = Append(r[s], f[2])
      BY <2>1, <2>4
    <3>2. (i \in DOMAIN r[s] /\ Append(r[s], f[2])[i] = r[s][i]) \/ Append(r[s], f[2])[i] = f[2]
      BY <2>2, <3>1
    <3>3. CASE Append(r[s], f[2])[i] = f[2]
      BY <2>2, <2>4, <3>1, <3>3, Zenon
    <3>4. CASE i \in DOMAIN r[s] /\ Append(r[s], f[2])[i] = r[s][i]
      BY <3>1, <3>4, Zenon DEF Legal
    <3> QED BY <3>2, <3>3, <3>4, Zenon
  <2> QED BY <2>3, <2>4
<1>NewRequestsType. ASSUME Counting, NEW p \in Partitions, requests \in Requests, q_new_demands[p] \in Seq(Flows), Legal(requests)
    PROVE  with_new_requests(p) \in Requests /\ Legal(with_new_requests(p))
  <2> USE <1>NewRequestsType
  <2> DEFINE new == q_new_demands[p]
  <2>1. PICK f : /\ \A k \in 0 .. Len(new) : f[k] \in Requests
                 /\ f[0] = requests
                 /\ \A k \in 1 .. Len(new) : f[k] = added(f[k - 1], new[k])
                 /\ with_new_requests(p) = f[Len(new)]
    BY NewRequests, Zenon
  <2>0. Len(new) \in Nat /\ \A i \in 1 .. Len(new) : new[i] \in Flows
    OBVIOUS
  <2> HIDE DEF new
  <2> DEFINE T == {k \in 0 .. Len(new) : ~Legal(f[k])}
  <2>4. T = {}
    <3> SUFFICES ASSUME T # {} PROVE FALSE
      OBVIOUS
    <3>1. T \in SUBSET Nat
      BY <2>0
    <3>2. PICK n \in T : \A m \in T : n <= m
      BY <3>1, Least, Zenon
    <3>3. n \in 0 .. Len(new) /\ ~Legal(f[n])
      BY <3>2, Zenon
    <3>4. n # 0
      BY <2>1, <3>3
    <3>5. n \in 1 .. Len(new) /\ n - 1 \in 0 .. Len(new) /\ n - 1 \notin T
      BY <2>0, <3>2, <3>3, <3>4
    <3>6. f[n - 1] \in Requests /\ new[n] \in Flows /\ Legal(f[n - 1])
      BY <2>0, <2>1, <3>5
    <3> QED BY <2>1, <3>3, <3>5, <3>6, <1>AddedLegal, Zenon
  <2>5. Len(new) \in 0 .. Len(new)
    BY <2>0
  <2> QED BY <2>1, <2>4, <2>5, Zenon
<1>WithoutNeigh. ASSUME NEW s \in Nodes, NEW dsts \in Seq(Nodes), NEW i \in Nat, \A j \in DOMAIN dsts : <<s, dsts[j]>> \in Flows
    PROVE  without_neigh(dsts, i) \in Seq(Nodes) /\ \A j \in DOMAIN without_neigh(dsts, i) : <<s, without_neigh(dsts, i)[j]>> \in Flows
  <2> USE <1>WithoutNeigh
  <2> DEFINE n == Len(dsts)
             w == without_neigh(dsts, i)
             at(j) == IF j = i THEN n ELSE j
  <2>1. n \in Nat /\ DOMAIN dsts = 1 .. n /\ \A j \in 1 .. n : dsts[j] \in Nodes
    OBVIOUS
  <2>2. w = [j \in 1 .. n - 1 |-> dsts[at(j)]]
    BY DEF without_neigh
  <2>3. \A j \in 1 .. n - 1 : at(j) \in 1 .. n
    BY <2>1
  <2> HIDE DEF at, n
  <2>4. w \in [1 .. n - 1 -> Nodes] /\ DOMAIN w = 1 .. n - 1
    BY <2>1, <2>2, <2>3, Zenon
  <2> HIDE DEF w
  <2>5. w \in Seq(Nodes)
    <3>1. PICK m \in Nat : 1 .. n - 1 = 1 .. m
      <4>1. n = 0 => 1 .. n - 1 = 1 .. 0
        OBVIOUS
      <4>2. n # 0 => n - 1 \in Nat
        BY <2>1
      <4> QED BY <4>1, <4>2
    <3>2. w \in [1 .. m -> Nodes]
      BY <2>4, <3>1, Zenon
    <3> QED BY <3>2
  <2>6. \A j \in 1 .. n - 1 : w[j] = dsts[at(j)]
    BY <2>2, Zenon
  <2>7. \A j \in 1 .. n - 1 : <<s, w[j]>> \in Flows
    BY <2>1, <2>3, <2>6, Zenon
  <2> QED BY <2>4, <2>5, <2>7, Zenon DEF w
<1>ProcessAcceptsType. ASSUME PimTypeOK, NEW p \in Partitions, NEW q, NEW acc \in SUBSET Flows, process_accepts_from(p, q, acc)
    PROVE  /\ backlog' \in [Flows -> Int]
           /\ requests' \in Requests /\ Legal(requests')
           /\ src_endnodes' \subseteq Nodes
           /\ admitted' \in [Partitions -> SUBSET Flows]
           /\ \A r \in Partitions : admitted'[r] \subseteq FlowsOf(r)
  <2> USE <1>ProcessAcceptsType
  <2> DEFINE E == {f \in acc : PARTITION_OF(f[1]) = p /\ PARTITION_OF(f[2]) = q}
  <2>1. /\ admitted' = [admitted EXCEPT ![p] = @ \cup E]
        /\ src_endnodes' = src_endnodes \cup {f[1] : f \in E}
        /\ backlog' = [f \in Flows |-> IF f \in E THEN backlog[f] - 1 ELSE backlog[f]]
        /\ requests' = [s \in Nodes |-> served(E, s)]
    BY Zenon DEF process_accepts_from
  <2>2. E \subseteq FlowsOf(p) /\ E \subseteq Flows
    BY DEF FlowsOf
  <2>3. {f[1] : f \in E} \subseteq Nodes
    BY <2>2, FlowFacts, Zenon
  <2> HIDE DEF E
  <2>4. backlog' \in [Flows -> Int]
    <3>1. backlog \in [Flows -> Int]
      BY DEF PimTypeOK, DemandTypeOK
    <3>2. \A f \in Flows : (IF f \in E THEN backlog[f] - 1 ELSE backlog[f]) \in Int
      BY <3>1
    <3> QED BY <2>1, <3>2, Zenon
  <2>5. \A s \in Nodes : served(E, s) \in Seq(Nodes) /\ \A i \in DOMAIN served(E, s) : <<s, served(E, s)[i]>> \in Flows
    <3> TAKE s \in Nodes
    <3>1. requests[s] \in Seq(Nodes) /\ grant_adj_index[s] \in Nat /\ \A i \in DOMAIN requests[s] : <<s, requests[s][i]>> \in Flows
      BY Zenon DEF PimTypeOK, EdgeTypeOK, Legal
    <3>2. served(E, s) = without_neigh(requests[s], grant_adj_index[s]) \/ served(E, s) = requests[s]
      BY Zenon DEF served
    <3>3. without_neigh(requests[s], grant_adj_index[s]) \in Seq(Nodes)
          /\ \A j \in DOMAIN without_neigh(requests[s], grant_adj_index[s]) : <<s, without_neigh(requests[s], grant_adj_index[s])[j]>> \in Flows
      BY <3>1, <1>WithoutNeigh, Zenon
    <3> QED BY <3>1, <3>2, <3>3, Zenon
  <2>6. requests' \in Requests /\ Legal(requests')
    BY <2>1, <2>5, Zenon DEF Requests, Legal
  <2>7. src_endnodes' \subseteq Nodes
    BY <2>1, <2>3, Zenon DEF PimTypeOK, EdgeTypeOK
  <2>8. admitted' \in [Partitions -> SUBSET Flows] /\ \A r \in Partitions : admitted'[r] \subseteq FlowsOf(r)
    BY <2>1, <2>2, Zenon DEF PimTypeOK, EdgeTypeOK
  <2> QED BY <2>4, <2>6, <2>7, <2>8
<1>AddBacklogTypes. ASSUME PimTypeOK, NEW f \in Flows, NEW amount \in 1 .. MAX_DEMAND, pim_add_backlog(f, amount)
    PROVE  PimTypeOK'
  <2> USE <1>AddBacklogTypes
  <2> DEFINE p == PARTITION_OF(f[1])
             bin == IF backlog[f] = 0 THEN Append(new_demands[p], f) ELSE new_demands[p]
             full == backlog[f] = 0 /\ Len(bin) = SMALL_BIN_SIZE
  <2>1. /\ backlog' = [backlog EXCEPT ![f] = @ + amount]
        /\ asked' = [asked EXCEPT ![f] = @ + amount]
        /\ new_demands' = [new_demands EXCEPT ![p] = IF full THEN <<>> ELSE bin]
        /\ q_new_demands' = IF full THEN [q_new_demands EXCEPT ![p] = @ \o bin] ELSE q_new_demands
        /\ UNCHANGED <<edges, phases>>
    BY Zenon DEF pim_add_backlog
  <2>2. p \in Partitions /\ f \in FlowsOf(p)
    BY FlowFacts, NodeFacts, Zenon DEF FlowsOf
  <2>3. /\ new_demands \in [Partitions -> Seq(Flows)] /\ new_demands[p] \in Seq(FlowsOf(p))
        /\ q_new_demands \in [Partitions -> Seq(Flows)] /\ q_new_demands[p] \in Seq(FlowsOf(p))
        /\ \A r \in Partitions : new_demands[r] \in Seq(FlowsOf(r)) /\ q_new_demands[r] \in Seq(FlowsOf(r))
    BY <2>2, Zenon DEF PimTypeOK, DemandTypeOK
  <2> HIDE DEF p
  <2>4. bin \in Seq(FlowsOf(p)) /\ q_new_demands[p] \o bin \in Seq(FlowsOf(p)) /\ <<>> \in Seq(FlowsOf(p))
    BY <2>2, <2>3
  <2>5. \A t \in Seq(FlowsOf(p)) : t \in Seq(Flows)
    BY DEF FlowsOf
  <2>6. PICK a \in Seq(FlowsOf(p)), b \in Seq(FlowsOf(p)) :
          new_demands' = [new_demands EXCEPT ![p] = a] /\ q_new_demands' = [q_new_demands EXCEPT ![p] = b]
    <3>1. q_new_demands = [q_new_demands EXCEPT ![p] = q_new_demands[p]]
      BY <2>2, <2>3
    <3>2. CASE full
      BY <2>1, <2>4, <3>2, Zenon
    <3>3. CASE ~full
      <4>1. new_demands' = [new_demands EXCEPT ![p] = bin] /\ q_new_demands' = q_new_demands
        BY <2>1, <3>3, Zenon
      <4> HIDE DEF bin
      <4> QED BY <2>3, <2>4, <3>1, <4>1, Zenon
    <3> QED BY <3>2, <3>3
  <2>7. a \in Seq(Flows) /\ b \in Seq(Flows)
    BY <2>5, <2>6
  <2>8. new_demands' \in [Partitions -> Seq(Flows)] /\ q_new_demands' \in [Partitions -> Seq(Flows)]
        /\ \A r \in Partitions : new_demands'[r] \in Seq(FlowsOf(r)) /\ q_new_demands'[r] \in Seq(FlowsOf(r))
    BY <2>2, <2>3, <2>6, <2>7, Zenon
  <2>9. backlog' \in [Flows -> Int] /\ asked' \in [Flows -> Nat]
    <3>1. backlog \in [Flows -> Int] /\ asked \in [Flows -> Nat]
      BY Zenon DEF PimTypeOK, DemandTypeOK
    <3>2. backlog' = [backlog EXCEPT ![f] = @ + amount] /\ asked' = [asked EXCEPT ![f] = @ + amount]
      BY <2>1, Zenon
    <3> QED BY <3>1, <3>2, Sizes
  <2>10. DemandTypeOK'
    BY <2>8, <2>9, Zenon DEF DemandTypeOK
  <2>11. EdgeTypeOK' /\ PhaseTypeOK'
    BY <2>1, Zenon DEF PimTypeOK, EdgeTypeOK, PhaseTypeOK, edges, phases, Legal
  <2> QED BY <2>10, <2>11 DEF PimTypeOK
<1>FlushTypes. ASSUME PimTypeOK, pim_flush_backlog
    PROVE  PimTypeOK'
  <2> USE <1>FlushTypes
  <2>1. /\ q_new_demands' = [p \in Partitions |-> q_new_demands[p] \o new_demands[p]]
        /\ new_demands' = [p \in Partitions |-> <<>>]
        /\ UNCHANGED <<backlog, asked, edges, phases>>
    BY Zenon DEF pim_flush_backlog
  <2>2. \A p \in Partitions : q_new_demands[p] \o new_demands[p] \in Seq(FlowsOf(p)) /\ q_new_demands[p] \o new_demands[p] \in Seq(Flows)
        /\ <<>> \in Seq(FlowsOf(p)) /\ <<>> \in Seq(Flows)
    <3>1. \A S : \A a, b \in Seq(S) : a \o b \in Seq(S) /\ <<>> \in Seq(S)
      OBVIOUS
    <3> QED BY <3>1, Zenon DEF PimTypeOK, DemandTypeOK
  <2>3. DemandTypeOK'
    BY <2>1, <2>2, Zenon DEF PimTypeOK, DemandTypeOK
  <2>4. EdgeTypeOK' /\ PhaseTypeOK'
    BY <2>1, Zenon DEF PimTypeOK, EdgeTypeOK, PhaseTypeOK, edges, phases, Legal
  <2> QED BY <2>3, <2>4 DEF PimTypeOK
<1>ProcessNewType. ASSUME PimTypeOK, NEW p \in Partitions, process_new_requests(p)
    PROVE  DemandTypeOK' /\ requests' \in Requests /\ Legal(requests')
  <2> USE <1>ProcessNewType
  <2>1. requests \in Requests /\ Legal(requests) /\ q_new_demands[p] \in Seq(Flows)
    BY Zenon DEF PimTypeOK, EdgeTypeOK, DemandTypeOK, Requests
  <2>2. requests' = with_new_requests(p) /\ q_new_demands' = [q_new_demands EXCEPT ![p] = <<>>]
        /\ UNCHANGED <<backlog, asked, new_demands>>
    BY Zenon DEF process_new_requests
  <2>3. requests' \in Requests /\ Legal(requests')
    <3>1. with_new_requests(p) \in Requests /\ Legal(with_new_requests(p))
      BY <2>1, <1>NewRequestsType DEF PimTypeOK
    <3> QED BY <2>2, <3>1, Zenon
  <2>4. <<>> \in Seq(Flows) /\ <<>> \in Seq(FlowsOf(p))
    OBVIOUS
  <2>5. DemandTypeOK'
    BY <2>2, <2>4, Zenon DEF PimTypeOK, DemandTypeOK
  <2> QED BY <2>3, <2>5
<1>PhaseFinishedTypes. ASSUME PimTypeOK, NEW p \in Partitions, NEW next \in {"accept", "process"}, phase_finished(p, next), UNCHANGED iteration
    PROVE  PhaseTypeOK'
  <2> USE <1>PhaseFinishedTypes
  <2>1. \A x \in Nat : (x + 1) % PHASES \in Nat
    BY Sizes
  <2>2. 1 \in 1 .. N_PARTITIONS
    BY Sizes
  <2>3. phase' \in [Partitions -> Nat]
    BY <2>1, Zenon DEF PimTypeOK, PhaseTypeOK, phase_finished
  <2> QED BY <2>2, <2>3, Zenon DEF PimTypeOK, PhaseTypeOK, phase_finished
<1>HearTypes. ASSUME PimTypeOK, NEW p \in Partitions, hear(p), heard[p] < N_PARTITIONS
    PROVE  PhaseTypeOK' /\ finished(p) \in Partitions
  <2> USE <1>HearTypes
  <2>1. q_ready[p] \in Seq(Nat \X Partitions) /\ q_ready[p] # <<>> /\ heard[p] \in 1 .. N_PARTITIONS
    BY Zenon DEF PimTypeOK, PhaseTypeOK, hear, is_finished
  <2>2. Tail(q_ready[p]) \in Seq(Nat \X Partitions) /\ Head(q_ready[p]) \in Nat \X Partitions
    BY <2>1
  <2>3. heard[p] + 1 \in 1 .. N_PARTITIONS
    BY <2>1, Sizes
  <2>4. finished(p) \in Partitions
    BY <2>2 DEF finished
  <2>5. PhaseTypeOK'
    BY <2>2, <2>3, Zenon DEF PimTypeOK, PhaseTypeOK, hear
  <2> QED BY <2>4, <2>5
<1>EnqueueTypes. ASSUME PimTypeOK, NEW p \in Partitions, enqueue_ready(p)
    PROVE  PimTypeOK'
  <2> USE <1>EnqueueTypes
  <2> DEFINE to == (p + told[p]) % N_PARTITIONS
  <2>1. told[p] \in 1 .. N_PARTITIONS /\ told[p] < N_PARTITIONS /\ phase[p] \in Nat
    BY Zenon DEF PimTypeOK, PhaseTypeOK, enqueue_ready
  <2>2. to \in Partitions /\ told[p] + 1 \in 1 .. N_PARTITIONS
    BY <2>1, Sizes DEF Partitions
  <2>3. q_ready[to] \in Seq(Nat \X Partitions) /\ <<phase[p], p>> \in Nat \X Partitions
    BY <2>1, <2>2 DEF PimTypeOK, PhaseTypeOK
  <2>4. Append(q_ready[to], <<phase[p], p>>) \in Seq(Nat \X Partitions)
    BY <2>3
  <2>5. /\ told' = [told EXCEPT ![p] = @ + 1]
        /\ q_ready' = [q_ready EXCEPT ![to] = Append(@, <<phase[p], p>>)]
        /\ UNCHANGED <<demands, edges, stage, iteration, phase, heard>>
    BY Zenon DEF enqueue_ready
  <2> HIDE DEF to
  <2>6. PhaseTypeOK'
    BY <2>2, <2>4, <2>5, Zenon DEF PimTypeOK, PhaseTypeOK
  <2>7. EdgeTypeOK' /\ DemandTypeOK'
    BY <2>5, Zenon DEF PimTypeOK, EdgeTypeOK, DemandTypeOK, edges, demands, Legal
  <2> QED BY <2>6, <2>7 DEF PimTypeOK
<1>PollTypes. ASSUME PimTypeOK, NEW p \in Partitions, poll(p)
    PROVE  PimTypeOK'
  <2> USE <1>PollTypes
  <2>1. DemandTypeOK' /\ requests' \in Requests /\ Legal(requests')
    BY <1>ProcessNewType, Zenon DEF poll
  <2>2. q_ready[p] \in Seq(Nat \X Partitions)
    BY Zenon DEF PimTypeOK, PhaseTypeOK
  <2>3. q_ready[p] # <<>> => Append(Tail(q_ready[p]), Head(q_ready[p])) \in Seq(Nat \X Partitions)
    BY <2>2, ElementsRotate, Zenon
  <2>4. q_ready' = (IF q_ready[p] = <<>> THEN q_ready ELSE [q_ready EXCEPT ![p] = Append(Tail(@), Head(@))])
        /\ UNCHANGED <<grant_adj_index, grants, grants_by_dst, accepts, src_endnodes,
                     dst_endnodes, admitted, q_admitted_out, stage, iteration, phase, told, heard>>
    BY Zenon DEF poll
  <2>5. q_ready' \in [Partitions -> Seq(Nat \X Partitions)]
    <3>1. CASE q_ready[p] = <<>>
      BY <2>4, <3>1, Zenon DEF PimTypeOK, PhaseTypeOK
    <3>2. CASE q_ready[p] # <<>>
      BY <2>3, <2>4, <3>2, Zenon DEF PimTypeOK, PhaseTypeOK
    <3> QED BY <3>1, <3>2
  <2>6. PhaseTypeOK'
    BY <2>4, <2>5, Zenon DEF PimTypeOK, PhaseTypeOK
  <2>7. EdgeTypeOK'
    BY <2>1, <2>4, Zenon DEF PimTypeOK, EdgeTypeOK, Requests
  <2> QED BY <2>1, <2>6, <2>7 DEF PimTypeOK
<1>PrepareTypes. ASSUME PimTypeOK, NEW p \in Partitions, pim_prepare(p)
    PROVE  PimTypeOK'
  <2> USE <1>PrepareTypes
  <2>1. DemandTypeOK' /\ requests' \in Requests /\ Legal(requests')
    BY <1>ProcessNewType, Zenon DEF pim_prepare
  <2>2. 1 \in 1 .. NUM_ITERATIONS
    BY Sizes
  <2>3. PhaseTypeOK'
    BY <2>2, Zenon DEF PimTypeOK, PhaseTypeOK, pim_prepare
  <2>4. src_endnodes' \subseteq Nodes /\ dst_endnodes' \subseteq Nodes
    BY DEF PimTypeOK, EdgeTypeOK, pim_prepare
  <2>5. admitted' \in [Partitions -> SUBSET Flows] /\ \A r \in Partitions : admitted'[r] \subseteq FlowsOf(r)
    <3>1. admitted' = [admitted EXCEPT ![p] = {}]
      BY Zenon DEF pim_prepare
    <3> QED BY <3>1, Zenon DEF PimTypeOK, EdgeTypeOK
  <2>6. UNCHANGED <<grant_adj_index, grants, grants_by_dst, accepts, q_admitted_out>>
    BY Zenon DEF pim_prepare
  <2>7. EdgeTypeOK'
    BY <2>1, <2>4, <2>5, <2>6, Zenon DEF PimTypeOK, EdgeTypeOK, Requests
  <2> QED BY <2>1, <2>3, <2>7 DEF PimTypeOK
<1>GrantTypes. ASSUME PimTypeOK, NEW p \in Partitions, pim_do_grant(p)
    PROVE  PimTypeOK'
  <2> USE <1>GrantTypes
  <2>1. /\ grants' = [s \in Nodes |-> grants'[s]] /\ grant_adj_index' = [s \in Nodes |-> grant_adj_index'[s]]
        /\ \A s \in NodesOf(p) : Grants(p, s)
        /\ \A s \in Nodes \ NodesOf(p) : grants'[s] = grants[s] /\ grant_adj_index'[s] = grant_adj_index[s]
    BY GrantFacts, Zenon
  <2>2. ASSUME NEW s \in Nodes
        PROVE  grants'[s] \subseteq Nodes /\ grant_adj_index'[s] \in Nat /\ \A d \in grants'[s] : <<s, d>> \in Flows
    <3>1. CASE s \notin NodesOf(p)
      BY <2>1, <2>2, <3>1, Zenon DEF PimTypeOK, EdgeTypeOK
    <3>2. CASE s \in NodesOf(p) /\ grants'[s] = {} /\ grant_adj_index'[s] = grant_adj_index[s]
      BY <3>2, Zenon DEF PimTypeOK, EdgeTypeOK
    <3>3. ASSUME NEW i \in DOMAIN requests[s], grants'[s] = {requests[s][i]}, grant_adj_index'[s] = i
          PROVE  grants'[s] \subseteq Nodes /\ grant_adj_index'[s] \in Nat /\ \A d \in grants'[s] : <<s, d>> \in Flows
      <4>1. requests[s] \in Seq(Nodes) /\ <<s, requests[s][i]>> \in Flows
        BY <2>2, <3>3, Zenon DEF PimTypeOK, EdgeTypeOK, Legal
      <4>2. i \in Nat /\ requests[s][i] \in Nodes
        BY <3>3, <4>1
      <4> QED BY <3>3, <4>1, <4>2, Zenon
    <3> QED BY <2>1, <3>1, <3>2, <3>3, Zenon DEF Grants
  <2>3. /\ grants_by_dst' = [d \in Nodes |-> IF d \in NodesOf(p) THEN {s \in NodesOf(p) : d \in grants'[s]} ELSE grants_by_dst[d]]
        /\ phase_finished(p, "accept")
        /\ UNCHANGED <<demands, requests, accepts, src_endnodes, dst_endnodes, admitted, q_admitted_out, iteration>>
    BY Zenon DEF pim_do_grant
  <2>4. NodesOf(p) \subseteq Nodes
    BY DEF NodesOf
  <2>5. ASSUME NEW d \in Nodes
        PROVE  grants_by_dst'[d] \subseteq Nodes /\ \A s \in grants_by_dst'[d] : <<s, d>> \in Flows
    <3>1. CASE d \notin NodesOf(p)
      BY <2>3, <2>5, <3>1, Zenon DEF PimTypeOK, EdgeTypeOK
    <3>2. CASE d \in NodesOf(p)
      <4>1. grants_by_dst'[d] = {s \in NodesOf(p) : d \in grants'[s]}
        BY <2>3, <2>5, <3>2, Zenon
      <4> QED BY <2>2, <2>4, <4>1, Zenon
    <3> QED BY <3>1, <3>2
  <2>6. grants' \in [Nodes -> SUBSET Nodes] /\ grant_adj_index' \in [Nodes -> Nat] /\ grants_by_dst' \in [Nodes -> SUBSET Nodes]
    <3>1. grants' \in [Nodes -> SUBSET Nodes]
      BY <2>1, <2>2
    <3>2. grant_adj_index' \in [Nodes -> Nat]
      BY <2>1, <2>2
    <3>3. grants_by_dst' = [d \in Nodes |-> grants_by_dst'[d]]
      BY <2>3, Zenon
    <3>4. grants_by_dst' \in [Nodes -> SUBSET Nodes]
      BY <2>5, <3>3
    <3> QED BY <3>1, <3>2, <3>4
  <2>7. EdgeTypeOK'
    BY <2>2, <2>3, <2>5, <2>6, Zenon DEF PimTypeOK, EdgeTypeOK, Legal
  <2>8. PhaseTypeOK'
    BY <2>3, <1>PhaseFinishedTypes, Zenon
  <2>9. DemandTypeOK'
    BY <2>3, Zenon DEF PimTypeOK, DemandTypeOK, demands
  <2> QED BY <2>7, <2>8, <2>9 DEF PimTypeOK
<1>CollectGrantsTypes. ASSUME PimTypeOK, NEW p \in Partitions, collect_grants(p)
    PROVE  PimTypeOK'
  <2> USE <1>CollectGrantsTypes
  <2>1. /\ hear(p) /\ heard[p] < N_PARTITIONS
        /\ grants_by_dst' = [d \in Nodes |-> IF d \in NodesOf(p) THEN add_edges_by_dst(grants_by_dst[d], finished(p), d) ELSE grants_by_dst[d]]
        /\ UNCHANGED <<demands, requests, grant_adj_index, grants, accepts, src_endnodes, dst_endnodes, admitted, q_admitted_out>>
    BY Zenon DEF collect_grants, waiting
  <2>2. ASSUME NEW d \in Nodes
        PROVE  grants_by_dst'[d] \subseteq Nodes /\ \A s \in grants_by_dst'[d] : <<s, d>> \in Flows
    <3>1. grants_by_dst'[d] = grants_by_dst[d] \/ grants_by_dst'[d] = add_edges_by_dst(grants_by_dst[d], finished(p), d)
      BY <2>1, <2>2, Zenon
    <3>2. grants_by_dst[d] \subseteq Nodes /\ \A s \in grants_by_dst[d] : <<s, d>> \in Flows
      BY <2>2, Zenon DEF PimTypeOK, EdgeTypeOK
    <3>3. add_edges_by_dst(grants_by_dst[d], finished(p), d) \subseteq Nodes
          /\ \A s \in add_edges_by_dst(grants_by_dst[d], finished(p), d) : <<s, d>> \in Flows
      BY <3>2, Zenon DEF add_edges_by_dst, NodesOf, PimTypeOK, EdgeTypeOK
    <3> QED BY <3>1, <3>2, <3>3, Zenon
  <2>3. grants_by_dst' \in [Nodes -> SUBSET Nodes]
    <3>1. grants_by_dst' = [d \in Nodes |-> grants_by_dst'[d]]
      BY <2>1, Zenon
    <3> QED BY <2>2, <3>1
  <2>4. EdgeTypeOK'
    BY <2>1, <2>2, <2>3, Zenon DEF PimTypeOK, EdgeTypeOK, Legal
  <2>5. PhaseTypeOK'
    BY <2>1, <1>HearTypes, Zenon
  <2>6. DemandTypeOK'
    BY <2>1, Zenon DEF PimTypeOK, DemandTypeOK, demands
  <2> QED BY <2>4, <2>5, <2>6 DEF PimTypeOK
<1>DoAcceptTypes. ASSUME PimTypeOK, NEW p \in Partitions, pim_do_accept(p)
    PROVE  PimTypeOK'
  <2> USE <1>DoAcceptTypes
  <2>1. /\ process_accepts_from(p, p, accepts') /\ phase_finished(p, "process")
        /\ UNCHANGED <<grant_adj_index, grants, grants_by_dst, q_admitted_out, iteration>>
    BY Zenon DEF pim_do_accept
  <2>2. PICK acc : acc = accepts'
    OBVIOUS
  <2>3. acc \in SUBSET Flows
    BY <2>2, AcceptFacts, Zenon DEF Accepts, PimTypeOK, EdgeTypeOK
  <2>4. process_accepts_from(p, p, acc)
    BY <2>1, <2>2, Zenon DEF process_accepts_from
  <2>5. /\ backlog' \in [Flows -> Int] /\ requests' \in Requests /\ Legal(requests')
        /\ src_endnodes' \subseteq Nodes /\ admitted' \in [Partitions -> SUBSET Flows]
        /\ \A r \in Partitions : admitted'[r] \subseteq FlowsOf(r)
    BY <2>3, <2>4, <1>ProcessAcceptsType, Zenon
  <2>6. dst_endnodes' \subseteq Nodes
    <3>1. dst_endnodes' = dst_endnodes \cup {d \in NodesOf(p) : grants_by_dst[d] # {}}
      BY AcceptFacts, Zenon
    <3> QED BY <3>1 DEF NodesOf, PimTypeOK, EdgeTypeOK
  <2>7. EdgeTypeOK'
    BY <2>1, <2>2, <2>3, <2>5, <2>6, Zenon DEF PimTypeOK, EdgeTypeOK, Requests
  <2>8. PhaseTypeOK'
    BY <2>1, <1>PhaseFinishedTypes, Zenon
  <2>9. DemandTypeOK'
    BY <2>1, <2>5, Zenon DEF PimTypeOK, DemandTypeOK, process_accepts_from
  <2> QED BY <2>7, <2>8, <2>9 DEF PimTypeOK
<1>CollectAcceptsTypes. ASSUME PimTypeOK, NEW p \in Partitions, collect_accepts(p)
    PROVE  PimTypeOK'
  <2> USE <1>CollectAcceptsTypes
  <2>1. /\ hear(p) /\ heard[p] < N_PARTITIONS
        /\ process_accepts_from(p, finished(p), accepts)
        /\ UNCHANGED <<grant_adj_index, grants, grants_by_dst, accepts, dst_endnodes, q_admitted_out>>
    BY Zenon DEF collect_accepts, waiting
  <2>2. accepts \in SUBSET Flows
    BY DEF PimTypeOK, EdgeTypeOK
  <2>3. /\ backlog' \in [Flows -> Int] /\ requests' \in Requests /\ Legal(requests')
        /\ src_endnodes' \subseteq Nodes /\ admitted' \in [Partitions -> SUBSET Flows]
        /\ \A r \in Partitions : admitted'[r] \subseteq FlowsOf(r)
    BY <2>1, <2>2, <1>ProcessAcceptsType, Zenon
  <2>4. EdgeTypeOK'
    BY <2>1, <2>3, Zenon DEF PimTypeOK, EdgeTypeOK, Requests
  <2>5. PhaseTypeOK'
    BY <2>1, <1>HearTypes, Zenon
  <2>6. DemandTypeOK'
    BY <2>1, <2>3, Zenon DEF PimTypeOK, DemandTypeOK, process_accepts_from
  <2> QED BY <2>4, <2>5, <2>6 DEF PimTypeOK
\* pim_process_accepts ends an iteration, and after the last the timeslot.
<1>ProcessTypes. ASSUME PimTypeOK, NEW p \in Partitions, pim_process_accepts(p)
    PROVE  PimTypeOK'
  <2> USE <1>ProcessTypes
  <2>1. /\ accepts' = {f \in accepts : PARTITION_OF(f[1]) # p}
        /\ UNCHANGED <<demands, requests, grant_adj_index, grants, grants_by_dst,
                       src_endnodes, dst_endnodes, admitted, phase, told, heard, q_ready>>
    BY Zenon DEF pim_process_accepts
  <2>2. CASE iteration[p] < NUM_ITERATIONS
    <3>1. /\ stage' = [stage EXCEPT ![p] = "grant"] /\ iteration' = [iteration EXCEPT ![p] = @ + 1]
          /\ UNCHANGED q_admitted_out
      BY <2>2, Zenon DEF pim_process_accepts
    <3>2. iteration[p] + 1 \in 1 .. NUM_ITERATIONS
      BY <2>2, Sizes DEF PimTypeOK, PhaseTypeOK
    <3>3. PhaseTypeOK'
      BY <2>1, <3>1, <3>2, Zenon DEF PimTypeOK, PhaseTypeOK
    <3>4. EdgeTypeOK'
      BY <2>1, <3>1, Zenon DEF PimTypeOK, EdgeTypeOK, Legal
    <3>5. DemandTypeOK'
      BY <2>1, Zenon DEF PimTypeOK, DemandTypeOK, demands
    <3> QED BY <3>3, <3>4, <3>5 DEF PimTypeOK
  <2>3. CASE ~(iteration[p] < NUM_ITERATIONS)
    <3>1. /\ stage' = [stage EXCEPT ![p] = "prepare"]
          /\ q_admitted_out' = [q_admitted_out EXCEPT ![p] = Append(@, admitted[p])]
          /\ UNCHANGED iteration
      BY <2>3, Zenon DEF pim_process_accepts
    <3>2. PhaseTypeOK'
      BY <2>1, <3>1, Zenon DEF PimTypeOK, PhaseTypeOK
    <3>3. \A S : \A t \in Seq(S), x \in S : Append(t, x) \in Seq(S)
      OBVIOUS
    <3>4. Append(q_admitted_out[p], admitted[p]) \in Seq(SUBSET Flows) /\ Append(q_admitted_out[p], admitted[p]) \in Seq(SUBSET FlowsOf(p))
      BY <3>3, Zenon DEF PimTypeOK, EdgeTypeOK
    <3>5. EdgeTypeOK'
      BY <2>1, <3>1, <3>4, Zenon DEF PimTypeOK, EdgeTypeOK, Legal
    <3>6. DemandTypeOK'
      BY <2>1, Zenon DEF PimTypeOK, DemandTypeOK, demands
    <3> QED BY <3>2, <3>5, <3>6 DEF PimTypeOK
  <2> QED BY <2>2, <2>3
<1> SUFFICES ASSUME PimTypeOK, [Next]_vars PROVE PimTypeOK'
  OBVIOUS
<1>1. CASE Next
  <2>1. CASE \E f \in Flows, amount \in 1 .. MAX_DEMAND : pim_add_backlog(f, amount)
    BY <2>1, <1>AddBacklogTypes, Zenon
  <2>2. CASE pim_flush_backlog
    BY <2>2, <1>FlushTypes, Zenon
  <2>3. ASSUME NEW p \in Partitions, Step(p) PROVE PimTypeOK'
    BY <2>3, <1>EnqueueTypes, <1>PollTypes, <1>PrepareTypes, <1>GrantTypes, <1>CollectGrantsTypes, <1>DoAcceptTypes,
       <1>CollectAcceptsTypes, <1>ProcessTypes, Zenon DEF Step
  <2> QED BY <1>1, <2>1, <2>2, <2>3, Zenon DEF Next
<1>2. CASE UNCHANGED vars
  BY <1>2, Zenon DEF vars, demands, edges, phases, PimTypeOK, PhaseTypeOK, EdgeTypeOK, DemandTypeOK, Legal
<1> QED BY <1>1, <1>2

-----------------------------------------------------------------------------
(* Counting phases.                                                        *)

LEMMA ModFacts ==
  ASSUME NEW m \in Nat \ {0}, NEW x \in Nat
  PROVE  /\ x % m \in 0 .. m - 1 /\ x \div m \in Nat /\ x = m * (x \div m) + (x % m)
  OBVIOUS

LEMMA ModUnique ==
  ASSUME NEW m \in Nat \ {0}, NEW k \in Nat, NEW r \in 0 .. m - 1
  PROVE  (m * k + r) % m = r
<1> DEFINE x == m * k + r
           a == x \div m
           b == x % m
<1>1. x \in Nat
  OBVIOUS
<1>2. b \in 0 .. m - 1 /\ a \in Nat /\ x = m * a + b
  BY <1>1, ModFacts, Zenon
<1>3. m * a + b = m * k + r
  BY <1>2
<1> HIDE DEF a, b
<1>4. ASSUME a > k PROVE FALSE
  <2>1. PICK i \in Nat : a = k + 1 + i
    <3>1. a - (k + 1) \in Nat /\ a = k + 1 + (a - (k + 1))
      BY <1>2, <1>4
    <3> QED BY <3>1
  <2>2. m * a = m * k + m + m * i /\ m * i >= 0
    BY <2>1
  <2> QED BY <1>2, <1>3, <2>2
<1>5. ASSUME a < k PROVE FALSE
  <2>1. PICK i \in Nat : k = a + 1 + i
    <3>1. k - (a + 1) \in Nat /\ k = a + 1 + (k - (a + 1))
      BY <1>2, <1>5
    <3> QED BY <3>1
  <2>2. m * k = m * a + m + m * i /\ m * i >= 0
    BY <1>2, <2>1
  <2> QED BY <1>2, <1>3, <2>2
<1>6. a = k
  BY <1>2, <1>4, <1>5
<1>7. b = r
  BY <1>2, <1>3, <1>6
<1> QED BY <1>7 DEF b

LEMMA PhaseModulo ==
  ASSUME NEW x \in Nat
  PROVE  /\ x % PHASES \in Nat
         /\ (x + 1) % PHASES # x % PHASES
         /\ ((x % PHASES) + 1) % PHASES = (x + 1) % PHASES
<1> DEFINE m == PHASES
           r == x % m
           k == x \div m
<1>1. m \in Nat \ {0} /\ m > 1
  BY Sizes
<1>2. r \in 0 .. m - 1 /\ k \in Nat /\ x = m * k + r
  BY <1>1, ModFacts, Zenon
<1> HIDE DEF m, r, k
<1>3. CASE r + 1 < m
  <2>1. r + 1 \in 0 .. m - 1 /\ x + 1 = m * k + (r + 1)
    BY <1>1, <1>2, <1>3
  <2>2. (m * k + (r + 1)) % m = r + 1
    BY <1>1, <1>2, <2>1, ModUnique
  <2>3. (m * 0 + (r + 1)) % m = r + 1 /\ m * 0 + (r + 1) = r + 1
    BY <1>1, <1>2, <2>1, ModUnique
  <2> QED BY <1>2, <2>1, <2>2, <2>3 DEF m, r
<1>4. CASE r + 1 = m
  <2>1. x + 1 = m * (k + 1) + 0 /\ r + 1 = m * 1 + 0 /\ 0 \in 0 .. m - 1 /\ k + 1 \in Nat /\ 1 \in Nat
    BY <1>1, <1>2, <1>4
  <2>2. (m * (k + 1) + 0) % m = 0 /\ (m * 1 + 0) % m = 0
    BY <1>1, <2>1, ModUnique, Zenon
  <2> QED BY <1>1, <1>2, <1>4, <2>1, <2>2 DEF m, r
<1> QED BY <1>1, <1>2, <1>3, <1>4

\* Which core phase_finished tells as the k-th
LEMMA ToldAt ==
  ASSUME NEW p \in Partitions, NEW k \in 1 .. N_PARTITIONS - 1
  PROVE  (p + k) % N_PARTITIONS = IF p + k < N_PARTITIONS THEN p + k ELSE p + k - N_PARTITIONS
<1> DEFINE n == N_PARTITIONS
<1>1. n \in Nat \ {0} /\ p \in 0 .. n - 1 /\ k \in 1 .. n - 1
  BY Sizes DEF Partitions
<1> HIDE DEF n
<1>2. CASE p + k < n
  <2>1. p + k \in 0 .. n - 1 /\ n * 0 + (p + k) = p + k
    BY <1>1, <1>2
  <2>2. (n * 0 + (p + k)) % n = p + k
    BY <1>1, <2>1, ModUnique
  <2> QED BY <1>2, <2>1, <2>2 DEF n
<1>3. CASE ~(p + k < n)
  <2>1. p + k - n \in 0 .. n - 1 /\ n * 1 + (p + k - n) = p + k
    BY <1>1, <1>3
  <2>2. (n * 1 + (p + k - n)) % n = p + k - n
    BY <1>1, <2>1, ModUnique
  <2> QED BY <1>3, <2>1, <2>2 DEF n
<1> QED BY <1>2, <1>3

LEMMA ToldOnce ==
  ASSUME NEW p \in Partitions, NEW k \in 1 .. N_PARTITIONS - 1, NEW l \in 1 .. N_PARTITIONS - 1,
         (p + k) % N_PARTITIONS = (p + l) % N_PARTITIONS
  PROVE  k = l
<1> DEFINE n == N_PARTITIONS
<1>1. (p + k) % n = (IF p + k < n THEN p + k ELSE p + k - n) /\ (p + l) % n = (IF p + l < n THEN p + l ELSE p + l - n)
  BY ToldAt
<1>2. n \in Nat \ {0} /\ p \in 0 .. n - 1 /\ k \in 1 .. n - 1 /\ l \in 1 .. n - 1
  BY Sizes DEF Partitions
<1>3. (IF p + k < n THEN p + k ELSE p + k - n) = (IF p + l < n THEN p + l ELSE p + l - n)
  BY <1>1
<1> HIDE DEF n
<1> QED BY <1>2, <1>3

LEMMA ToldNotSelf ==
  ASSUME NEW p \in Partitions, NEW k \in 1 .. N_PARTITIONS - 1
  PROVE  (p + k) % N_PARTITIONS \in Partitions \ {p}
<1> DEFINE n == N_PARTITIONS
           x == (p + k) % n
<1>1. x = IF p + k < n THEN p + k ELSE p + k - n
  BY ToldAt
<1>2. n \in Nat \ {0} /\ p \in 0 .. n - 1 /\ k \in 1 .. n - 1
  BY Sizes DEF Partitions
<1> HIDE DEF n, x
<1>3. x \in 0 .. n - 1 /\ x # p
  BY <1>1, <1>2
<1> QED BY <1>3 DEF n, x, Partitions

LEMMA AllTold ==
  ASSUME NEW p \in Partitions, NEW q \in Partitions, p # q, told[p] = N_PARTITIONS
  PROVE  Told(p, q)
<1> DEFINE n == N_PARTITIONS
           k == IF p < q THEN q - p ELSE q - p + n
<1>1. n \in Nat \ {0} /\ p \in 0 .. n - 1 /\ q \in 0 .. n - 1
  BY Sizes DEF Partitions
<1>2. k \in 1 .. n - 1 /\ q = (IF p + k < n THEN p + k ELSE p + k - n)
  BY <1>1
<1> HIDE DEF k
<1>3. (p + k) % n = IF p + k < n THEN p + k ELSE p + k - n
  BY <1>2, ToldAt
<1>4. q = (p + k) % n
  BY <1>2, <1>3
<1> QED BY <1>2, <1>4, Zenon DEF Told

LEMMA EndedType ==
  ASSUME PimTypeOK, NEW p \in Partitions
  PROVE  round(p) \in Nat /\ ended(p) \in Nat
<1>1. Len(q_admitted_out[p]) \in Nat
  <2>1. q_admitted_out[p] \in Seq(SUBSET Flows)
    BY Zenon DEF PimTypeOK, EdgeTypeOK
  <2> QED BY <2>1
<1>2. iteration[p] \in 1 .. NUM_ITERATIONS
  BY Zenon DEF PimTypeOK, PhaseTypeOK
<1>3. \A x \in Nat : NUM_ITERATIONS * x \in Nat
  BY Sizes
<1>4. round(p) \in Nat
  BY <1>1, <1>2, <1>3, Sizes DEF round
<1> QED BY <1>4 DEF ended

\* A core of whom all have been heard is behind nobody's phase.
LEMMA HeardOfAll ==
  ASSUME PimTypeOK, PhaseInv, NEW p \in Partitions, heard[p] = N_PARTITIONS
  PROVE  Heard(p) = Partitions \ {p}
<1>1. Heard(p) \in SUBSET Partitions /\ Heard(p) \in SUBSET (Partitions \ {p})
  BY DEF Heard
<1>2. heard[p] = 1 + Cardinality(Heard(p))
  BY Zenon DEF PhaseInv
<1>3. Cardinality(Heard(p)) \in Nat
  BY <1>1, Zenon DEF PimTypeOK, Counting
<1>4. Cardinality(Heard(p)) = N_PARTITIONS - 1
  BY <1>2, <1>3, Sizes
<1> QED BY <1>1, <1>4, Zenon DEF PimTypeOK, Counting

LEMMA EndedSame ==
  ASSUME PimTypeOK, NEW q \in Partitions, stage'[q] = stage[q], iteration'[q] = iteration[q],
         q_admitted_out'[q] = q_admitted_out[q]
  PROVE  round(q)' = round(q) /\ ended(q)' = ended(q)
<1>1. round(q)' = round(q)
  BY Zenon DEF round
<1> QED BY <1>1, Zenon DEF ended

LEMMA EndedKept ==
  ASSUME PimTypeOK, UNCHANGED <<stage, iteration, q_admitted_out>>
  PROVE  \A q \in Partitions : round(q)' = round(q) /\ ended(q)' = ended(q)
  BY EndedSame, Zenon

LEMMA EndedPrepare ==
  ASSUME PimTypeOK, NEW p \in Partitions, pim_prepare(p)
  PROVE  \A q \in Partitions : round(q)' = round(q) /\ ended(q)' = ended(q)
<1>1. /\ stage[p] = "prepare" /\ stage' = [stage EXCEPT ![p] = "grant"]
      /\ iteration' = [iteration EXCEPT ![p] = 1] /\ q_admitted_out' = q_admitted_out
  BY Zenon DEF pim_prepare
<1>2. stage \in [Partitions -> {"prepare", "grant", "accept", "process"}] /\ iteration \in [Partitions -> 1 .. NUM_ITERATIONS]
  BY Zenon DEF PimTypeOK, PhaseTypeOK
<1>3. \A q \in Partitions \ {p} : stage'[q] = stage[q] /\ iteration'[q] = iteration[q] /\ q_admitted_out'[q] = q_admitted_out[q]
  BY <1>1, <1>2, Zenon
<1>4. \A q \in Partitions \ {p} : round(q)' = round(q) /\ ended(q)' = ended(q)
  BY <1>3, EndedSame, Zenon
<1>5. stage'[p] = "grant" /\ iteration'[p] = 1 /\ q_admitted_out'[p] = q_admitted_out[p]
  BY <1>1, <1>2, Zenon
<1>6. round(p)' = round(p)
  BY <1>1, <1>5 DEF round
<1>7. ended(p)' = ended(p)
  BY <1>1, <1>5, <1>6 DEF ended
<1> QED BY <1>4, <1>6, <1>7, Zenon

LEMMA EndedProcess ==
  ASSUME PimTypeOK, NEW p \in Partitions, pim_process_accepts(p)
  PROVE  /\ \A q \in Partitions : ended(q)' = ended(q)
         /\ \A q \in Partitions \ {p} : round(q)' = round(q)
         /\ round(p)' = round(p) + 1
<1>1. stage[p] = "process"
  BY Zenon DEF pim_process_accepts
<1>2. /\ stage \in [Partitions -> {"prepare", "grant", "accept", "process"}] /\ iteration \in [Partitions -> 1 .. NUM_ITERATIONS]
      /\ q_admitted_out \in [Partitions -> Seq(SUBSET Flows)]
  BY Zenon DEF PimTypeOK, PhaseTypeOK, EdgeTypeOK
<1>3. \A q \in Partitions \ {p} : stage'[q] = stage[q] /\ iteration'[q] = iteration[q] /\ q_admitted_out'[q] = q_admitted_out[q]
  BY <1>2, Zenon DEF pim_process_accepts
<1>4. \A q \in Partitions \ {p} : round(q)' = round(q) /\ ended(q)' = ended(q)
  BY <1>3, EndedSame, Zenon
<1>5. round(p) \in Nat /\ Len(q_admitted_out[p]) \in Nat /\ iteration[p] \in 1 .. NUM_ITERATIONS
  BY <1>2, EndedType
<1>6. round(p)' = round(p) + 1 /\ stage'[p] \in {"grant", "prepare"}
  <2>1. CASE iteration[p] < NUM_ITERATIONS
    <3>1. stage'[p] = "grant" /\ iteration'[p] = iteration[p] + 1 /\ q_admitted_out'[p] = q_admitted_out[p]
      BY <1>2, <2>1, Zenon DEF pim_process_accepts
    <3> QED BY <1>1, <1>5, <3>1, Sizes DEF round
  <2>2. CASE ~(iteration[p] < NUM_ITERATIONS)
    <3>1. stage'[p] = "prepare" /\ q_admitted_out'[p] = Append(q_admitted_out[p], admitted[p])
      BY <1>2, <2>2, Zenon DEF pim_process_accepts
    <3>2. q_admitted_out[p] \in Seq(SUBSET Flows) /\ admitted[p] \in SUBSET Flows
      BY Zenon DEF PimTypeOK, EdgeTypeOK
    <3>3. Len(q_admitted_out'[p]) = Len(q_admitted_out[p]) + 1
      BY <3>1, <3>2
    <3>4. \A x \in Nat : NUM_ITERATIONS * (x + 1) = NUM_ITERATIONS * x + NUM_ITERATIONS /\ NUM_ITERATIONS * x \in Nat
      BY Sizes
    <3>5. iteration[p] = NUM_ITERATIONS
      BY <1>5, <2>2, Sizes
    <3>6. round(p)' = NUM_ITERATIONS * (Len(q_admitted_out[p]) + 1) + 0
      BY <3>1, <3>3 DEF round
    <3>7. round(p) = NUM_ITERATIONS * Len(q_admitted_out[p]) + (NUM_ITERATIONS - 1)
      BY <1>1, <3>5 DEF round
    <3> QED BY <1>5, <3>1, <3>4, <3>6, <3>7, Sizes
  <2> QED BY <2>1, <2>2
<1>7. ended(p)' = ended(p)
  BY <1>1, <1>5, <1>6 DEF ended
<1> QED BY <1>4, <1>6, <1>7, Zenon

LEMMA EndedFinished ==
  ASSUME PimTypeOK, NEW p \in Partitions, NEW next, phase_finished(p, next), UNCHANGED <<iteration, q_admitted_out>>,
         (stage[p] = "grant" /\ next = "accept") \/ (stage[p] = "accept" /\ next = "process")
  PROVE  /\ \A q \in Partitions : round(q)' = round(q)
         /\ \A q \in Partitions \ {p} : ended(q)' = ended(q)
         /\ ended(p)' = ended(p) + 1
<1>1. stage \in [Partitions -> {"prepare", "grant", "accept", "process"}]
  BY Zenon DEF PimTypeOK, PhaseTypeOK
<1>2. stage' = [stage EXCEPT ![p] = next] /\ iteration' = iteration /\ q_admitted_out' = q_admitted_out
  BY Zenon DEF phase_finished
<1>3. \A q \in Partitions \ {p} : stage'[q] = stage[q] /\ iteration'[q] = iteration[q] /\ q_admitted_out'[q] = q_admitted_out[q]
  BY <1>1, <1>2, Zenon
<1>4. \A q \in Partitions \ {p} : round(q)' = round(q) /\ ended(q)' = ended(q)
  BY <1>3, EndedSame, Zenon
<1>5. stage'[p] = next
  BY <1>1, <1>2, Zenon
<1>6. round(p)' = round(p) /\ round(p) \in Nat
  <2>1. round(p)' = round(p)
    BY <1>2, <1>5 DEF round
  <2> QED BY <2>1, EndedType
<1>7. ended(p)' = ended(p) + 1
  BY <1>5, <1>6 DEF ended
<1> QED BY <1>4, <1>6, <1>7, Zenon

\* Nothing of the phases changes.
LEMMA PhaseInvKept ==
  ASSUME PhaseInv, \A q \in Partitions : ended(q)' = ended(q), UNCHANGED <<phase, told, heard>>,
         \A q \in Partitions : Ring(q)' = Ring(q) /\ Distinct(q_ready[q])', Settled'
  PROVE  PhaseInv' /\ \A p \in Partitions : Heard(p)' = Heard(p)
<1>1. \A p, q \in Partitions : Told(p, q)' = Told(p, q)
  BY Zenon DEF Told
<1>2. \A p, q \in Partitions : Sent(p, q)' = Sent(p, q)
  BY <1>1, Zenon DEF Sent
<1>3. \A p, q \in Partitions : ThisPhase(p, q)' = ThisPhase(p, q) /\ NextPhase(p, q)' = NextPhase(p, q) /\ Ring(p)' = Ring(p)
  BY Zenon DEF ThisPhase, NextPhase
<1>4. \A p \in Partitions : Heard(p)' = Heard(p)
  BY <1>2, <1>3, Zenon DEF Heard
<1>5. InStep'
  <2> SUFFICES ASSUME NEW r \in Partitions, NEW t \in Partitions, r # t
               PROVE  ended(t)' <= ended(r)' + 1 /\ (ended(t)' = ended(r)' + 1 => Told(r, t)')
    BY Zenon DEF InStep
  <2>1. ended(t) <= ended(r) + 1 /\ (ended(t) = ended(r) + 1 => Told(r, t))
    BY Zenon DEF PhaseInv, InStep
  <2> QED BY <1>1, <2>1, Zenon
<1>6. \A p \in Partitions : Entries(p)'
  <2> TAKE p \in Partitions
  <2>1. Entries(p)
    BY Zenon DEF PhaseInv
  <2>2. Distinct(q_ready[p])'
    OBVIOUS
  <2>a. ASSUME NEW q \in Partitions, NEW e, EntryOf(p, q, e) PROVE EntryOf(p, q, e)'
    BY <1>1, <1>2, <1>3, <2>a, Zenon DEF EntryOf
  <2>3. \A e \in Ring(p)' : \E q \in Partitions \ {p} : EntryOf(p, q, e)'
    BY <1>3, <2>1, <2>a, Zenon DEF Entries
  <2>4. \A q \in Partitions \ {p} :
         ended(q)' = ended(p)' + 1 /\ Told(q, p)' => NextPhase(p, q)' \in Ring(p)'
    BY <1>1, <1>2, <1>3, <2>1, Zenon DEF Entries
  <2> QED BY <2>2, <2>3, <2>4, Zenon DEF Entries
<1>7. \A p \in Partitions : (phase[p] = ended(p) % PHASES /\ heard[p] = 1 + Cardinality(Heard(p)))'
  BY <1>4, Zenon DEF PhaseInv
<1> QED BY <1>4, <1>5, <1>6, <1>7, Zenon DEF PhaseInv

\* Who is in the ring of core p, and for which phase
LEMMA EntryFacts ==
  ASSUME PimTypeOK, PhaseInv, NEW p \in Partitions, NEW q \in Partitions \ {p}
  PROVE  /\ ended(p) \in Nat /\ ended(q) \in Nat /\ ThisPhase(p, q) # NextPhase(p, q)
         /\ \A r \in Partitions : r # q => /\ ThisPhase(p, r) # ThisPhase(p, q) /\ ThisPhase(p, r) # NextPhase(p, q)
                                           /\ NextPhase(p, r) # ThisPhase(p, q) /\ NextPhase(p, r) # NextPhase(p, q)
         /\ ThisPhase(p, q) \in Ring(p) => Sent(q, p)
         /\ NextPhase(p, q) \in Ring(p) <=> ended(q) = ended(p) + 1 /\ Told(q, p)
<1>1. ended(p) \in Nat /\ ended(q) \in Nat
  BY EndedType
<1>2. (ended(p) + 1) % PHASES # ended(p) % PHASES
  BY <1>1, PhaseModulo
<1>3. ThisPhase(p, q) # NextPhase(p, q)
  BY <1>2, Zenon DEF ThisPhase, NextPhase
<1>4. \A r \in Partitions : r # q => /\ ThisPhase(p, r) # ThisPhase(p, q) /\ ThisPhase(p, r) # NextPhase(p, q)
                                     /\ NextPhase(p, r) # ThisPhase(p, q) /\ NextPhase(p, r) # NextPhase(p, q)
  BY Zenon DEF ThisPhase, NextPhase
<1>5. Entries(p)
  BY Zenon DEF PhaseInv
<1>6. ASSUME ThisPhase(p, q) \in Ring(p) PROVE Sent(q, p)
  <2>1. PICK r \in Partitions \ {p} : EntryOf(p, r, ThisPhase(p, q))
    BY <1>5, <1>6, Zenon DEF Entries
  <2> QED BY <1>3, <1>4, <2>1, Zenon DEF EntryOf
<1>7. ASSUME NextPhase(p, q) \in Ring(p) PROVE ended(q) = ended(p) + 1 /\ Told(q, p)
  <2>1. PICK r \in Partitions \ {p} : EntryOf(p, r, NextPhase(p, q))
    BY <1>5, <1>7, Zenon DEF Entries
  <2> QED BY <1>3, <1>4, <2>1, Zenon DEF EntryOf
<1>8. ended(q) = ended(p) + 1 /\ Told(q, p) => NextPhase(p, q) \in Ring(p)
  BY <1>5, Zenon DEF Entries
<1> QED BY <1>1, <1>3, <1>4, <1>6, <1>7, <1>8, Zenon

\* phase_get_finished_partition returns a core that p has not heard of in this phase.
LEMMA HearInv ==
  ASSUME PimTypeOK, PhaseInv, NEW p \in Partitions, hear(p), Settled',
         \A q \in Partitions : ended(q)' = ended(q)
  PROVE  /\ PhaseInv'
         /\ finished(p) \in Partitions \ {p} /\ finished(p) \notin Heard(p) /\ Sent(finished(p), p)
         /\ Heard(p)' = Heard(p) \cup {finished(p)}
         /\ \A r \in Partitions \ {p} : Heard(r)' = Heard(r)
<1> DEFINE e == Head(q_ready[p])
<1>1. /\ q_ready[p] # <<>> /\ e[1] = phase[p] /\ finished(p) = e[2]
      /\ q_ready' = [q_ready EXCEPT ![p] = Tail(@)] /\ heard' = [heard EXCEPT ![p] = @ + 1]
      /\ UNCHANGED <<stage, iteration, phase, told>>
  BY Zenon DEF hear, is_finished, finished
<1>2. /\ q_ready \in [Partitions -> Seq(Nat \X Partitions)] /\ heard \in [Partitions -> 1 .. N_PARTITIONS]
      /\ phase \in [Partitions -> Nat]
  BY Zenon DEF PimTypeOK, PhaseTypeOK
<1>3. Entries(p) /\ phase[p] = ended(p) % PHASES /\ heard[p] = 1 + Cardinality(Heard(p))
  BY Zenon DEF PhaseInv
<1>4. q_ready[p] \in Seq(Nat \X Partitions)
  BY <1>2, Zenon
<1>5. e \in Ring(p) /\ Ring(p) = Elements(Tail(q_ready[p])) \cup {e}
      /\ Distinct(Tail(q_ready[p])) /\ e \notin Elements(Tail(q_ready[p]))
  BY <1>1, <1>3, <1>4, ElementsTail, Zenon DEF Ring, Entries
<1> HIDE DEF e
<1>6. q_ready'[p] = Tail(q_ready[p]) /\ \A r \in Partitions \ {p} : q_ready'[r] = q_ready[r]
  BY <1>1, <1>2, Zenon
<1>7. Ring(p)' = Ring(p) \ {e}
  <2>1. Ring(p)' = Elements(Tail(q_ready[p]))
    BY <1>6, Zenon DEF Ring
  <2> QED BY <1>5, <2>1
<1>8. PICK q \in Partitions \ {p} : EntryOf(p, q, e)
  BY <1>3, <1>5, Zenon DEF Entries
<1>9. e = ThisPhase(p, q) /\ Sent(q, p) /\ finished(p) = q
  <2>1. (ended(p) + 1) % PHASES # ended(p) % PHASES
    BY PhaseModulo, EndedType
  <2>2. e # NextPhase(p, q)
    <3>1. NextPhase(p, q)[1] = (ended(p) + 1) % PHASES
      BY DEF NextPhase
    <3> QED BY <1>1, <1>3, <2>1, <3>1
  <2>3. e = ThisPhase(p, q) /\ Sent(q, p)
    BY <1>8, <2>2, Zenon DEF EntryOf
  <2>4. ThisPhase(p, q)[2] = q
    BY DEF ThisPhase
  <2> QED BY <1>1, <2>3, <2>4, Zenon
<1>10. q \notin Heard(p)
  BY <1>5, <1>9, Zenon DEF Heard
<1>11. \A r, t \in Partitions : Told(r, t)' = Told(r, t) /\ Sent(r, t)' = Sent(r, t)
  <2>1. \A r, t \in Partitions : Told(r, t)' = Told(r, t)
    BY <1>1, Zenon DEF Told
  <2> QED BY <2>1, Zenon DEF Sent
<1>12. \A r, t \in Partitions : ThisPhase(r, t)' = ThisPhase(r, t) /\ NextPhase(r, t)' = NextPhase(r, t)
  BY Zenon DEF ThisPhase, NextPhase
<1>13. \A r \in Partitions \ {p} : Ring(r)' = Ring(r)
  BY <1>6, Zenon DEF Ring
<1>14. \A r \in Partitions \ {p} : Heard(r)' = Heard(r)
  BY <1>11, <1>12, <1>13, Zenon DEF Heard
<1>15. \A r \in Partitions : r # q => ThisPhase(p, r) # e /\ NextPhase(p, r) # e
  BY <1>9, EntryFacts, Zenon
<1>16. NextPhase(p, q) # e
  BY <1>9, EntryFacts, Zenon
<1>17. Heard(p)' = Heard(p) \cup {q}
  <2>1. ASSUME NEW r \in Heard(p)' PROVE r \in Heard(p) \cup {q}
    <3>1. r \in Partitions \ {p} /\ Sent(r, p) /\ ThisPhase(p, r) \notin Ring(p)'
      BY <1>11, <1>12, <2>1, Zenon DEF Heard
    <3>2. CASE r = q
      BY <3>2
    <3>3. CASE r # q
      <4>1. ThisPhase(p, r) \notin Ring(p)
        BY <1>7, <1>15, <3>1, <3>3, Zenon
      <4> QED BY <3>1, <4>1, Zenon DEF Heard
    <3> QED BY <3>2, <3>3
  <2>2. ASSUME NEW r \in Heard(p) \cup {q} PROVE r \in Heard(p)'
    <3>1. r \in Partitions \ {p} /\ Sent(r, p) /\ ThisPhase(p, r) \notin Ring(p)'
      BY <1>7, <1>9, <2>2, Zenon DEF Heard
    <3> QED BY <1>11, <1>12, <3>1, Zenon DEF Heard
  <2> QED BY <2>1, <2>2, Zenon
<1>18. Entries(p)'
  <2>1. Distinct(q_ready[p])'
    BY <1>5, <1>6, Zenon
  <2>2. ASSUME NEW r \in Partitions, NEW x, EntryOf(p, r, x) PROVE EntryOf(p, r, x)'
    BY <1>11, <1>12, <2>2, Zenon DEF EntryOf
  <2>3. \A x \in Ring(p)' : \E r \in Partitions \ {p} : EntryOf(p, r, x)'
    BY <1>3, <1>7, <2>2, Zenon DEF Entries
  <2>4. \A r \in Partitions \ {p} : ended(r)' = ended(p)' + 1 /\ Told(r, p)' => NextPhase(p, r)' \in Ring(p)'
    BY <1>3, <1>7, <1>11, <1>12, <1>15, <1>16, Zenon DEF Entries
  <2> QED BY <2>1, <2>3, <2>4, Zenon DEF Entries
<1>19. \A r \in Partitions \ {p} : Entries(r)'
  <2> TAKE r \in Partitions \ {p}
  <2>1. Entries(r)
    BY Zenon DEF PhaseInv
  <2>2. Distinct(q_ready[r])'
    BY <1>6, <2>1, Zenon DEF Entries
  <2>3. ASSUME NEW t \in Partitions, NEW x, EntryOf(r, t, x) PROVE EntryOf(r, t, x)'
    BY <1>11, <1>12, <2>3, Zenon DEF EntryOf
  <2>4. \A x \in Ring(r)' : \E t \in Partitions \ {r} : EntryOf(r, t, x)'
    BY <1>13, <2>1, <2>3, Zenon DEF Entries
  <2>5. \A t \in Partitions \ {r} : ended(t)' = ended(r)' + 1 /\ Told(t, r)' => NextPhase(r, t)' \in Ring(r)'
    BY <1>11, <1>12, <1>13, <2>1, Zenon DEF Entries
  <2> QED BY <2>2, <2>4, <2>5, Zenon DEF Entries
<1>20. heard'[p] = 1 + Cardinality(Heard(p)')
  <2>1. Cardinality(Heard(p) \cup {q}) = Cardinality(Heard(p)) + 1 /\ Cardinality(Heard(p)) \in Nat
    <3>1. Heard(p) \in SUBSET Partitions
      BY DEF Heard
    <3> QED BY <1>10, <3>1, Zenon DEF PimTypeOK, Counting
  <2>2. heard'[p] = heard[p] + 1
    BY <1>1, <1>2, Zenon
  <2> QED BY <1>3, <1>17, <2>1, <2>2
<1>21. \A r \in Partitions \ {p} : heard'[r] = 1 + Cardinality(Heard(r)')
  BY <1>1, <1>2, <1>14, Zenon DEF PhaseInv
<1>22. \A r \in Partitions : phase'[r] = ended(r)' % PHASES
  BY <1>1, Zenon DEF PhaseInv
<1>23. InStep'
  <2> SUFFICES ASSUME NEW r \in Partitions, NEW t \in Partitions, r # t
               PROVE  ended(t)' <= ended(r)' + 1 /\ (ended(t)' = ended(r)' + 1 => Told(r, t)')
    BY Zenon DEF InStep
  <2>1. ended(t) <= ended(r) + 1 /\ (ended(t) = ended(r) + 1 => Told(r, t))
    BY Zenon DEF PhaseInv, InStep
  <2> QED BY <1>11, <2>1, Zenon
<1>24. PhaseInv'
  BY <1>18, <1>19, <1>20, <1>21, <1>22, <1>23, Zenon DEF PhaseInv
<1> QED BY <1>9, <1>10, <1>14, <1>17, <1>24, Zenon

\* One entry of phase_finished is the first of its phase and of its core in the ring.
LEMMA EnqueueInv ==
  ASSUME PimTypeOK, PhaseInv, NEW p \in Partitions, enqueue_ready(p)
  PROVE  PhaseInv' /\ \A r \in Partitions : Heard(r)' = Heard(r)
<1>t. PICK to : to = (p + told[p]) % N_PARTITIONS
  OBVIOUS
<1>e. PICK e : e = <<phase[p], p>>
  BY Zenon
<1>1. /\ told[p] < N_PARTITIONS /\ told' = [told EXCEPT ![p] = @ + 1]
      /\ q_ready' = [q_ready EXCEPT ![to] = Append(@, e)]
      /\ UNCHANGED <<edges, stage, iteration, phase, heard>>
  BY <1>t, <1>e, Zenon DEF enqueue_ready
<1>2. /\ q_ready \in [Partitions -> Seq(Nat \X Partitions)] /\ told \in [Partitions -> 1 .. N_PARTITIONS]
      /\ phase \in [Partitions -> Nat]
  BY Zenon DEF PimTypeOK, PhaseTypeOK
<1>3. told[p] \in 1 .. N_PARTITIONS - 1
  BY <1>1, <1>2, Sizes
<1>4. to \in Partitions \ {p}
  BY <1>3, <1>t, ToldNotSelf, Zenon
<1>5. \A q \in Partitions : ended(q)' = ended(q)
  <2>1. UNCHANGED <<stage, iteration, q_admitted_out>>
    BY <1>1, Zenon DEF edges
  <2> QED BY <2>1, EndedKept, Zenon
<1>6. ~Told(p, to)
  <2> SUFFICES ASSUME NEW k \in 1 .. told[p] - 1, to = (p + k) % N_PARTITIONS PROVE FALSE
    BY Zenon DEF Told
  <2>1. k \in 1 .. N_PARTITIONS - 1 /\ k # told[p]
    BY <1>3, Sizes
  <2>2. (p + k) % N_PARTITIONS = (p + told[p]) % N_PARTITIONS
    BY <1>t
  <2> QED BY <1>3, <2>1, <2>2, ToldOnce, Zenon
<1>7. \A q \in Partitions : Told(p, q)' <=> Told(p, q) \/ q = to
  <2>1. told'[p] = told[p] + 1
    BY <1>1, <1>2, Zenon
  <2>2. \A k : k \in 1 .. told'[p] - 1 <=> k \in 1 .. told[p] - 1 \/ k = told[p]
    BY <1>3, <2>1
  <2> QED BY <1>t, <2>2, Zenon DEF Told
<1>8. \A r \in Partitions \ {p}, q \in Partitions : Told(r, q)' = Told(r, q)
  <2>1. \A r \in Partitions \ {p} : told'[r] = told[r]
    BY <1>1, <1>2, Zenon
  <2> QED BY <2>1, Zenon DEF Told
<1>9. \A r, q \in Partitions : ~(r = p /\ q = to) => (Told(r, q)' <=> Told(r, q)) /\ (Sent(r, q)' <=> Sent(r, q))
  <2>1. \A r, q \in Partitions : ~(r = p /\ q = to) => (Told(r, q)' <=> Told(r, q))
    BY <1>7, <1>8, Zenon
  <2> QED BY <1>5, <2>1, Zenon DEF Sent
<1>10. Told(p, to)'
  BY <1>4, <1>7, Zenon
<1>11. \A r, q \in Partitions : ThisPhase(r, q)' = ThisPhase(r, q) /\ NextPhase(r, q)' = NextPhase(r, q)
  BY <1>5, Zenon DEF ThisPhase, NextPhase
<1>12. e = <<ended(p) % PHASES, p>>
  BY <1>e, Zenon DEF PhaseInv
<1>13. e \in Nat \X Partitions
  BY <1>2, <1>e
<1>14. q_ready'[to] = Append(q_ready[to], e) /\ \A r \in Partitions \ {to} : q_ready'[r] = q_ready[r]
  BY <1>1, <1>2, <1>4, Zenon
<1>15. \A r \in Partitions \ {to} : Ring(r)' = Ring(r)
  BY <1>14, Zenon DEF Ring
<1>16. Ring(to)' = Ring(to) \cup {e} /\ (e \notin Ring(to) => Distinct(q_ready[to])')
  <2>1. q_ready[to] \in Seq(Nat \X Partitions) /\ Distinct(q_ready[to])
    BY <1>2, <1>4, Zenon DEF PhaseInv, Entries
  <2>a. \A t \in Seq(Nat \X Partitions), x \in Nat \X Partitions :
          /\ Elements(Append(t, x)) = Elements(t) \cup {x}
          /\ Distinct(t) /\ x \notin Elements(t) => Distinct(Append(t, x))
    BY ElementsAppend, Zenon
  <2>2. Elements(Append(q_ready[to], e)) = Elements(q_ready[to]) \cup {e}
        /\ (e \notin Elements(q_ready[to]) => Distinct(Append(q_ready[to], e)))
    BY <1>13, <2>1, <2>a, Zenon
  <2> QED BY <1>14, <2>2, Zenon DEF Ring
<1>17. ended(p) = ended(to) \/ ended(p) = ended(to) + 1
  <2>1. ended(p) <= ended(to) + 1 /\ ended(to) <= ended(p) + 1 /\ ended(to) # ended(p) + 1
    BY <1>4, <1>6, Zenon DEF PhaseInv, InStep
  <2>2. ended(p) \in Nat /\ ended(to) \in Nat
    BY <1>4, EndedType
  <2> QED BY <2>1, <2>2
<1>18. e \notin Ring(to) /\ EntryOf(to, p, e)' /\ (ended(p) = ended(to) + 1 => e = NextPhase(to, p))
       /\ (p \in Heard(to)' <=> p \in Heard(to))
  <2>0. p \in Partitions \ {to} /\ ended(to) \in Nat
    BY <1>4, EndedType
  <2>1. CASE ended(p) = ended(to)
    <3>1. e = ThisPhase(to, p)
      BY <1>12, <2>1 DEF ThisPhase
    <3>2. ~Sent(p, to)
      BY <1>6, <2>0, <2>1 DEF Sent
    <3>3. e \notin Ring(to)
      BY <1>4, <2>0, <3>1, <3>2, EntryFacts, Zenon
    <3>4. Sent(p, to)'
      BY <1>4, <1>5, <1>10, <2>1, Zenon DEF Sent
    <3>5. p \notin Heard(to) /\ p \notin Heard(to)'
      BY <1>4, <1>11, <1>16, <3>1, <3>2, Zenon DEF Heard
    <3>6. EntryOf(to, p, e)'
      BY <1>4, <1>11, <3>1, <3>4, Zenon DEF EntryOf
    <3>7. ended(p) # ended(to) + 1
      BY <2>0, <2>1
    <3> QED BY <3>3, <3>5, <3>6, <3>7
  <2>2. CASE ended(p) = ended(to) + 1
    <3>1. e = NextPhase(to, p)
      BY <1>12, <2>2 DEF NextPhase
    <3>2. e \notin Ring(to) /\ ThisPhase(to, p) # e
      BY <1>4, <1>6, <2>0, <3>1, EntryFacts, Zenon
    <3>3. Sent(p, to) /\ Sent(p, to)'
      BY <1>4, <1>5, <2>2, Zenon DEF Sent
    <3>4. p \in Heard(to)' <=> p \in Heard(to)
      BY <1>4, <1>11, <1>16, <3>2, <3>3, Zenon DEF Heard
    <3>5. EntryOf(to, p, e)'
      BY <1>4, <1>5, <1>10, <1>11, <2>2, <3>1, Zenon DEF EntryOf
    <3> QED BY <3>1, <3>2, <3>4, <3>5
  <2> QED BY <1>17, <2>1, <2>2
<1>19. \A r \in Partitions \ {to} : Heard(r)' = Heard(r)
  BY <1>9, <1>11, <1>15, Zenon DEF Heard
<1>20. \A q \in Partitions : q # p => ThisPhase(to, q) # e
  <2>1. \A q \in Partitions : ThisPhase(to, q)[2] = q
    BY DEF ThisPhase
  <2>2. e[2] = p
    BY <1>e
  <2> QED BY <2>1, <2>2, Zenon
<1>21. Heard(to)' = Heard(to)
  <2>1. \A q \in Partitions \ {to} : q # p => (q \in Heard(to)' <=> q \in Heard(to))
    BY <1>4, <1>9, <1>11, <1>16, <1>20, Zenon DEF Heard
  <2>2. Heard(to) \subseteq Partitions \ {to} /\ Heard(to)' \subseteq Partitions \ {to}
    BY Zenon DEF Heard
  <2>3. ASSUME NEW q PROVE q \in Heard(to)' <=> q \in Heard(to)
    BY <1>18, <2>1, <2>2
  <2> QED BY <2>3
<1>22. ASSUME NEW r \in Partitions, NEW q \in Partitions, NEW x, EntryOf(r, q, x) PROVE EntryOf(r, q, x)'
  <2>1. CASE r = to /\ q = p
    <3>1. ended(q) = ended(r) + 1
      BY <1>6, <1>22, <2>1, Zenon DEF EntryOf, Sent
    <3>2. Sent(q, r)'
      BY <1>5, <3>1, Zenon DEF Sent
    <3> QED BY <1>5, <1>10, <1>11, <1>22, <2>1, <3>1, <3>2, Zenon DEF EntryOf
  <2>2. CASE ~(r = to /\ q = p)
    BY <1>5, <1>9, <1>11, <1>22, <2>2, Zenon DEF EntryOf
  <2> QED BY <2>1, <2>2
<1>23. ASSUME NEW r \in Partitions PROVE Entries(r)'
  <2>1. Entries(r)
    BY Zenon DEF PhaseInv
  <2>2. Distinct(q_ready[r])'
    BY <1>14, <1>16, <1>18, <2>1, Zenon DEF Entries
  <2>3. ASSUME NEW x \in Ring(r)' PROVE \E q \in Partitions \ {r} : EntryOf(r, q, x)'
    <3>1. CASE x \in Ring(r)
      BY <1>22, <2>1, <3>1, Zenon DEF Entries
    <3>2. CASE r = to /\ x = e
      BY <1>4, <1>18, <3>2, Zenon
    <3> QED BY <1>15, <1>16, <2>3, <3>1, <3>2, Zenon
  <2>4. ASSUME NEW q \in Partitions \ {r}, ended(q)' = ended(r)' + 1, Told(q, r)' PROVE NextPhase(r, q)' \in Ring(r)'
    <3>1. Ring(r) \subseteq Ring(r)'
      BY <1>15, <1>16, Zenon
    <3>2. CASE r = to /\ q = p
      BY <1>4, <1>5, <1>11, <1>16, <1>18, <2>4, <3>2, Zenon
    <3>3. CASE ~(r = to /\ q = p)
      BY <1>5, <1>9, <1>11, <2>1, <2>4, <3>1, <3>3, Zenon DEF Entries
    <3> QED BY <3>2, <3>3
  <2> QED BY <2>2, <2>3, <2>4, Zenon DEF Entries
<1>24. \A r \in Partitions : phase'[r] = ended(r)' % PHASES /\ heard'[r] = 1 + Cardinality(Heard(r)')
  BY <1>1, <1>5, <1>19, <1>21, Zenon DEF PhaseInv
<1>25. InStep'
  <2> SUFFICES ASSUME NEW r \in Partitions, NEW t \in Partitions, r # t
               PROVE  ended(t)' <= ended(r)' + 1 /\ (ended(t)' = ended(r)' + 1 => Told(r, t)')
    BY Zenon DEF InStep
  <2>1. ended(t) <= ended(r) + 1 /\ (ended(t) = ended(r) + 1 => Told(r, t))
    BY Zenon DEF PhaseInv, InStep
  <2> QED BY <1>5, <1>9, <1>10, <2>1, Zenon
<1>26. Settled'
  <2>1. Settled
    BY DEF PhaseInv
  <2>2. stage[p] \notin {"prepare", "grant"}
    BY <1>1, <1>2, <2>1, Sizes DEF Settled
  <2>3. \A r \in Partitions \ {p} : told'[r] = told[r]
    BY <1>1, <1>2, Zenon
  <2> QED BY <1>1, <2>1, <2>2, <2>3, Zenon DEF Settled
<1>27. PhaseInv'
  BY <1>23, <1>24, <1>25, <1>26, Zenon DEF PhaseInv
<1> QED BY <1>19, <1>21, <1>27, Zenon

\* phase_finished begins only when all have finished the phase before.
LEMMA FinishedInv ==
  ASSUME PimTypeOK, PhaseInv, NEW p \in Partitions, NEW next \in {"accept", "process"}, phase_finished(p, next),
         told[p] = N_PARTITIONS, heard[p] = N_PARTITIONS,
         ended(p)' = ended(p) + 1, \A q \in Partitions \ {p} : ended(q)' = ended(q)
  PROVE  /\ PhaseInv'
         /\ Heard(p)' = {}
         /\ \A r \in Partitions \ {p} : Heard(r)' = Heard(r) /\ (ended(r) = ended(p) \/ ended(r) = ended(p) + 1)
<1>1. /\ phase' = [phase EXCEPT ![p] = (@ + 1) % PHASES] /\ stage' = [stage EXCEPT ![p] = next]
      /\ told' = [told EXCEPT ![p] = 1] /\ heard' = [heard EXCEPT ![p] = 1] /\ UNCHANGED q_ready
  BY Zenon DEF phase_finished
<1>2. /\ phase \in [Partitions -> Nat] /\ told \in [Partitions -> 1 .. N_PARTITIONS] /\ heard \in [Partitions -> 1 .. N_PARTITIONS]
      /\ stage \in [Partitions -> {"prepare", "grant", "accept", "process"}]
  BY Zenon DEF PimTypeOK, PhaseTypeOK
<1>3. \A r \in Partitions \ {p} : Sent(r, p) /\ ThisPhase(p, r) \notin Ring(p)
  <2>1. Heard(p) = Partitions \ {p}
    BY HeardOfAll
  <2> QED BY <2>1, Zenon DEF Heard
<1>4. \A r \in Partitions \ {p} : Told(p, r)
  BY AllTold, Zenon
<1>5. \A r \in Partitions : ended(r) \in Nat
  BY EndedType, Zenon
<1>6. \A r \in Partitions \ {p} : (ended(r) = ended(p) /\ Told(r, p)) \/ ended(r) = ended(p) + 1
  BY <1>3, Zenon DEF Sent
<1>7. \A r \in Partitions \ {p} : ended(r) = ended(p) \/ ended(r) = ended(p) + 1
  BY <1>6, Zenon
<1>8. \A r \in Partitions \ {p}, q \in Partitions : Told(r, q)' = Told(r, q)
  <2>1. \A r \in Partitions \ {p} : told'[r] = told[r]
    BY <1>1, <1>2, Zenon
  <2> QED BY <2>1, Zenon DEF Told
<1>9. \A q \in Partitions : ~Told(p, q)'
  <2>1. told'[p] = 1
    BY <1>1, <1>2, Zenon
  <2>2. 1 .. told'[p] - 1 = {}
    BY <2>1
  <2> QED BY <2>2, Zenon DEF Told
<1>10. \A r \in Partitions : Ring(r)' = Ring(r)
  BY <1>1, Zenon DEF Ring
<1>11. \A r \in Partitions \ {p}, q \in Partitions : ThisPhase(r, q)' = ThisPhase(r, q) /\ NextPhase(r, q)' = NextPhase(r, q)
  BY Zenon DEF ThisPhase, NextPhase
<1>12. \A q \in Partitions : ThisPhase(p, q)' = NextPhase(p, q)
  BY Zenon DEF ThisPhase, NextPhase
<1>13. \A r, q \in Partitions \ {p} : Sent(r, q)' <=> Sent(r, q)
  BY <1>8, Zenon DEF Sent
<1>14. \A r \in Partitions \ {p} : Sent(p, r)' <=> Sent(p, r)
  <2> TAKE r \in Partitions \ {p}
  <2>1. ended(p) \in Nat /\ ended(r) \in Nat /\ ended(r)' = ended(r) /\ ended(p)' = ended(p) + 1 /\ (ended(r) = ended(p) \/ ended(r) = ended(p) + 1)
    BY <1>5, <1>7
  <2>2. CASE ended(r) = ended(p)
    <3>1. ended(p)' = ended(r)' + 1
      BY <2>1, <2>2
    <3>2. Sent(p, r)' /\ Sent(p, r)
      BY <1>4, <2>2, <3>1, Zenon DEF Sent
    <3> QED BY <3>2
  <2>3. CASE ended(r) = ended(p) + 1
    <3>1. ended(p) # ended(r) + 1 /\ ended(p) # ended(r) /\ ended(p)' # ended(r)' + 1
      BY <2>1, <2>3
    <3>2. ~Sent(p, r) /\ ~Sent(p, r)'
      BY <1>9, <3>1, Zenon DEF Sent
    <3> QED BY <3>2
  <2> QED BY <2>1, <2>2, <2>3
<1>15. ASSUME NEW r \in Partitions \ {p} PROVE Heard(r)' = Heard(r)
  <2>1. \A q \in Partitions \ {r} : Sent(q, r)' <=> Sent(q, r)
    BY <1>13, <1>14, <1>15, Zenon
  <2>2. ASSUME NEW q PROVE q \in Heard(r)' <=> q \in Heard(r)
    BY <1>10, <1>11, <1>15, <2>1, Zenon DEF Heard
  <2> QED BY <2>2, Zenon
<1>16. Heard(p)' = {}
  <2> SUFFICES ASSUME NEW q \in Heard(p)' PROVE FALSE
    OBVIOUS
  <2>1. q \in Partitions \ {p} /\ Sent(q, p)' /\ NextPhase(p, q) \notin Ring(p)
    BY <1>10, <1>12, Zenon DEF Heard
  <2>2. ended(q)' # ended(p)' + 1
    BY <1>5, <1>7, <2>1
  <2>3. ended(q) = ended(p) + 1 /\ Told(q, p)
    BY <1>8, <2>1, <2>2, Zenon DEF Sent
  <2> QED BY <2>1, <2>3, EntryFacts, Zenon
<1>17. Entries(p)'
  <2>1. Entries(p)
    BY Zenon DEF PhaseInv
  <2>2. Distinct(q_ready[p])'
    BY <1>1, <2>1, Zenon DEF Entries
  <2>3. ASSUME NEW x \in Ring(p)' PROVE \E q \in Partitions \ {p} : EntryOf(p, q, x)'
    <3>1. PICK q \in Partitions \ {p} : EntryOf(p, q, x)
      BY <1>10, <2>1, <2>3, Zenon DEF Entries
    <3>2. x # ThisPhase(p, q)
      BY <1>3, <1>10, <2>3, Zenon
    <3>3. x = NextPhase(p, q) /\ ended(q) = ended(p) + 1 /\ Told(q, p)
      BY <3>1, <3>2, Zenon DEF EntryOf
    <3>4. x = ThisPhase(p, q)' /\ ended(q)' = ended(p)' /\ Told(q, p)'
      BY <1>8, <1>12, <3>3, Zenon
    <3>5. Sent(q, p)'
      BY <3>4, Zenon DEF Sent
    <3> QED BY <3>4, <3>5, Zenon DEF EntryOf
  <2>4. \A q \in Partitions \ {p} : ended(q)' # ended(p)' + 1
    BY <1>5, <1>7
  <2> QED BY <2>2, <2>3, <2>4, Zenon DEF Entries
<1>18. ASSUME NEW r \in Partitions \ {p} PROVE Entries(r)'
  <2>1. Entries(r)
    BY Zenon DEF PhaseInv
  <2>2. Distinct(q_ready[r])'
    BY <1>1, <2>1, Zenon DEF Entries
  <2>3. ended(p) # ended(r) + 1
    BY <1>5, <1>7
  <2>4. ASSUME NEW q \in Partitions \ {r}, NEW x, EntryOf(r, q, x) PROVE EntryOf(r, q, x)'
    <3>1. CASE q = p
      <4>1. x = ThisPhase(r, q) /\ Sent(q, r)
        BY <2>3, <2>4, <3>1, Zenon DEF EntryOf
      <4> QED BY <1>11, <1>14, <3>1, <4>1, Zenon DEF EntryOf
    <3>2. CASE q # p
      BY <1>8, <1>11, <1>13, <2>4, <3>2, Zenon DEF EntryOf
    <3> QED BY <3>1, <3>2
  <2>5. \A x \in Ring(r)' : \E q \in Partitions \ {r} : EntryOf(r, q, x)'
    BY <1>10, <2>1, <2>4, Zenon DEF Entries
  <2>6. ASSUME NEW q \in Partitions \ {r}, ended(q)' = ended(r)' + 1, Told(q, r)' PROVE NextPhase(r, q)' \in Ring(r)'
    <3>1. q # p
      BY <1>9, <2>6, Zenon
    <3>2. ended(q) = ended(r) + 1 /\ Told(q, r)
      BY <1>8, <2>6, <3>1, Zenon
    <3> QED BY <1>10, <1>11, <2>1, <3>2, Zenon DEF Entries
  <2> QED BY <2>2, <2>5, <2>6, Zenon DEF Entries
<1>19. \A r \in Partitions : phase'[r] = ended(r)' % PHASES
  <2>1. phase[p] = ended(p) % PHASES /\ \A r \in Partitions \ {p} : phase[r] = ended(r) % PHASES
    BY Zenon DEF PhaseInv
  <2>2. phase'[p] = (phase[p] + 1) % PHASES /\ \A r \in Partitions \ {p} : phase'[r] = phase[r]
    BY <1>1, <1>2, Zenon
  <2>3. ((ended(p) % PHASES) + 1) % PHASES = (ended(p) + 1) % PHASES
    BY <1>5, PhaseModulo
  <2>4. phase'[p] = ended(p)' % PHASES
    BY <2>1, <2>2, <2>3, Zenon
  <2> QED BY <2>1, <2>2, <2>4, Zenon
<1>20. \A r \in Partitions : heard'[r] = 1 + Cardinality(Heard(r)')
  <2>1. heard'[p] = 1 /\ Cardinality(Heard(p)') = 0
    BY <1>1, <1>2, <1>16, Zenon DEF PimTypeOK, Counting
  <2>2. heard'[p] = 1 + Cardinality(Heard(p)')
    BY <2>1
  <2>3. \A r \in Partitions \ {p} : heard'[r] = heard[r]
    BY <1>1, <1>2, Zenon
  <2> QED BY <1>15, <2>2, <2>3, Zenon DEF PhaseInv
<1>21. InStep'
  <2> SUFFICES ASSUME NEW r \in Partitions, NEW t \in Partitions, r # t
               PROVE  ended(t)' <= ended(r)' + 1 /\ (ended(t)' = ended(r)' + 1 => Told(r, t)')
    BY Zenon DEF InStep
  <2>1. ended(t) <= ended(r) + 1 /\ (ended(t) = ended(r) + 1 => Told(r, t))
    BY Zenon DEF PhaseInv, InStep
  <2>2. CASE r # p /\ t # p
    BY <1>8, <2>1, <2>2, Zenon
  <2>3. CASE r = p
    <3>1. ended(t)' <= ended(r)' /\ ended(t)' # ended(r)' + 1
      BY <1>5, <1>7, <2>3
    <3> QED BY <1>5, <1>7, <2>3, <3>1
  <2>4. CASE t = p
    <3>1. ended(t)' <= ended(r)' + 1
      BY <1>5, <1>7, <2>4
    <3>2. ASSUME ended(t)' = ended(r)' + 1 PROVE Told(r, t)'
      <4>1. ended(r) = ended(p)
        BY <1>5, <2>4, <3>2
      <4>2. Told(r, p)
        BY <1>5, <1>6, <2>4, <4>1
      <4> QED BY <1>8, <2>4, <4>2, Zenon
    <3> QED BY <3>1, <3>2
  <2> QED BY <2>2, <2>3, <2>4
<1>22. Settled'
  <2>1. stage'[p] \in {"accept", "process"} /\ \A r \in Partitions \ {p} : stage'[r] = stage[r] /\ told'[r] = told[r] /\ heard'[r] = heard[r]
    BY <1>1, <1>2, Zenon
  <2>2. stage'[p] \notin {"prepare", "grant"}
    BY <2>1
  <2> QED BY <2>1, <2>2, Zenon DEF PhaseInv, Settled
<1>23. PhaseInv'
  BY <1>17, <1>18, <1>19, <1>20, <1>21, <1>22, Zenon DEF PhaseInv
<1> QED BY <1>7, <1>15, <1>16, <1>23, Zenon

-----------------------------------------------------------------------------
(* The phases are in step.                                                 *)

LEMMA InitPhases == Counting /\ Init => PhaseInv
<1> SUFFICES ASSUME Counting, Init PROVE PhaseInv
  OBVIOUS
<1>1. PimTypeOK
  BY InitTypes
<1>2. \A p \in Partitions : /\ stage[p] = "prepare" /\ phase[p] = 0 /\ told[p] = N_PARTITIONS /\ heard[p] = N_PARTITIONS
                            /\ q_ready[p] = <<>> /\ q_admitted_out[p] = <<>>
  BY Zenon DEF Init, InitCores
<1>3. \A p \in Partitions : ended(p) = 0
  <2> TAKE p \in Partitions
  <2>1. round(p) = 0
    BY <1>2, Sizes DEF round
  <2>2. stage[p] # "accept" /\ stage[p] # "process"
    BY <1>2
  <2> QED BY <2>1, <2>2 DEF ended
<1>4. \A p \in Partitions : Ring(p) = {} /\ Distinct(q_ready[p])
  BY <1>2, ElementsEmpty, Zenon DEF Ring
<1>5. ASSUME NEW p \in Partitions PROVE Heard(p) = Partitions \ {p}
  <2>1. \A q \in Partitions \ {p} : Told(q, p)
    BY <1>2, <1>5, AllTold, Zenon
  <2>2. \A q \in Partitions \ {p} : Sent(q, p)
    BY <1>3, <1>5, <2>1, Zenon DEF Sent
  <2> QED BY <1>4, <1>5, <2>2, Zenon DEF Heard
<1>6. ASSUME NEW p \in Partitions PROVE heard[p] = 1 + Cardinality(Heard(p))
  <2>3. Cardinality(Partitions \ {p}) = N_PARTITIONS - 1
    BY <1>6, Zenon DEF Counting
  <2>4. heard[p] = N_PARTITIONS /\ Heard(p) = Partitions \ {p}
    BY <1>2, <1>5, <1>6, Zenon
  <2> HIDE <1>2, <1>5
  <2> QED BY <2>3, <2>4, Sizes
<1>7. Settled
  BY <1>2, Zenon DEF Settled
<1>8. InStep
  BY <1>3 DEF InStep
<1>9. \A p \in Partitions : Entries(p)
  <2>1. \A p, q \in Partitions : ended(q) # ended(p) + 1
    BY <1>3
  <2> QED BY <1>4, <2>1, Zenon DEF Entries
<1>10. \A p \in Partitions : phase[p] = ended(p) % PHASES
  BY <1>2, <1>3, Sizes
<1> QED BY <1>6, <1>7, <1>8, <1>9, <1>10, Zenon DEF PhaseInv

LEMMA SettledKept ==
  ASSUME Settled, UNCHANGED <<stage, told>>, \A r \in Partitions : heard'[r] = heard[r] \/ stage[r] \notin {"prepare", "grant"}
  PROVE  Settled'
  BY Zenon DEF Settled

LEMMA PollInv ==
  ASSUME PimTypeOK, PhaseInv, NEW p \in Partitions, poll(p)
  PROVE  PhaseInv' /\ \A r \in Partitions : Heard(r)' = Heard(r) /\ ended(r)' = ended(r) /\ round(r)' = round(r)
<1>1. /\ q_ready' = IF q_ready[p] = <<>> THEN q_ready ELSE [q_ready EXCEPT ![p] = Append(Tail(@), Head(@))]
      /\ UNCHANGED <<q_admitted_out, stage, iteration, phase, told, heard>>
  BY Zenon DEF poll
<1>2. \A r \in Partitions : ended(r)' = ended(r) /\ round(r)' = round(r)
  BY <1>1, EndedKept, Zenon
<1>3. Settled'
  BY <1>1, SettledKept, Zenon DEF PhaseInv
<1>4. q_ready \in [Partitions -> Seq(Nat \X Partitions)]
  BY Zenon DEF PimTypeOK, PhaseTypeOK
<1>5. \A r \in Partitions : Distinct(q_ready[r])
  BY Zenon DEF PhaseInv, Entries
<1>6. \A r \in Partitions : Ring(r)' = Ring(r) /\ Distinct(q_ready[r])'
  <2>1. CASE q_ready[p] = <<>>
    BY <1>1, <1>5, <2>1, Zenon DEF Ring
  <2>2. CASE q_ready[p] # <<>>
    <3>1. q_ready'[p] = Append(Tail(q_ready[p]), Head(q_ready[p])) /\ \A r \in Partitions \ {p} : q_ready'[r] = q_ready[r]
      BY <1>1, <1>4, <2>2, Zenon
    <3>2. Elements(Append(Tail(q_ready[p]), Head(q_ready[p]))) = Elements(q_ready[p])
          /\ Distinct(Append(Tail(q_ready[p]), Head(q_ready[p])))
      BY <1>4, <1>5, <2>2, ElementsRotate, Zenon
    <3> QED BY <1>5, <3>1, <3>2, Zenon DEF Ring
  <2> QED BY <2>1, <2>2
<1>7. PhaseInv' /\ \A r \in Partitions : Heard(r)' = Heard(r)
  BY <1>1, <1>2, <1>3, <1>6, PhaseInvKept, Zenon
<1> QED BY <1>2, <1>7, Zenon

\* Steps that neither finish a phase nor touch a ring
LEMMA QuietInv ==
  ASSUME PimTypeOK, PhaseInv, \A r \in Partitions : ended(r)' = ended(r), UNCHANGED <<phase, told, heard, q_ready>>, Settled'
  PROVE  PhaseInv' /\ \A r \in Partitions : Heard(r)' = Heard(r)
<1>1. \A r \in Partitions : Ring(r)' = Ring(r) /\ Distinct(q_ready[r])'
  BY Zenon DEF PhaseInv, Entries, Ring
<1> QED BY <1>1, PhaseInvKept, Zenon

LEMMA PrepareInv ==
  ASSUME PimTypeOK, PhaseInv, NEW p \in Partitions, pim_prepare(p)
  PROVE  PhaseInv' /\ \A r \in Partitions : Heard(r)' = Heard(r)
<1>1. /\ stage[p] = "prepare" /\ stage' = [stage EXCEPT ![p] = "grant"] /\ UNCHANGED <<phase, told, heard, q_ready>>
  BY Zenon DEF pim_prepare
<1>2. stage \in [Partitions -> {"prepare", "grant", "accept", "process"}]
  BY Zenon DEF PimTypeOK, PhaseTypeOK
<1>3. Settled'
  <2>1. told[p] = N_PARTITIONS /\ heard[p] = N_PARTITIONS
    BY <1>1 DEF PhaseInv, Settled
  <2>2. \A r \in Partitions \ {p} : stage'[r] = stage[r]
    BY <1>1, <1>2, Zenon
  <2> QED BY <1>1, <2>1, <2>2, Zenon DEF PhaseInv, Settled
<1>4. \A r \in Partitions : ended(r)' = ended(r)
  BY EndedPrepare, Zenon
<1> QED BY <1>1, <1>3, <1>4, QuietInv, Zenon

LEMMA ProcessInv ==
  ASSUME PimTypeOK, PhaseInv, NEW p \in Partitions, pim_process_accepts(p)
  PROVE  PhaseInv' /\ \A r \in Partitions : Heard(r)' = Heard(r)
<1>1. /\ told[p] = N_PARTITIONS /\ heard[p] = N_PARTITIONS /\ UNCHANGED <<phase, told, heard, q_ready>>
      /\ (stage' = [stage EXCEPT ![p] = "grant"] \/ stage' = [stage EXCEPT ![p] = "prepare"])
  BY Zenon DEF pim_process_accepts
<1>2. stage \in [Partitions -> {"prepare", "grant", "accept", "process"}]
  BY Zenon DEF PimTypeOK, PhaseTypeOK
<1>3. Settled'
  <2>1. \A r \in Partitions \ {p} : stage'[r] = stage[r]
    BY <1>1, <1>2, Zenon
  <2> QED BY <1>1, <2>1, Zenon DEF PhaseInv, Settled
<1>4. \A r \in Partitions : ended(r)' = ended(r)
  BY EndedProcess, Zenon
<1> QED BY <1>1, <1>3, <1>4, QuietInv, Zenon

\* What core p knows when it ends a phase, and what changes
LEMMA GrantInvPhase ==
  ASSUME PimTypeOK, PhaseInv, NEW p \in Partitions, pim_do_grant(p)
  PROVE  /\ PhaseInv' /\ Heard(p)' = {} /\ ended(p)' = ended(p) + 1
         /\ \A r \in Partitions : round(r)' = round(r)
         /\ \A r \in Partitions \ {p} : Heard(r)' = Heard(r) /\ ended(r)' = ended(r) /\ (ended(r) = ended(p) \/ ended(r) = ended(p) + 1)
<1>1. stage[p] = "grant" /\ phase_finished(p, "accept") /\ UNCHANGED <<iteration, q_admitted_out>>
  BY Zenon DEF pim_do_grant
<1>2. /\ \A q \in Partitions : round(q)' = round(q)
      /\ \A q \in Partitions \ {p} : ended(q)' = ended(q)
      /\ ended(p)' = ended(p) + 1
  BY <1>1, EndedFinished, Zenon
<1>3. told[p] = N_PARTITIONS /\ heard[p] = N_PARTITIONS
  BY <1>1 DEF PhaseInv, Settled
<1>4. /\ PhaseInv' /\ Heard(p)' = {}
      /\ \A r \in Partitions \ {p} : Heard(r)' = Heard(r) /\ (ended(r) = ended(p) \/ ended(r) = ended(p) + 1)
  BY <1>1, <1>2, <1>3, FinishedInv, Zenon
<1> QED BY <1>2, <1>4, Zenon

LEMMA AcceptInvPhase ==
  ASSUME PimTypeOK, PhaseInv, NEW p \in Partitions, pim_do_accept(p)
  PROVE  /\ PhaseInv' /\ Heard(p)' = {} /\ ended(p)' = ended(p) + 1
         /\ \A r \in Partitions : round(r)' = round(r)
         /\ \A r \in Partitions \ {p} : Heard(r)' = Heard(r) /\ ended(r)' = ended(r) /\ (ended(r) = ended(p) \/ ended(r) = ended(p) + 1)
<1>1. /\ stage[p] = "accept" /\ phase_finished(p, "process") /\ UNCHANGED <<iteration, q_admitted_out>>
      /\ told[p] = N_PARTITIONS /\ heard[p] = N_PARTITIONS
  BY Zenon DEF pim_do_accept
<1>2. /\ \A q \in Partitions : round(q)' = round(q)
      /\ \A q \in Partitions \ {p} : ended(q)' = ended(q)
      /\ ended(p)' = ended(p) + 1
  BY <1>1, EndedFinished, Zenon
<1>4. /\ PhaseInv' /\ Heard(p)' = {}
      /\ \A r \in Partitions \ {p} : Heard(r)' = Heard(r) /\ (ended(r) = ended(p) \/ ended(r) = ended(p) + 1)
  BY <1>1, <1>2, FinishedInv, Zenon
<1> QED BY <1>2, <1>4, Zenon

LEMMA CollectInvPhase ==
  ASSUME PimTypeOK, PhaseInv, NEW p \in Partitions, collect_grants(p) \/ collect_accepts(p)
  PROVE  /\ PhaseInv'
         /\ finished(p) \in Partitions \ {p} /\ finished(p) \notin Heard(p) /\ Sent(finished(p), p)
         /\ Heard(p)' = Heard(p) \cup {finished(p)}
         /\ \A r \in Partitions : ended(r)' = ended(r) /\ round(r)' = round(r)
         /\ \A r \in Partitions \ {p} : Heard(r)' = Heard(r)
<1>1. hear(p) /\ UNCHANGED q_admitted_out /\ (stage[p] = "accept" \/ stage[p] = "process")
  BY Zenon DEF collect_grants, collect_accepts, waiting
<1>2. UNCHANGED <<stage, iteration, told>> /\ heard' = [heard EXCEPT ![p] = @ + 1]
  BY <1>1, Zenon DEF hear
<1>3. \A r \in Partitions : ended(r)' = ended(r) /\ round(r)' = round(r)
  BY <1>1, <1>2, EndedKept, Zenon
<1>4. Settled'
  <2>1. heard \in [Partitions -> 1 .. N_PARTITIONS]
    BY Zenon DEF PimTypeOK, PhaseTypeOK
  <2>2. \A r \in Partitions \ {p} : heard'[r] = heard[r]
    BY <1>2, <2>1, Zenon
  <2>3. stage[p] \notin {"prepare", "grant"}
    BY <1>1
  <2> QED BY <1>2, <2>2, <2>3, SettledKept, Zenon DEF PhaseInv
<1>5. /\ PhaseInv'
      /\ finished(p) \in Partitions \ {p} /\ finished(p) \notin Heard(p) /\ Sent(finished(p), p)
      /\ Heard(p)' = Heard(p) \cup {finished(p)}
      /\ \A r \in Partitions \ {p} : Heard(r)' = Heard(r)
  BY <1>1, <1>3, <1>4, HearInv, Zenon
<1> QED BY <1>3, <1>5, Zenon

LEMMA CommInvPhase ==
  ASSUME PimTypeOK, PhaseInv, UNCHANGED phases, UNCHANGED q_admitted_out
  PROVE  PhaseInv' /\ \A r \in Partitions : Heard(r)' = Heard(r) /\ ended(r)' = ended(r) /\ round(r)' = round(r)
<1>1. UNCHANGED <<stage, iteration, phase, told, heard, q_ready, q_admitted_out>>
  BY Zenon DEF phases
<1>2. \A r \in Partitions : ended(r)' = ended(r) /\ round(r)' = round(r)
  BY <1>1, EndedKept, Zenon
<1>3. Settled'
  BY <1>1, SettledKept, Zenon DEF PhaseInv
<1>4. PhaseInv' /\ \A r \in Partitions : Heard(r)' = Heard(r)
  BY <1>1, <1>2, <1>3, QuietInv, Zenon
<1> QED BY <1>2, <1>4, Zenon

LEMMA PhasesInductive == PimTypeOK /\ PhaseInv /\ [Next]_vars => PhaseInv'
<1> SUFFICES ASSUME PimTypeOK, PhaseInv, [Next]_vars PROVE PhaseInv'
  OBVIOUS
<1>1. CASE Next
  <2>1. ASSUME NEW f \in Flows, NEW amount \in 1 .. MAX_DEMAND, pim_add_backlog(f, amount) PROVE PhaseInv'
    <3>1. UNCHANGED phases /\ UNCHANGED q_admitted_out
      BY <2>1, Zenon DEF pim_add_backlog, edges
    <3> QED BY <3>1, CommInvPhase
  <2>2. CASE pim_flush_backlog
    <3>1. UNCHANGED phases /\ UNCHANGED q_admitted_out
      BY <2>2, Zenon DEF pim_flush_backlog, edges
    <3> QED BY <3>1, CommInvPhase
  <2>3. ASSUME NEW p \in Partitions, Step(p) PROVE PhaseInv'
    BY <2>3, EnqueueInv, PollInv, PrepareInv, GrantInvPhase, CollectInvPhase, AcceptInvPhase, ProcessInv, Zenon DEF Step
  <2> QED BY <1>1, <2>1, <2>2, <2>3, Zenon DEF Next
<1>2. CASE UNCHANGED vars
  <2>1. UNCHANGED phases /\ UNCHANGED q_admitted_out
    BY <1>2, Zenon DEF vars, edges
  <2> QED BY <2>1, CommInvPhase
<1> QED BY <1>1, <1>2

\* Where two cores are that are as far
LEMMA Stages ==
  ASSUME PimTypeOK, NEW p \in Partitions
  PROVE  /\ stage[p] \in {"prepare", "grant", "accept", "process"} /\ round(p) \in Nat
         /\ stage[p] \in {"prepare", "grant"} => ended(p) = 2 * round(p)
         /\ stage[p] = "accept" => ended(p) = 2 * round(p) + 1
         /\ stage[p] = "process" => ended(p) = 2 * round(p) + 2
<1>1. stage[p] \in {"prepare", "grant", "accept", "process"} /\ round(p) \in Nat
  BY EndedType, Zenon DEF PimTypeOK, PhaseTypeOK
<1> QED BY <1>1 DEF ended

LEMMA RoundFacts ==
  ASSUME PimTypeOK, NEW p \in Partitions, NEW q \in Partitions, round(p) = round(q), stage[p] # "prepare"
  PROVE  /\ Len(q_admitted_out[p]) = Len(q_admitted_out[q])
         /\ stage[q] # "prepare" => iteration[p] = iteration[q]
         /\ stage[q] = "prepare" => iteration[p] = 1
<1> DEFINE a == Len(q_admitted_out[p])
           b == Len(q_admitted_out[q])
           i == iteration[p] - 1
           j == IF stage[q] = "prepare" THEN 0 ELSE iteration[q] - 1
           m == NUM_ITERATIONS
<1>1. a \in Nat /\ b \in Nat
  <2>1. q_admitted_out[p] \in Seq(SUBSET Flows) /\ q_admitted_out[q] \in Seq(SUBSET Flows)
    BY Zenon DEF PimTypeOK, EdgeTypeOK
  <2> QED BY <2>1
<1>2. iteration[p] \in 1 .. m /\ iteration[q] \in 1 .. m /\ m \in Nat \ {0}
  BY Sizes DEF PimTypeOK, PhaseTypeOK
<1>3. i \in 0 .. m - 1 /\ j \in 0 .. m - 1
  BY <1>2
<1>4. m * a + i = m * b + j
  BY DEF round
<1> HIDE DEF a, b, i, j, m
<1>5. ASSUME NEW x \in Nat, NEW y \in Nat, NEW u \in 0 .. m - 1, NEW v \in 0 .. m - 1, m * x + u = m * y + v, x < y PROVE FALSE
  <2>1. PICK z \in Nat : y = x + 1 + z
    <3>1. y - (x + 1) \in Nat /\ y = x + 1 + (y - (x + 1))
      BY <1>5
    <3> QED BY <3>1
  <2>2. m * y = m * x + m + m * z /\ m * z \in Nat /\ m * x \in Nat
    BY <1>2, <2>1
  <2> QED BY <1>2, <1>5, <2>2
<1>6. ~(a < b) /\ ~(b < a)
  BY <1>1, <1>3, <1>4, <1>5
<1>7. a = b
  BY <1>1, <1>6
<1>8. m * a \in Nat
  BY <1>1, <1>2
<1>9. i = j
  BY <1>3, <1>4, <1>7, <1>8
<1> QED BY <1>2, <1>7, <1>9 DEF a, b, i, j

\* How far the others are when core p has heard of all
LEMMA AllBehind ==
  ASSUME PimTypeOK, PhaseInv, NEW p \in Partitions, heard[p] = N_PARTITIONS, NEW q \in Partitions
  PROVE  /\ ended(p) \in Nat /\ ended(q) \in Nat
         /\ ended(q) = ended(p) \/ (ended(q) = ended(p) + 1 /\ heard[q] # N_PARTITIONS)
<1>1. \A r \in Partitions : ended(r) \in Nat
  BY EndedType, Zenon
<1>2. \A r, t \in Partitions : heard[r] = N_PARTITIONS /\ t # r => ended(t) = ended(r) \/ ended(t) = ended(r) + 1
  BY HeardOfAll, Zenon DEF Heard, Sent
<1>3. ended(q) = ended(p) + 1 /\ heard[q] = N_PARTITIONS => p = q \/ ended(p) = ended(q) \/ ended(p) = ended(q) + 1
  BY <1>2, Zenon
<1> QED BY <1>1, <1>2, <1>3

LEMMA InvNoRace == PimTypeOK /\ PhaseInv => NoRace
<1> SUFFICES ASSUME PimTypeOK, PhaseInv, NEW p \in Partitions, NEW q \in Partitions,
                    p # q, stage[p] = "grant", iteration[p] > 1
             PROVE  /\ stage[q] # "prepare"
                    /\ ~(stage[q] = "accept" /\ told[q] = N_PARTITIONS /\ heard[q] = N_PARTITIONS)
  BY Zenon DEF NoRace
<1>1. heard[p] = N_PARTITIONS
  BY DEF PhaseInv, Settled
<1>2. ended(q) = ended(p) \/ (ended(q) = ended(p) + 1 /\ heard[q] # N_PARTITIONS)
  BY <1>1, AllBehind, Zenon
<1>3. ended(p) = 2 * round(p) /\ round(p) \in Nat /\ round(q) \in Nat
  BY Stages
<1>4. ASSUME stage[q] = "prepare" PROVE FALSE
  <2>1. ended(q) = 2 * round(q)
    BY <1>4, Stages
  <2>2. round(p) = round(q)
    BY <1>2, <1>3, <2>1
  <2>3. iteration[p] = 1
    BY <1>4, <2>2, RoundFacts
  <2> QED BY <2>3
<1>5. ASSUME stage[q] = "accept", heard[q] = N_PARTITIONS PROVE FALSE
  <2>1. ended(q) = 2 * round(q) + 1
    BY <1>5, Stages
  <2> QED BY <1>2, <1>3, <1>5, <2>1
<1> QED BY <1>4, <1>5

-----------------------------------------------------------------------------
(* What the cores write in the phases.                                     *)

\* The partitions of a flow's source and of its destination
SrcP(f) == PARTITION_OF(f[1])
DstP(f) == PARTITION_OF(f[2])

\* Core p is between its grants and the end of the processing of the accepts.
InRound(p) == stage[p] \in {"accept", "process"}

\* Core p has processed what core q accepted in this round.
Processed(p, q) == stage[p] = "process" /\ (q = p \/ q \in Heard(p))

\* Core q has accepted in the round that core p is in.
HasAccepted(q, p) == ended(q) >= 2 * round(p) + 2

\* A source grants one destination at most, and what is sorted by destination was granted in this round.
GrantInv ==
    /\ \A s \in Nodes : \A c, d \in grants[s] : c = d
    /\ \A d \in Nodes :
         stage[PARTITION_OF(d)] = "accept" =>
         \A s \in grants_by_dst[d] :
            d \in grants[s] /\ ended(PARTITION_OF(s)) >= ended(PARTITION_OF(d))

\* What is accepted was granted in the round that the source's core is in.
AcceptInv ==
    \A f \in accepts : f[2] \in grants[f[1]] /\ InRound(SrcP(f)) /\ HasAccepted(DstP(f), SrcP(f))

\* Core p marks the sources it admits, and what a source is granted later in the timeslot is nothing.
SourceOK(p) ==
    /\ stage[p] = "grant" /\ iteration[p] = 1 => admitted[p] = {}
    /\ stage[p] # "prepare" => \A g \in admitted[p] : g[1] \in src_endnodes
    /\ \A g, h \in admitted[p] : g[1] = h[1] => g = h
    /\ InRound(p) => \A g \in admitted[p] : \A d \in grants[g[1]] : d = g[2] /\ Processed(p, PARTITION_OF(d))

SourceInv == \A p \in Partitions : SourceOK(p)

\* In its first iteration a core's destinations are not marked, and later what it grants was not when the
\* core of the destination accepted.
MarkInv ==
    /\ \A p \in Partitions : stage[p] \in {"grant", "accept"} /\ iteration[p] = 1 => \A d \in NodesOf(p) : d \notin dst_endnodes
    /\ \A p \in Partitions : InRound(p) /\ iteration[p] > 1 =>
         \A s \in NodesOf(p) : \A d \in grants[s] :
            ~HasAccepted(PARTITION_OF(d), p) => d \notin dst_endnodes

\* What core p has or will have in its t-th timeslot
SlotOf(p, t) ==
    IF t <= Len(q_admitted_out[p]) THEN q_admitted_out[p][t]
    ELSE IF t = Len(q_admitted_out[p]) + 1 /\ stage[p] # "prepare" THEN admitted[p] ELSE {}

\* A flow that has timeslot t or is accepted for it
Placed(f, t) == f \in SlotOf(SrcP(f), t) \/ (f \in accepts /\ t = Len(q_admitted_out[SrcP(f)]) + 1)

\* The core of the destination has completed timeslot t, or has marked the destination in it.
Marked(f, t) ==
    \/ t <= Len(q_admitted_out[DstP(f)])
    \/ t = Len(q_admitted_out[DstP(f)]) + 1 /\ stage[DstP(f)] # "prepare" /\ f[2] \in dst_endnodes

\* Destinations have one packet in a timeslot, also among what the sources' cores have not processed.
DestinationInv ==
    \A t \in 1 .. MAX_SLOTS : \A f \in Flows : Placed(f, t) =>
        Marked(f, t) /\ \A g \in Flows : Placed(g, t) /\ f[2] = g[2] => f = g

SlotOK(p) ==
    /\ stage[p] # "prepare" => Len(q_admitted_out[p]) < MAX_SLOTS
    /\ Len(q_admitted_out[p]) <= MAX_SLOTS
    /\ \A t \in DOMAIN q_admitted_out[p] : \A g, h \in q_admitted_out[p][t] : g[1] = h[1] => g = h

SlotInv == \A p \in Partitions : SlotOK(p)

\* Until the accept is processed, the index that was drawn is that of the destination that was granted.
IndexInv ==
    \A p \in Partitions : InRound(p) =>
       \A s \in NodesOf(p) : \A d \in grants[s] :
          ~Processed(p, PARTITION_OF(d)) =>
             grant_adj_index[s] \in DOMAIN requests[s] /\ requests[s][grant_adj_index[s]] = d

-----------------------------------------------------------------------------
(* Flows and their nodes.                                                  *)

LEMMA EndFacts ==
  ASSUME NEW f \in Flows
  PROVE  /\ SrcP(f) \in Partitions /\ DstP(f) \in Partitions
         /\ f[1] \in Nodes /\ f[2] \in Nodes /\ f[1] \in NodesOf(SrcP(f)) /\ f[2] \in NodesOf(DstP(f))
  BY FlowFacts, NodeFacts, Zenon DEF SrcP, DstP, NodesOf

LEMMA OfFacts ==
  ASSUME NEW p, NEW n \in NodesOf(p)
  PROVE  n \in Nodes /\ PARTITION_OF(n) = p
  BY DEF NodesOf

LEMMA GrantedFacts ==
  ASSUME PimTypeOK, NEW s \in Nodes, NEW d \in grants[s]
  PROVE  d \in Nodes /\ <<s, d>> \in Flows /\ PARTITION_OF(d) \in Partitions /\ PARTITION_OF(s) \in Partitions
<1>1. d \in Nodes /\ <<s, d>> \in Flows
  BY Zenon DEF PimTypeOK, EdgeTypeOK
<1> QED BY <1>1, NodeFacts, Zenon

LEMMA AdmittedFacts ==
  ASSUME PimTypeOK, NEW p \in Partitions, NEW g \in admitted[p]
  PROVE  g \in Flows /\ SrcP(g) = p /\ g[1] \in NodesOf(p)
<1>1. g \in Flows /\ SrcP(g) = p
  BY Zenon DEF PimTypeOK, EdgeTypeOK, FlowsOf, SrcP
<1> QED BY <1>1, EndFacts, Zenon

-----------------------------------------------------------------------------
(* What the steps change.                                                  *)

\* Only core p goes on, from stage a to stage b.
Goes(p, a, b) == stage[p] = a /\ stage'[p] = b /\ \A r \in Partitions \ {p} : stage'[r] = stage[r]

LEMMA GoesFacts ==
  ASSUME PimTypeOK, NEW p \in Partitions, NEW a, NEW b, stage[p] = a, stage' = [stage EXCEPT ![p] = b]
  PROVE  Goes(p, a, b)
  BY Zenon DEF PimTypeOK, PhaseTypeOK, Goes

\* Where the others are when core p grants: core r is in the round of p, or at the end of the one before.
LEMMA GrantStep ==
  ASSUME PimTypeOK, PhaseInv, NEW p \in Partitions, pim_do_grant(p)
  PROVE  /\ Goes(p, "grant", "accept")
         /\ UNCHANGED <<demands, requests, accepts, src_endnodes, dst_endnodes, admitted, q_admitted_out, iteration>>
         /\ \A r \in Partitions : ended(r)' \in Nat /\ ended(r)' >= ended(r) /\ round(r)' = round(r)
         /\ ended(p)' = ended(p) + 1 /\ Heard(p)' = {}
         /\ \A r \in Partitions \ {p} : Heard(r)' = Heard(r) /\ ended(r)' = ended(r)
         /\ \A r \in Partitions : stage[r] = "accept" => ended(r) > ended(p)
<1>1. /\ stage[p] = "grant" /\ stage' = [stage EXCEPT ![p] = "accept"]
      /\ UNCHANGED <<demands, requests, accepts, src_endnodes, dst_endnodes, admitted, q_admitted_out, iteration>>
  BY Zenon DEF pim_do_grant, phase_finished
<1>2. Goes(p, "grant", "accept")
  BY <1>1, GoesFacts, Zenon
<1>3. /\ Heard(p)' = {} /\ ended(p)' = ended(p) + 1
      /\ \A r \in Partitions : round(r)' = round(r)
      /\ \A r \in Partitions \ {p} : Heard(r)' = Heard(r) /\ ended(r)' = ended(r) /\ (ended(r) = ended(p) \/ ended(r) = ended(p) + 1)
  BY GrantInvPhase, Zenon
<1>4. \A r \in Partitions : ended(r) \in Nat
  BY EndedType, Zenon
<1>5. \A r \in Partitions : ended(r)' \in Nat /\ ended(r)' >= ended(r)
  BY <1>3, <1>4
<1>6. ASSUME NEW r \in Partitions, stage[r] = "accept" PROVE ended(r) > ended(p)
  <2>1. ended(r) = 2 * round(r) + 1 /\ ended(p) = 2 * round(p) /\ round(r) \in Nat /\ round(p) \in Nat
    BY <1>1, <1>6, Stages
  <2>2. r # p
    BY <1>1, <1>6
  <2> QED BY <1>3, <2>1, <2>2
<1> QED BY <1>1, <1>2, <1>3, <1>5, <1>6, Zenon

\* Core r, which granted to core p in the phase that p ends, is in the round of p.
LEMMA AcceptStep ==
  ASSUME PimTypeOK, PhaseInv, NEW p \in Partitions, pim_do_accept(p)
  PROVE  /\ Goes(p, "accept", "process")
         /\ UNCHANGED <<grant_adj_index, grants, grants_by_dst, q_admitted_out, iteration, new_demands, q_new_demands>>
         /\ \A r \in Partitions : ended(r)' \in Nat /\ ended(r)' >= ended(r) /\ round(r)' = round(r)
         /\ ended(p)' = 2 * round(p) + 2 /\ ended(p) = 2 * round(p) + 1 /\ Heard(p)' = {}
         /\ \A r \in Partitions \ {p} : Heard(r)' = Heard(r) /\ ended(r)' = ended(r)
         /\ \A r \in Partitions : InRound(r) => round(r) <= round(p)
         /\ \A r \in Partitions : ended(r) >= ended(p) => InRound(r) /\ round(r) = round(p)
<1>1. /\ stage[p] = "accept" /\ stage' = [stage EXCEPT ![p] = "process"] /\ heard[p] = N_PARTITIONS
      /\ UNCHANGED <<grant_adj_index, grants, grants_by_dst, q_admitted_out, iteration, new_demands, q_new_demands>>
  BY Zenon DEF pim_do_accept, phase_finished, process_accepts_from
<1>2. Goes(p, "accept", "process")
  BY <1>1, GoesFacts, Zenon
<1>3. /\ Heard(p)' = {} /\ ended(p)' = ended(p) + 1
      /\ \A r \in Partitions : round(r)' = round(r)
      /\ \A r \in Partitions \ {p} : Heard(r)' = Heard(r) /\ ended(r)' = ended(r) /\ (ended(r) = ended(p) \/ ended(r) = ended(p) + 1)
  BY AcceptInvPhase, Zenon
<1>4. \A r \in Partitions : ended(r) \in Nat
  BY EndedType, Zenon
<1>5. \A r \in Partitions : ended(r)' \in Nat /\ ended(r)' >= ended(r)
  BY <1>3, <1>4
<1>6. ended(p) = 2 * round(p) + 1 /\ round(p) \in Nat
  BY <1>1, Stages
<1>7. ended(p)' = 2 * round(p) + 2
  BY <1>3, <1>6
<1>8. ASSUME NEW r \in Partitions
      PROVE  /\ InRound(r) => round(r) <= round(p)
             /\ ended(r) >= ended(p) => InRound(r) /\ round(r) = round(p)
  <2>1. /\ stage[r] \in {"prepare", "grant", "accept", "process"} /\ round(r) \in Nat
        /\ stage[r] \in {"prepare", "grant"} => ended(r) = 2 * round(r)
        /\ stage[r] = "accept" => ended(r) = 2 * round(r) + 1
        /\ stage[r] = "process" => ended(r) = 2 * round(r) + 2
    BY <1>8, Stages
  <2>2. ended(r) = ended(p) \/ (ended(r) = ended(p) + 1 /\ heard[r] # N_PARTITIONS)
    BY <1>1, <1>8, AllBehind, Zenon
  <2>3. stage[r] \in {"prepare", "grant"} => heard[r] = N_PARTITIONS
    BY <1>8, Zenon DEF PhaseInv, Settled
  <2> QED BY <1>6, <2>1, <2>2, <2>3 DEF InRound
<1> QED BY <1>1, <1>2, <1>3, <1>5, <1>6, <1>7, <1>8, Zenon

\* Core p hears of a core that is as far as itself, or farther.
LEMMA CollectStep ==
  ASSUME PimTypeOK, PhaseInv, NEW p \in Partitions, collect_grants(p) \/ collect_accepts(p)
  PROVE  /\ UNCHANGED <<stage, iteration, q_admitted_out, grants, grant_adj_index, accepts, dst_endnodes>>
         /\ \A r \in Partitions : ended(r)' = ended(r) /\ round(r)' = round(r)
         /\ finished(p) \in Partitions \ {p} /\ finished(p) \notin Heard(p) /\ ended(finished(p)) >= ended(p)
         /\ Heard(p)' = Heard(p) \cup {finished(p)}
         /\ \A r \in Partitions \ {p} : Heard(r)' = Heard(r)
<1>1. UNCHANGED <<stage, iteration, q_admitted_out, grants, grant_adj_index, accepts, dst_endnodes>>
  BY Zenon DEF collect_grants, collect_accepts, hear
<1>2. /\ finished(p) \in Partitions \ {p} /\ finished(p) \notin Heard(p) /\ Sent(finished(p), p)
      /\ Heard(p)' = Heard(p) \cup {finished(p)}
      /\ \A r \in Partitions : ended(r)' = ended(r) /\ round(r)' = round(r)
      /\ \A r \in Partitions \ {p} : Heard(r)' = Heard(r)
  BY CollectInvPhase, Zenon
<1>3. PICK q \in Partitions : q = finished(p)
  BY <1>2
<1>4. ended(q) \in Nat /\ ended(p) \in Nat
  BY EndedType
<1>5. ended(q) >= ended(p)
  BY <1>2, <1>3, <1>4 DEF Sent
<1> QED BY <1>1, <1>2, <1>3, <1>5, Zenon

-----------------------------------------------------------------------------
(* Grants.                                                                 *)

LEMMA GrantKept ==
  ASSUME GrantInv, UNCHANGED <<grants, grants_by_dst>>, PimTypeOK,
         \A r \in Partitions : ended(r)' \in Nat /\ ended(r)' >= ended(r),
         \A r \in Partitions : stage'[r] = "accept" => stage[r] = "accept" /\ ended(r)' = ended(r)
  PROVE  GrantInv'
<1>1. \A s \in Nodes : \A c, d \in grants'[s] : c = d
  BY Zenon DEF GrantInv
<1>2. ASSUME NEW d \in Nodes, stage'[PARTITION_OF(d)] = "accept", NEW s \in grants_by_dst'[d]
      PROVE  d \in grants'[s] /\ ended(PARTITION_OF(s))' >= ended(PARTITION_OF(d))'
  <2>1. s \in Nodes /\ PARTITION_OF(s) \in Partitions /\ PARTITION_OF(d) \in Partitions
    BY <1>2, NodeFacts, Zenon DEF PimTypeOK, EdgeTypeOK
  <2>2. d \in grants[s] /\ ended(PARTITION_OF(s)) >= ended(PARTITION_OF(d))
    BY <1>2, <2>1, Zenon DEF GrantInv
  <2>3. ended(PARTITION_OF(s)) \in Nat /\ ended(PARTITION_OF(d)) \in Nat
    BY <2>1, EndedType
  <2>4. ended(PARTITION_OF(d))' = ended(PARTITION_OF(d)) /\ ended(PARTITION_OF(s))' >= ended(PARTITION_OF(s)) /\ ended(PARTITION_OF(s))' \in Nat
    BY <1>2, <2>1, Zenon
  <2>5. ended(PARTITION_OF(s))' >= ended(PARTITION_OF(d))'
    BY <2>2, <2>3, <2>4
  <2> QED BY <2>2, <2>5, Zenon
<1> QED BY <1>1, <1>2, Zenon DEF GrantInv

LEMMA GrantInvAtGrant ==
  ASSUME PimTypeOK, PhaseInv, GrantInv, NEW p \in Partitions, pim_do_grant(p)
  PROVE  GrantInv'
<1>1. /\ Goes(p, "grant", "accept")
      /\ ended(p)' = ended(p) + 1
      /\ \A r \in Partitions \ {p} : ended(r)' = ended(r)
      /\ \A r \in Partitions : stage[r] = "accept" => ended(r) > ended(p)
  BY GrantStep, Zenon
<1>2. /\ \A s \in NodesOf(p) : Grants(p, s)
      /\ \A s \in Nodes \ NodesOf(p) : grants'[s] = grants[s]
  BY GrantFacts, Zenon
<1>3. \A s \in Nodes : \A c, d \in grants'[s] : c = d
  <2>1. \A s \in NodesOf(p) : \A c, d \in grants'[s] : c = d
    BY <1>2, Zenon DEF Grants
  <2> QED BY <1>2, <2>1, Zenon DEF GrantInv
<1>4. /\ \A d \in NodesOf(p) : grants_by_dst'[d] = {s \in NodesOf(p) : d \in grants'[s]}
      /\ \A d \in Nodes \ NodesOf(p) : grants_by_dst'[d] = grants_by_dst[d]
  <2>1. grants_by_dst' = [d \in Nodes |-> IF d \in NodesOf(p)
                                         THEN {s \in NodesOf(p) : d \in grants'[s]}
                                         ELSE grants_by_dst[d]]
    BY Zenon DEF pim_do_grant
  <2>2. NodesOf(p) \subseteq Nodes
    BY DEF NodesOf
  <2> QED BY <2>1, <2>2, Zenon
<1>5. ASSUME NEW d \in Nodes, stage'[PARTITION_OF(d)] = "accept", NEW s \in grants_by_dst'[d]
      PROVE  d \in grants'[s] /\ ended(PARTITION_OF(s))' >= ended(PARTITION_OF(d))'
  <2>1. CASE d \in NodesOf(p)
    <3>1. s \in NodesOf(p) /\ d \in grants'[s]
      BY <1>4, <1>5, <2>1, Zenon
    <3>2. PARTITION_OF(s) = p /\ PARTITION_OF(d) = p
      BY <2>1, <3>1, OfFacts, Zenon
    <3>3. ended(p) \in Nat
      BY EndedType
    <3>4. ended(p)' >= ended(p)'
      BY <1>1, <3>3
    <3> QED BY <3>1, <3>2, <3>4, Zenon
  <2>2. CASE d \notin NodesOf(p)
    <3>1. s \in grants_by_dst[d]
      BY <1>4, <1>5, <2>2, Zenon
    <3>2. s \in Nodes
      BY <1>5, <3>1, Zenon DEF PimTypeOK, EdgeTypeOK
    <3>3. PICK q \in Partitions : q = PARTITION_OF(d)
      BY <1>5, NodeFacts, Zenon
    <3>4. PICK r \in Partitions : r = PARTITION_OF(s)
      BY <3>2, NodeFacts, Zenon
    <3>5. q # p
      BY <1>5, <2>2, <3>3, Zenon DEF NodesOf
    <3>6. stage[q] = "accept"
      BY <1>1, <1>5, <3>3, <3>5, Zenon DEF Goes
    <3>7. d \in grants[s] /\ ended(r) >= ended(q) /\ ended(q) > ended(p)
      BY <1>1, <1>5, <3>1, <3>3, <3>4, <3>6, Zenon DEF GrantInv
    <3>8. ended(r) \in Nat /\ ended(q) \in Nat /\ ended(p) \in Nat
      BY EndedType
    <3>9. r # p
      BY <3>7, <3>8
    <3>10. s \notin NodesOf(p)
      BY <3>4, <3>9, OfFacts, Zenon
    <3>11. ended(r)' = ended(r) /\ ended(q)' = ended(q) /\ grants'[s] = grants[s]
      BY <1>1, <1>2, <3>2, <3>5, <3>9, <3>10, Zenon
    <3>12. d \in grants'[s] /\ ended(r)' >= ended(q)'
      BY <3>7, <3>11, Zenon
    <3> QED BY <3>3, <3>4, <3>12, Zenon
  <2> QED BY <2>1, <2>2
<1> QED BY <1>3, <1>5, Zenon DEF GrantInv

LEMMA GrantInvAtCollect ==
  ASSUME PimTypeOK, PhaseInv, GrantInv, NEW p \in Partitions, collect_grants(p)
  PROVE  GrantInv'
<1>1. /\ UNCHANGED <<stage, grants>>
      /\ \A r \in Partitions : ended(r)' = ended(r)
      /\ finished(p) \in Partitions \ {p} /\ ended(finished(p)) >= ended(p)
  BY CollectStep, Zenon
<1>2. grants_by_dst' = [d \in Nodes |->
                           IF d \in NodesOf(p)
                           THEN add_edges_by_dst(grants_by_dst[d], finished(p), d)
                           ELSE grants_by_dst[d]]
  BY Zenon DEF collect_grants
<1>3. PICK q \in Partitions \ {p} : q = finished(p)
  BY <1>1, Zenon
<1>4. ASSUME NEW d \in Nodes, stage'[PARTITION_OF(d)] = "accept", NEW s \in grants_by_dst'[d]
      PROVE  d \in grants'[s] /\ ended(PARTITION_OF(s))' >= ended(PARTITION_OF(d))'
  <2>1. s \in grants_by_dst[d] \/ (d \in NodesOf(p) /\ s \in NodesOf(q) /\ d \in grants[s])
    <3>1. grants_by_dst'[d] = IF d \in NodesOf(p) THEN grants_by_dst[d] \cup {t \in NodesOf(q) : d \in grants[t]} ELSE grants_by_dst[d]
      BY <1>2, <1>3, <1>4, Zenon DEF add_edges_by_dst
    <3> QED BY <1>4, <3>1
  <2>2. s \in Nodes
    BY <1>4, <2>1, OfFacts, Zenon DEF PimTypeOK, EdgeTypeOK
  <2>3. PARTITION_OF(d) \in Partitions /\ PARTITION_OF(s) \in Partitions
    BY <1>4, <2>2, NodeFacts, Zenon
  <2>4. d \in grants[s] /\ ended(PARTITION_OF(s)) >= ended(PARTITION_OF(d))
    <3>1. CASE s \in grants_by_dst[d]
      BY <1>1, <1>4, <3>1, Zenon DEF GrantInv
    <3>2. CASE d \in NodesOf(p) /\ s \in NodesOf(q) /\ d \in grants[s]
      <4>1. PARTITION_OF(d) = p /\ PARTITION_OF(s) = q
        BY <3>2, OfFacts, Zenon
      <4> QED BY <1>1, <1>3, <3>2, <4>1, Zenon
    <3> QED BY <2>1, <3>1, <3>2
  <2> QED BY <1>1, <2>3, <2>4, Zenon
<1>5. \A s \in Nodes : \A c, d \in grants'[s] : c = d
  BY <1>1, Zenon DEF GrantInv
<1> QED BY <1>4, <1>5, Zenon DEF GrantInv

-----------------------------------------------------------------------------
(* Accepts.                                                                *)

LEMMA AcceptKept ==
  ASSUME AcceptInv, PimTypeOK, accepts' \subseteq accepts,
         \A f \in accepts' : grants'[f[1]] = grants[f[1]] /\ InRound(SrcP(f))' /\ round(SrcP(f))' = round(SrcP(f)),
         \A r \in Partitions : ended(r)' \in Nat /\ ended(r)' >= ended(r)
  PROVE  AcceptInv'
<1> SUFFICES ASSUME NEW f \in accepts'
             PROVE  (f[2] \in grants[f[1]] /\ InRound(SrcP(f)) /\ HasAccepted(DstP(f), SrcP(f)))'
  BY Zenon DEF AcceptInv
<1>1. f \in accepts /\ f \in Flows
  BY Zenon DEF PimTypeOK, EdgeTypeOK
<1>2. f[2] \in grants[f[1]] /\ ended(DstP(f)) >= 2 * round(SrcP(f)) + 2
  BY <1>1, Zenon DEF AcceptInv, HasAccepted
<1>3. SrcP(f) \in Partitions /\ DstP(f) \in Partitions
  BY <1>1, EndFacts
<1>4. ended(DstP(f)) \in Nat /\ round(SrcP(f)) \in Nat
  BY <1>3, EndedType
<1>5. f[2] \in grants'[f[1]] /\ InRound(SrcP(f))' /\ round(SrcP(f))' = round(SrcP(f)) /\ ended(DstP(f))' >= ended(DstP(f)) /\ ended(DstP(f))' \in Nat
  BY <1>2, <1>3, Zenon
<1>6. HasAccepted(DstP(f), SrcP(f))'
  <2>1. ended(DstP(f))' >= 2 * round(SrcP(f))' + 2
    BY <1>2, <1>4, <1>5
  <2> QED BY <2>1, Zenon DEF HasAccepted
<1> QED BY <1>5, <1>6, Zenon

LEMMA AcceptInvAtGrant ==
  ASSUME PimTypeOK, PhaseInv, AcceptInv, NEW p \in Partitions, pim_do_grant(p)
  PROVE  AcceptInv'
<1>1. /\ Goes(p, "grant", "accept") /\ UNCHANGED accepts
      /\ \A r \in Partitions : ended(r)' \in Nat /\ ended(r)' >= ended(r) /\ round(r)' = round(r)
  BY GrantStep, Zenon
<1>2. \A s \in Nodes \ NodesOf(p) : grants'[s] = grants[s]
  BY GrantFacts, Zenon
<1>3. ASSUME NEW f \in accepts' PROVE grants'[f[1]] = grants[f[1]] /\ InRound(SrcP(f))' /\ round(SrcP(f))' = round(SrcP(f))
  <2>1. f \in accepts /\ f \in Flows /\ InRound(SrcP(f))
    BY <1>1, <1>3, Zenon DEF AcceptInv, PimTypeOK, EdgeTypeOK
  <2>2. SrcP(f) \in Partitions /\ f[1] \in Nodes
    BY <2>1, EndFacts
  <2>3. SrcP(f) # p
    BY <1>1, <2>1 DEF Goes, InRound
  <2>4. f[1] \notin NodesOf(p)
    BY <2>3, OfFacts, Zenon DEF SrcP
  <2>5. InRound(SrcP(f))'
    BY <1>1, <2>1, <2>2, <2>3, Zenon DEF Goes, InRound
  <2> QED BY <1>1, <1>2, <2>2, <2>4, <2>5, Zenon
<1>4. accepts' \subseteq accepts
  BY <1>1, Zenon
<1> QED BY <1>1, <1>3, <1>4, AcceptKept, Zenon

\* What core p accepts was granted in the round that it is in.
LEMMA NewAccepts ==
  ASSUME PimTypeOK, PhaseInv, GrantInv, NEW p \in Partitions, pim_do_accept(p), NEW new, Accepts(p, new), NEW f \in new
  PROVE  /\ f \in Flows /\ DstP(f) = p /\ f[2] \in grants[f[1]]
         /\ InRound(SrcP(f)) /\ round(SrcP(f)) = round(p)
<1>1. f \in Flows /\ f[2] \in NodesOf(p) /\ f[1] \in grants_by_dst[f[2]]
  BY Zenon DEF Accepts
<1>2. f[2] \in Nodes /\ DstP(f) = p
  BY <1>1, OfFacts, Zenon DEF DstP
<1>3. /\ stage[p] = "accept"
      /\ \A r \in Partitions : ended(r) >= ended(p) => InRound(r) /\ round(r) = round(p)
  BY AcceptStep, Zenon DEF Goes
<1>4. f[2] \in grants[f[1]] /\ ended(SrcP(f)) >= ended(p)
  BY <1>1, <1>2, <1>3, Zenon DEF GrantInv, DstP, SrcP
<1>5. SrcP(f) \in Partitions
  BY <1>1, EndFacts
<1> QED BY <1>1, <1>2, <1>3, <1>4, <1>5, Zenon

LEMMA AcceptInvAtAccept ==
  ASSUME PimTypeOK, PhaseInv, GrantInv, AcceptInv, NEW p \in Partitions, pim_do_accept(p)
  PROVE  AcceptInv'
<1>1. /\ Goes(p, "accept", "process") /\ UNCHANGED grants
      /\ \A r \in Partitions : ended(r)' \in Nat /\ ended(r)' >= ended(r) /\ round(r)' = round(r)
      /\ ended(p)' = 2 * round(p) + 2
  BY AcceptStep, Zenon
<1>2. PICK new : Accepts(p, new)
  BY AcceptFacts, Zenon
<1>3. accepts' = accepts \cup new
  BY <1>2, Zenon DEF Accepts
<1>4. \A r \in Partitions : InRound(r) => InRound(r)'
  BY <1>1, Zenon DEF Goes, InRound
<1> SUFFICES ASSUME NEW f \in accepts'
             PROVE  (f[2] \in grants[f[1]] /\ InRound(SrcP(f)) /\ HasAccepted(DstP(f), SrcP(f)))'
  BY Zenon DEF AcceptInv
<1>5. CASE f \in new
  <2>1. f \in Flows /\ DstP(f) = p /\ f[2] \in grants[f[1]] /\ InRound(SrcP(f)) /\ round(SrcP(f)) = round(p)
    BY <1>2, <1>5, NewAccepts, Zenon
  <2>2. SrcP(f) \in Partitions
    BY <2>1, EndFacts
  <2>3. round(p) \in Nat
    BY EndedType
  <2>4. ended(p)' >= 2 * round(SrcP(f))' + 2
    <3>1. round(SrcP(f))' = round(p)
      BY <1>1, <2>1, <2>2, Zenon
    <3> QED BY <1>1, <2>3, <3>1
  <2> QED BY <1>1, <1>4, <2>1, <2>2, <2>4, Zenon DEF HasAccepted
<1>6. CASE f \in accepts
  <2>1. f \in Flows
    BY <1>6, Zenon DEF PimTypeOK, EdgeTypeOK
  <2>2. SrcP(f) \in Partitions /\ DstP(f) \in Partitions
    BY <2>1, EndFacts
  <2>3. f[2] \in grants[f[1]] /\ InRound(SrcP(f)) /\ ended(DstP(f)) >= 2 * round(SrcP(f)) + 2
    BY <1>6, Zenon DEF AcceptInv, HasAccepted
  <2>4. ended(DstP(f)) \in Nat /\ round(SrcP(f)) \in Nat
    BY <2>2, EndedType
  <2>5. ended(DstP(f))' \in Nat /\ ended(DstP(f))' >= ended(DstP(f)) /\ round(SrcP(f))' = round(SrcP(f)) /\ InRound(SrcP(f))' /\ f[2] \in grants'[f[1]]
    BY <1>1, <1>4, <2>2, <2>3, Zenon
  <2>6. ended(DstP(f))' >= 2 * round(SrcP(f))' + 2
    BY <2>3, <2>4, <2>5
  <2> QED BY <2>5, <2>6, Zenon DEF HasAccepted
<1> QED BY <1>3, <1>5, <1>6

-----------------------------------------------------------------------------
(* Sources.                                                                *)

\* Steps of other cores do not concern core p's sources.
LEMMA SourceKept ==
  ASSUME PimTypeOK, NEW p \in Partitions, SourceOK(p), stage'[p] = stage[p], iteration'[p] = iteration[p],
         admitted'[p] = admitted[p], \A n \in NodesOf(p) : grants'[n] = grants[n],
         \A n \in NodesOf(p) : n \in src_endnodes => n \in src_endnodes',
         \A r \in Partitions : Processed(p, r) => Processed(p, r)'
  PROVE  SourceOK(p)'
<1>1. \A g \in admitted[p] : g[1] \in NodesOf(p) /\ g[1] \in Nodes
  BY AdmittedFacts, OfFacts, Zenon
<1>2. (stage[p] = "grant" /\ iteration[p] = 1 => admitted[p] = {})'
  BY Zenon DEF SourceOK
<1>3. (stage[p] # "prepare" => \A g \in admitted[p] : g[1] \in src_endnodes)'
  BY <1>1, Zenon DEF SourceOK
<1>4. (\A g, h \in admitted[p] : g[1] = h[1] => g = h)'
  BY Zenon DEF SourceOK
<1>5. ASSUME InRound(p)', NEW g \in admitted'[p], NEW d \in grants'[g[1]] PROVE d = g[2] /\ Processed(p, PARTITION_OF(d))'
  <2>1. InRound(p)
    BY <1>5, Zenon DEF InRound
  <2>2. g \in admitted[p] /\ d \in grants[g[1]]
    BY <1>1, <1>5, Zenon
  <2>3. d = g[2] /\ Processed(p, PARTITION_OF(d))
    BY <2>1, <2>2, Zenon DEF SourceOK
  <2>4. PARTITION_OF(d) \in Partitions
    BY <1>1, <2>2, GrantedFacts, Zenon
  <2> QED BY <2>3, <2>4, Zenon
<1> QED BY <1>2, <1>3, <1>4, <1>5, Zenon DEF SourceOK

LEMMA ProcessedKept ==
  ASSUME NEW p, stage'[p] = stage[p], Heard(p) \subseteq Heard(p)'
  PROVE  \A r \in Partitions : Processed(p, r) => Processed(p, r)'
  BY Zenon DEF Processed

LEMMA SourceInvAtPrepare ==
  ASSUME PimTypeOK, PhaseInv, SourceInv, NEW p \in Partitions, pim_prepare(p)
  PROVE  SourceInv'
<1>1. /\ stage' = [stage EXCEPT ![p] = "grant"] /\ iteration' = [iteration EXCEPT ![p] = 1]
      /\ admitted' = [admitted EXCEPT ![p] = {}] /\ src_endnodes' = src_endnodes \ NodesOf(p) /\ UNCHANGED grants
  BY Zenon DEF pim_prepare
<1>2. \A r \in Partitions : Heard(r)' = Heard(r)
  BY PrepareInv, Zenon
<1>3. /\ \A r \in Partitions \ {p} : stage'[r] = stage[r] /\ iteration'[r] = iteration[r] /\ admitted'[r] = admitted[r]
      /\ stage'[p] = "grant" /\ admitted'[p] = {}
  BY <1>1, Zenon DEF PimTypeOK, PhaseTypeOK, EdgeTypeOK
<1>4. ASSUME NEW r \in Partitions \ {p} PROVE SourceOK(r)'
  <2>1. \A n \in NodesOf(r) : n \in src_endnodes => n \in src_endnodes'
    BY <1>1, <1>4, Zenon DEF NodesOf
  <2>2. \A q \in Partitions : Processed(r, q) => Processed(r, q)'
    BY <1>2, <1>3, <1>4, ProcessedKept, Zenon
  <2>3. SourceOK(r)
    BY <1>4, Zenon DEF SourceInv
  <2> QED BY <1>1, <1>3, <1>4, <2>1, <2>2, <2>3, SourceKept, Zenon
<1>5. SourceOK(p)'
  BY <1>3, Zenon DEF SourceOK
<1> QED BY <1>4, <1>5, Zenon DEF SourceInv

LEMMA SourceInvAtGrant ==
  ASSUME PimTypeOK, PhaseInv, SourceInv, NEW p \in Partitions, pim_do_grant(p)
  PROVE  SourceInv'
<1>1. /\ Goes(p, "grant", "accept") /\ UNCHANGED <<admitted, src_endnodes, iteration>>
      /\ \A r \in Partitions \ {p} : Heard(r)' = Heard(r)
  BY GrantStep, Zenon
<1>2. /\ \A s \in NodesOf(p) : Grants(p, s)
      /\ \A s \in Nodes \ NodesOf(p) : grants'[s] = grants[s]
  BY GrantFacts, Zenon
<1>3. ASSUME NEW r \in Partitions \ {p} PROVE SourceOK(r)'
  <2>1. \A n \in NodesOf(r) : grants'[n] = grants[n]
    BY <1>2, <1>3, Zenon DEF NodesOf
  <2>2. stage'[r] = stage[r]
    BY <1>1, <1>3, Zenon DEF Goes
  <2>3. \A q \in Partitions : Processed(r, q) => Processed(r, q)'
    BY <1>1, <1>3, <2>2, ProcessedKept, Zenon
  <2>4. SourceOK(r)
    BY <1>3, Zenon DEF SourceInv
  <2> QED BY <1>1, <1>3, <2>1, <2>2, <2>3, <2>4, SourceKept, Zenon
<1>4. SourceOK(p)'
  <2>1. SourceOK(p) /\ stage[p] = "grant" /\ stage'[p] = "accept"
    BY <1>1, Zenon DEF SourceInv, Goes
  <2>2. ASSUME NEW g \in admitted'[p], NEW d \in grants'[g[1]] PROVE FALSE
    <3>1. g \in admitted[p] /\ g[1] \in NodesOf(p)
      BY <1>1, <2>2, AdmittedFacts, Zenon
    <3>2. iteration[p] # 1 /\ g[1] \in src_endnodes
      BY <2>1, <3>1 DEF SourceOK
    <3>3. iteration[p] > 1
      BY <3>2 DEF PimTypeOK, PhaseTypeOK
    <3> QED BY <1>2, <2>2, <3>1, <3>2, <3>3, Zenon DEF Grants
  <2>3. (\A g, h \in admitted[p] : g[1] = h[1] => g = h)' /\ (\A g \in admitted[p] : g[1] \in src_endnodes)'
    BY <1>1, <2>1 DEF SourceOK
  <2>4. stage'[p] # "grant"
    BY <2>1
  <2> QED BY <2>2, <2>3, <2>4, Zenon DEF SourceOK
<1> QED BY <1>3, <1>4, Zenon DEF SourceInv

\* The edges that core p processes after core q accepted
Serves(p, q, E) ==
    /\ admitted' = [admitted EXCEPT ![p] = @ \cup E]
    /\ src_endnodes' = src_endnodes \cup {f[1] : f \in E}
    /\ backlog' = [f \in Flows |-> IF f \in E THEN backlog[f] - 1 ELSE backlog[f]]
    /\ requests' = [s \in Nodes |-> served(E, s)]
    /\ \A f \in E : f \in Flows /\ SrcP(f) = p /\ DstP(f) = q /\ f[2] \in grants[f[1]]
    /\ UNCHANGED <<grants, grant_adj_index, new_demands, q_new_demands, q_admitted_out, iteration>>
    /\ InRound(p) /\ ~Processed(p, q) /\ stage'[p] = "process" /\ Processed(p, q)'
    /\ \A r \in Partitions : Processed(p, r) => Processed(p, r)'
    /\ \A r \in Partitions : Processed(p, r)' => Processed(p, r) \/ r = q
    /\ \A r \in Partitions \ {p} : stage'[r] = stage[r] /\ Heard(r)' = Heard(r)

LEMMA AcceptServes ==
  ASSUME PimTypeOK, PhaseInv, GrantInv, AcceptInv, NEW p \in Partitions, pim_do_accept(p)
  PROVE  \E E : Serves(p, p, E) /\ E \subseteq accepts'
<1>1. /\ Goes(p, "accept", "process") /\ Heard(p)' = {}
      /\ UNCHANGED <<grant_adj_index, grants, grants_by_dst, q_admitted_out, iteration, new_demands, q_new_demands>>
      /\ \A r \in Partitions \ {p} : Heard(r)' = Heard(r)
  BY AcceptStep, Zenon
<1>2. PICK acc : acc = accepts'
  OBVIOUS
<1>3. PICK E : E = {f \in acc : PARTITION_OF(f[1]) = p /\ PARTITION_OF(f[2]) = p}
  BY Zenon
<1>4. /\ admitted' = [admitted EXCEPT ![p] = @ \cup E]
      /\ src_endnodes' = src_endnodes \cup {f[1] : f \in E}
      /\ backlog' = [f \in Flows |-> IF f \in E THEN backlog[f] - 1 ELSE backlog[f]]
      /\ requests' = [s \in Nodes |-> served(E, s)]
  BY <1>2, <1>3, Zenon DEF pim_do_accept, process_accepts_from
<1>5. AcceptInv'
  BY AcceptInvAtAccept
<1>6. acc \subseteq Flows
  BY <1>2, AcceptFacts, Zenon DEF Accepts, PimTypeOK, EdgeTypeOK
<1>7. \A f \in E : f \in Flows /\ SrcP(f) = p /\ DstP(f) = p /\ f[2] \in grants[f[1]]
  <2>1. \A f \in acc : f[2] \in grants[f[1]]
    BY <1>1, <1>2, <1>5, Zenon DEF AcceptInv
  <2> QED BY <1>3, <1>6, <2>1 DEF SrcP, DstP
<1>8. stage[p] = "accept" /\ stage'[p] = "process" /\ \A r \in Partitions \ {p} : stage'[r] = stage[r]
  BY <1>1, Zenon DEF Goes
<1>9. \A r : ~Processed(p, r)
  BY <1>8 DEF Processed
<1>10. \A r : Processed(p, r)' <=> r = p
  BY <1>1, <1>8, Zenon DEF Processed
<1>11. InRound(p)
  BY <1>8 DEF InRound
<1>12. Serves(p, p, E)
  BY <1>1, <1>4, <1>7, <1>8, <1>9, <1>10, <1>11, Zenon DEF Serves
<1>13. E \subseteq accepts'
  BY <1>2, <1>3
<1> QED BY <1>12, <1>13, Zenon

LEMMA CollectServes ==
  ASSUME PimTypeOK, PhaseInv, AcceptInv, NEW p \in Partitions, collect_accepts(p)
  PROVE  \E q \in Partitions : \E E : Serves(p, q, E) /\ E \subseteq accepts
<1>1. /\ UNCHANGED <<stage, iteration, q_admitted_out, grants, grant_adj_index>>
      /\ finished(p) \in Partitions \ {p} /\ finished(p) \notin Heard(p)
      /\ Heard(p)' = Heard(p) \cup {finished(p)}
      /\ \A r \in Partitions \ {p} : Heard(r)' = Heard(r)
  BY CollectStep, Zenon
<1>2. PICK q \in Partitions \ {p} : q = finished(p)
  BY <1>1, Zenon
<1>3. PICK E : E = {f \in accepts : PARTITION_OF(f[1]) = p /\ PARTITION_OF(f[2]) = q}
  BY Zenon
<1>4. /\ admitted' = [admitted EXCEPT ![p] = @ \cup E]
      /\ src_endnodes' = src_endnodes \cup {f[1] : f \in E}
      /\ backlog' = [f \in Flows |-> IF f \in E THEN backlog[f] - 1 ELSE backlog[f]]
      /\ requests' = [s \in Nodes |-> served(E, s)]
      /\ UNCHANGED <<new_demands, q_new_demands>> /\ stage[p] = "process"
  BY <1>2, <1>3, Zenon DEF collect_accepts, process_accepts_from, waiting
<1>5. \A f \in E : f \in Flows /\ SrcP(f) = p /\ DstP(f) = q /\ f[2] \in grants[f[1]]
  <2>1. \A f \in accepts : f \in Flows /\ f[2] \in grants[f[1]]
    BY Zenon DEF AcceptInv, PimTypeOK, EdgeTypeOK
  <2> QED BY <1>3, <2>1 DEF SrcP, DstP
<1>6. \A r : Processed(p, r) <=> r = p \/ r \in Heard(p)
  BY <1>4, Zenon DEF Processed
<1>7. \A r : Processed(p, r)' <=> r = p \/ r \in Heard(p) \/ r = q
  BY <1>1, <1>2, <1>4, Zenon DEF Processed
<1>8. InRound(p)
  BY <1>4 DEF InRound
<1>9. Serves(p, q, E)
  BY <1>1, <1>2, <1>4, <1>5, <1>6, <1>7, <1>8, Zenon DEF Serves
<1>10. E \subseteq accepts
  BY <1>3
<1> QED BY <1>9, <1>10, Zenon

\* Each source has one edge at most among those that core p processes, and none that it has processed.
LEMMA ServedOnce ==
  ASSUME PimTypeOK, GrantInv, SourceInv, NEW p \in Partitions, NEW q \in Partitions, NEW E, Serves(p, q, E)
  PROVE  /\ \A f, g \in E : f[1] = g[1] => f = g
         /\ \A f \in E, g \in admitted[p] : f[1] # g[1]
<1>1. \A f \in E : f \in Flows /\ SrcP(f) = p /\ DstP(f) = q /\ f[2] \in grants[f[1]]
  BY Zenon DEF Serves
<1>2. ASSUME NEW f \in E, NEW g \in E, f[1] = g[1] PROVE f = g
  <2>1. f[1] \in Nodes /\ f = <<f[1], f[2]>> /\ g = <<g[1], g[2]>>
    BY <1>1, <1>2, FlowFacts, Zenon
  <2>2. f[2] \in grants[f[1]] /\ g[2] \in grants[f[1]]
    BY <1>1, <1>2
  <2>3. f[2] = g[2]
    <3>1. f[1] \in Nodes
      BY <2>1
    <3>2. \A c, d \in grants[f[1]] : c = d
      BY <3>1, Zenon DEF GrantInv
    <3> QED BY <2>2, <3>2, SMT
  <2> QED BY <1>2, <2>1, <2>3, Zenon
<1>3. ASSUME NEW f \in E, NEW g \in admitted[p], f[1] = g[1] PROVE FALSE
  <2>1. SourceOK(p) /\ InRound(p) /\ ~Processed(p, q)
    BY Zenon DEF SourceInv, Serves
  <2>2. f[2] \in grants[g[1]] /\ PARTITION_OF(f[2]) = q
    BY <1>1, <1>3, Zenon DEF DstP
  <2> QED BY <1>3, <2>1, <2>2, Zenon DEF SourceOK
<1> QED BY <1>2, <1>3, Zenon

LEMMA SourceInvAtServe ==
  ASSUME PimTypeOK, GrantInv, SourceInv, NEW p \in Partitions, NEW q \in Partitions, NEW E, Serves(p, q, E)
  PROVE  SourceInv'
<1>1. \A f \in E : f \in Flows /\ SrcP(f) = p /\ DstP(f) = q /\ f[2] \in grants[f[1]]
  BY Zenon DEF Serves
<1>2. /\ admitted' = [admitted EXCEPT ![p] = @ \cup E]
      /\ src_endnodes' = src_endnodes \cup {f[1] : f \in E} /\ UNCHANGED <<grants, iteration>>
      /\ InRound(p) /\ ~Processed(p, q) /\ stage'[p] = "process" /\ Processed(p, q)'
      /\ \A r \in Partitions : Processed(p, r) => Processed(p, r)'
      /\ \A r \in Partitions \ {p} : stage'[r] = stage[r] /\ Heard(r)' = Heard(r)
  BY Zenon DEF Serves
<1>3. admitted'[p] = admitted[p] \cup E /\ \A r \in Partitions \ {p} : admitted'[r] = admitted[r]
  BY <1>2, Zenon DEF PimTypeOK, EdgeTypeOK
<1>4. ASSUME NEW r \in Partitions \ {p} PROVE SourceOK(r)'
  <2>1. \A k \in Partitions : Processed(r, k) => Processed(r, k)'
    BY <1>2, <1>4, ProcessedKept, Zenon
  <2>2. SourceOK(r)
    BY <1>4, Zenon DEF SourceInv
  <2>3. \A n \in NodesOf(r) : n \in src_endnodes => n \in src_endnodes'
    BY <1>2, Zenon
  <2> QED BY <1>2, <1>3, <1>4, <2>1, <2>2, <2>3, SourceKept, Zenon
<1>5. SourceOK(p)'
  <2>1. SourceOK(p)
    BY Zenon DEF SourceInv
  <2>2. /\ \A f, g \in E : f[1] = g[1] => f = g
        /\ \A f \in E, g \in admitted[p] : f[1] # g[1]
    BY ServedOnce, Zenon
  <2>3. \A g, h \in admitted'[p] : g[1] = h[1] => g = h
    BY <1>3, <2>1, <2>2, Zenon DEF SourceOK
  <2>4. stage[p] # "prepare" /\ stage'[p] # "grant"
    BY <1>2 DEF InRound
  <2>5. \A g \in admitted'[p] : g[1] \in src_endnodes'
    BY <1>2, <1>3, <2>1, <2>4, Zenon DEF SourceOK
  <2>6. ASSUME NEW g \in admitted'[p], NEW d \in grants'[g[1]] PROVE d = g[2] /\ Processed(p, PARTITION_OF(d))'
    <3>1. CASE g \in admitted[p]
      <4>1. d = g[2] /\ Processed(p, PARTITION_OF(d))
        BY <1>2, <2>1, <2>6, <3>1, Zenon DEF SourceOK
      <4>2. g[2] \in Nodes
        BY <3>1, AdmittedFacts, FlowFacts, Zenon
      <4>3. PARTITION_OF(d) \in Partitions
        BY <4>1, <4>2, NodeFacts, Zenon
      <4> QED BY <1>2, <4>1, <4>3, Zenon
    <3>2. CASE g \in E
      <4>1. g[2] \in grants[g[1]] /\ g[1] \in Nodes /\ PARTITION_OF(g[2]) = q
        BY <1>1, <3>2, FlowFacts, Zenon DEF DstP
      <4>2. d \in grants[g[1]]
        BY <1>2, <2>6, Zenon
      <4>3. d = g[2]
        BY <4>1, <4>2, Zenon DEF GrantInv
      <4> QED BY <1>2, <4>1, <4>3, Zenon
    <3> QED BY <1>3, <2>6, <3>1, <3>2, Zenon
  <2> QED BY <2>3, <2>4, <2>5, <2>6, Zenon DEF SourceOK
<1> QED BY <1>4, <1>5, Zenon DEF SourceInv

LEMMA SourceInvAtProcess ==
  ASSUME PimTypeOK, PhaseInv, SourceInv, NEW p \in Partitions, pim_process_accepts(p)
  PROVE  SourceInv'
<1>1. /\ stage[p] = "process" /\ UNCHANGED <<admitted, src_endnodes, grants>>
      /\ (stage' = [stage EXCEPT ![p] = "grant"] /\ iteration' = [iteration EXCEPT ![p] = @ + 1])
         \/ (stage' = [stage EXCEPT ![p] = "prepare"] /\ UNCHANGED iteration)
  BY Zenon DEF pim_process_accepts
<1>2. /\ (stage'[p] = "grant" /\ iteration'[p] = iteration[p] + 1) \/ stage'[p] = "prepare"
      /\ \A r \in Partitions \ {p} : stage'[r] = stage[r] /\ iteration'[r] = iteration[r]
  BY <1>1, Zenon DEF PimTypeOK, PhaseTypeOK
<1>3. \A r \in Partitions : Heard(r)' = Heard(r)
  BY ProcessInv, Zenon
<1>4. ASSUME NEW r \in Partitions \ {p} PROVE SourceOK(r)'
  <2>1. \A k \in Partitions : Processed(r, k) => Processed(r, k)'
    BY <1>2, <1>3, <1>4, ProcessedKept, Zenon
  <2>2. SourceOK(r)
    BY <1>4, Zenon DEF SourceInv
  <2> QED BY <1>1, <1>2, <1>4, <2>1, <2>2, SourceKept, Zenon
<1>5. SourceOK(p)'
  <2>1. SourceOK(p) /\ iteration[p] \in 1 .. NUM_ITERATIONS
    BY Zenon DEF SourceInv, PimTypeOK, PhaseTypeOK
  <2>2. ~(stage'[p] = "grant" /\ iteration'[p] = 1)
    BY <1>2, <2>1, Sizes
  <2>3. ~InRound(p)'
    BY <1>2 DEF InRound
  <2>4. (\A g, h \in admitted[p] : g[1] = h[1] => g = h)' /\ (\A g \in admitted[p] : g[1] \in src_endnodes)'
    BY <1>1, <2>1 DEF SourceOK
  <2> QED BY <2>2, <2>3, <2>4, Zenon DEF SourceOK
<1> QED BY <1>4, <1>5, Zenon DEF SourceInv

-----------------------------------------------------------------------------
(* Marks.                                                                  *)

LEMMA MarkKept ==
  ASSUME PimTypeOK, MarkInv,
         \A d \in Nodes : d \in dst_endnodes' => d \in dst_endnodes,
         \A r \in Partitions : stage'[r] \in {"grant", "accept"} /\ iteration'[r] = 1 =>
            (stage[r] \in {"grant", "accept"} /\ iteration[r] = 1) \/ \A d \in NodesOf(r) : d \notin dst_endnodes',
         \A r \in Partitions : InRound(r)' => /\ InRound(r) /\ iteration'[r] = iteration[r] /\ round(r)' = round(r)
                                              /\ \A n \in NodesOf(r) : grants'[n] = grants[n],
         \A r \in Partitions : ended(r)' \in Nat /\ ended(r)' >= ended(r)
  PROVE  MarkInv'
<1>1. ASSUME NEW p \in Partitions, stage'[p] \in {"grant", "accept"}, iteration'[p] = 1, NEW d \in NodesOf(p)
      PROVE  d \notin dst_endnodes'
  <2>1. d \in Nodes
    BY <1>1, OfFacts
  <2> QED BY <1>1, <2>1, Zenon DEF MarkInv
<1>2. ASSUME NEW p \in Partitions, InRound(p)', iteration'[p] > 1, NEW s \in NodesOf(p), NEW d \in grants'[s],
             ~HasAccepted(PARTITION_OF(d), p)'
      PROVE  d \notin dst_endnodes'
  <2>1. InRound(p) /\ iteration[p] > 1 /\ round(p)' = round(p) /\ d \in grants[s]
    BY <1>2, Zenon
  <2>2. s \in Nodes
    BY <1>2, OfFacts
  <2>3. d \in Nodes /\ PARTITION_OF(d) \in Partitions
    BY <2>1, <2>2, GrantedFacts, Zenon
  <2>4. ended(PARTITION_OF(d)) \in Nat /\ round(p) \in Nat /\ ended(PARTITION_OF(d))' \in Nat /\ ended(PARTITION_OF(d))' >= ended(PARTITION_OF(d))
    BY <2>3, EndedType
  <2>5. ~(ended(PARTITION_OF(d))' >= 2 * round(p)' + 2)
    BY <1>2, Zenon DEF HasAccepted
  <2>6. ~HasAccepted(PARTITION_OF(d), p)
    BY <2>1, <2>4, <2>5 DEF HasAccepted
  <2> QED BY <1>2, <2>1, <2>3, <2>6, Zenon DEF MarkInv
<1> QED BY <1>1, <1>2, Zenon DEF MarkInv

LEMMA MarkInvAtPrepare ==
  ASSUME PimTypeOK, MarkInv, NEW p \in Partitions, pim_prepare(p)
  PROVE  MarkInv'
<1>1. /\ stage[p] = "prepare" /\ stage' = [stage EXCEPT ![p] = "grant"] /\ iteration' = [iteration EXCEPT ![p] = 1]
      /\ dst_endnodes' = dst_endnodes \ NodesOf(p) /\ UNCHANGED grants
  BY Zenon DEF pim_prepare
<1>2. \A r \in Partitions : round(r)' = round(r) /\ ended(r)' = ended(r)
  BY EndedPrepare, Zenon
<1>3. \A r \in Partitions : ended(r)' \in Nat /\ ended(r)' >= ended(r)
  BY <1>2, EndedType
<1>4. /\ \A r \in Partitions \ {p} : stage'[r] = stage[r] /\ iteration'[r] = iteration[r]
      /\ stage'[p] = "grant"
  BY <1>1, Zenon DEF PimTypeOK, PhaseTypeOK
<1>5. ~InRound(p)'
  BY <1>4 DEF InRound
<1>6. ASSUME NEW r \in Partitions, InRound(r)'
      PROVE  InRound(r) /\ iteration'[r] = iteration[r] /\ round(r)' = round(r) /\ \A n \in NodesOf(r) : grants'[n] = grants[n]
  BY <1>1, <1>2, <1>4, <1>5, <1>6, Zenon DEF InRound
<1>7. ASSUME NEW r \in Partitions, stage'[r] \in {"grant", "accept"}, iteration'[r] = 1
      PROVE  (stage[r] \in {"grant", "accept"} /\ iteration[r] = 1) \/ \A d \in NodesOf(r) : d \notin dst_endnodes'
  BY <1>1, <1>4, <1>7, Zenon
<1>8. \A d \in Nodes : d \in dst_endnodes' => d \in dst_endnodes
  BY <1>1
<1> QED BY <1>3, <1>6, <1>7, <1>8, MarkKept, Zenon

LEMMA MarkInvAtProcess ==
  ASSUME PimTypeOK, MarkInv, NEW p \in Partitions, pim_process_accepts(p)
  PROVE  MarkInv'
<1>1. /\ UNCHANGED <<dst_endnodes, grants>>
      /\ (stage' = [stage EXCEPT ![p] = "grant"] /\ iteration' = [iteration EXCEPT ![p] = @ + 1])
         \/ (stage' = [stage EXCEPT ![p] = "prepare"] /\ UNCHANGED iteration)
  BY Zenon DEF pim_process_accepts
<1>2. \A r \in Partitions : ended(r)' = ended(r)
  BY EndedProcess, Zenon
<1>3. \A r \in Partitions : ended(r)' \in Nat /\ ended(r)' >= ended(r)
  BY <1>2, EndedType
<1>4. /\ (stage'[p] = "grant" /\ iteration'[p] = iteration[p] + 1) \/ stage'[p] = "prepare"
      /\ \A r \in Partitions \ {p} : stage'[r] = stage[r] /\ iteration'[r] = iteration[r]
  BY <1>1, Zenon DEF PimTypeOK, PhaseTypeOK
<1>5. ~InRound(p)'
  BY <1>4 DEF InRound
<1>6. ASSUME NEW r \in Partitions, InRound(r)'
      PROVE  InRound(r) /\ iteration'[r] = iteration[r] /\ round(r)' = round(r) /\ \A n \in NodesOf(r) : grants'[n] = grants[n]
  <2>1. r # p
    BY <1>5, <1>6
  <2>2. round(r)' = round(r)
    BY <1>6, <2>1, EndedProcess, Zenon
  <2> QED BY <1>1, <1>4, <1>6, <2>1, <2>2, Zenon DEF InRound
<1>7. iteration[p] \in 1 .. NUM_ITERATIONS
  BY Zenon DEF PimTypeOK, PhaseTypeOK
<1>8. ~(stage'[p] \in {"grant", "accept"} /\ iteration'[p] = 1)
  BY <1>4, <1>7, Sizes
<1>9. ASSUME NEW r \in Partitions, stage'[r] \in {"grant", "accept"}, iteration'[r] = 1
      PROVE  (stage[r] \in {"grant", "accept"} /\ iteration[r] = 1) \/ \A d \in NodesOf(r) : d \notin dst_endnodes'
  BY <1>4, <1>8, <1>9, Zenon
<1> QED BY <1>1, <1>3, <1>6, <1>9, MarkKept, Zenon

LEMMA MarkInvAtGrant ==
  ASSUME PimTypeOK, PhaseInv, MarkInv, NEW p \in Partitions, pim_do_grant(p)
  PROVE  MarkInv'
<1>1. /\ Goes(p, "grant", "accept") /\ UNCHANGED <<dst_endnodes, iteration>>
      /\ \A r \in Partitions : ended(r)' \in Nat /\ ended(r)' >= ended(r) /\ round(r)' = round(r)
  BY GrantStep, Zenon
<1>2. /\ \A s \in NodesOf(p) : Grants(p, s)
      /\ \A s \in Nodes \ NodesOf(p) : grants'[s] = grants[s]
  BY GrantFacts, Zenon
<1>3. stage[p] = "grant" /\ stage'[p] = "accept" /\ \A r \in Partitions \ {p} : stage'[r] = stage[r]
  BY <1>1, Zenon DEF Goes
<1>4. ASSUME NEW r \in Partitions, stage'[r] \in {"grant", "accept"}, iteration'[r] = 1, NEW d \in NodesOf(r)
      PROVE  d \notin dst_endnodes'
  <2>1. stage[r] \in {"grant", "accept"}
    BY <1>3, <1>4
  <2> QED BY <1>1, <1>4, <2>1, Zenon DEF MarkInv
<1>5. ASSUME NEW r \in Partitions, InRound(r)', iteration'[r] > 1, NEW s \in NodesOf(r), NEW d \in grants'[s],
             ~HasAccepted(PARTITION_OF(d), r)'
      PROVE  d \notin dst_endnodes'
  <2>1. CASE r = p
    <3>1. Grants(p, s) /\ iteration[p] > 1 /\ dst_endnodes' = dst_endnodes
      BY <1>1, <1>2, <1>5, <2>1, Zenon
    <3>2. grants'[s] = {} \/ \E i \in DOMAIN requests[s] : grants'[s] = {requests[s][i]} /\ requests[s][i] \notin dst_endnodes
      BY <3>1, Zenon DEF Grants
    <3> HIDE <1>1, <1>2
    <3> QED BY <1>5, <3>1, <3>2
  <2>2. CASE r # p
    <3>1. s \in Nodes /\ PARTITION_OF(s) = r
      BY <1>5, OfFacts
    <3>2. s \notin NodesOf(p)
      BY <2>2, <3>1, OfFacts
    <3>3. d \in grants[s]
      BY <1>2, <1>5, <3>1, <3>2, Zenon
    <3>4. PARTITION_OF(d) \in Partitions
      BY <3>1, <3>3, GrantedFacts, Zenon
    <3>5. ended(PARTITION_OF(d)) \in Nat /\ round(r) \in Nat /\ ended(PARTITION_OF(d))' \in Nat
          /\ ended(PARTITION_OF(d))' >= ended(PARTITION_OF(d)) /\ round(r)' = round(r)
      BY <1>1, <1>5, <3>4, EndedType, Zenon
    <3>6. ~(ended(PARTITION_OF(d))' >= 2 * round(r)' + 2)
      BY <1>5, Zenon DEF HasAccepted
    <3>7. ~HasAccepted(PARTITION_OF(d), r)
      BY <3>5, <3>6 DEF HasAccepted
    <3>8. InRound(r)
      BY <1>3, <1>5, <2>2, Zenon DEF InRound
    <3> QED BY <1>1, <1>5, <3>3, <3>7, <3>8, Zenon DEF MarkInv
  <2> QED BY <2>1, <2>2
<1> QED BY <1>4, <1>5, Zenon DEF MarkInv

LEMMA MarkInvAtAccept ==
  ASSUME PimTypeOK, PhaseInv, MarkInv, NEW p \in Partitions, pim_do_accept(p)
  PROVE  MarkInv'
<1>1. /\ Goes(p, "accept", "process") /\ UNCHANGED <<grants, iteration>>
      /\ \A r \in Partitions : ended(r)' \in Nat /\ ended(r)' >= ended(r) /\ round(r)' = round(r)
      /\ ended(p)' = 2 * round(p) + 2
      /\ \A r \in Partitions : InRound(r) => round(r) <= round(p)
  BY AcceptStep, Zenon
<1>2. \A d : d \in dst_endnodes' => d \in dst_endnodes \/ d \in NodesOf(p)
  <2>1. dst_endnodes' = dst_endnodes \cup {d \in NodesOf(p) : grants_by_dst[d] # {}}
    BY AcceptFacts, Zenon
  <2> QED BY <2>1
<1>3. stage[p] = "accept" /\ stage'[p] = "process" /\ \A r \in Partitions \ {p} : stage'[r] = stage[r]
  BY <1>1, Zenon DEF Goes
<1>4. ASSUME NEW r \in Partitions, stage'[r] \in {"grant", "accept"}, iteration'[r] = 1, NEW d \in NodesOf(r)
      PROVE  d \notin dst_endnodes'
  <2>1. r # p
    BY <1>3, <1>4
  <2>2. stage[r] \in {"grant", "accept"} /\ iteration[r] = 1
    BY <1>1, <1>3, <1>4, <2>1, Zenon
  <2>3. d \notin NodesOf(p)
    BY <1>4, <2>1, Zenon DEF NodesOf
  <2> QED BY <1>2, <1>4, <2>2, <2>3, Zenon DEF MarkInv
<1>5. ASSUME NEW r \in Partitions, InRound(r)', iteration'[r] > 1, NEW s \in NodesOf(r), NEW d \in grants'[s],
             ~HasAccepted(PARTITION_OF(d), r)'
      PROVE  d \notin dst_endnodes'
  <2>1. InRound(r) /\ iteration[r] > 1 /\ d \in grants[s]
    BY <1>1, <1>3, <1>5 DEF InRound
  <2>2. s \in Nodes
    BY <1>5, OfFacts
  <2>3. PARTITION_OF(d) \in Partitions
    BY <2>1, <2>2, GrantedFacts, Zenon
  <2>4. ended(PARTITION_OF(d)) \in Nat /\ round(r) \in Nat /\ ended(PARTITION_OF(d))' \in Nat
        /\ ended(PARTITION_OF(d))' >= ended(PARTITION_OF(d)) /\ round(r)' = round(r)
    BY <1>1, <1>5, <2>3, EndedType, Zenon
  <2>5. ~(ended(PARTITION_OF(d))' >= 2 * round(r)' + 2)
    BY <1>5, Zenon DEF HasAccepted
  <2>6. ~HasAccepted(PARTITION_OF(d), r)
    BY <2>4, <2>5 DEF HasAccepted
  <2>7. d \notin dst_endnodes
    BY <1>5, <2>1, <2>6, Zenon DEF MarkInv
  <2>8. PARTITION_OF(d) # p
    <3>1. round(r) <= round(p) /\ round(p) \in Nat
      BY <1>1, <1>5, <2>1, EndedType, Zenon
    <3>2. ASSUME PARTITION_OF(d) = p PROVE FALSE
      <4>1. ~(ended(p)' >= 2 * round(r)' + 2)
        BY <2>5, <3>2, Zenon
      <4>2. ended(p)' = 2 * round(p) + 2 /\ round(r)' = round(r)
        BY <1>1, <2>4
      <4> HIDE <1>1
      <4> QED BY <2>4, <3>1, <4>1, <4>2
    <3> QED BY <3>2
  <2>9. d \notin NodesOf(p)
    BY <2>8, OfFacts, Zenon
  <2> QED BY <1>2, <2>7, <2>9, Zenon
<1> QED BY <1>4, <1>5, Zenon DEF MarkInv

-----------------------------------------------------------------------------
(* Timeslots.                                                              *)

LEMMA OutFacts ==
  ASSUME PimTypeOK, NEW p \in Partitions
  PROVE  /\ q_admitted_out[p] \in Seq(SUBSET Flows) /\ Len(q_admitted_out[p]) \in Nat
         /\ \A t \in DOMAIN q_admitted_out[p] : q_admitted_out[p][t] \subseteq FlowsOf(p)
         /\ \A t \in Nat \ {0} : t <= Len(q_admitted_out[p]) => t \in DOMAIN q_admitted_out[p]
<1>1. q_admitted_out[p] \in Seq(SUBSET Flows) /\ q_admitted_out[p] \in Seq(SUBSET FlowsOf(p))
  BY Zenon DEF PimTypeOK, EdgeTypeOK
<1> QED BY <1>1

\* The t-th timeslot is made of the cores' own.
LEMMA SlotsOut ==
  ASSUME PimTypeOK, NEW t \in 1 .. MAX_SLOTS
  PROVE  \A f : f \in slots_out[t] <=> f \in Flows /\ f \in SlotOf(SrcP(f), t)
<1>1. slots_out[t] = UNION {SlotOf(p, t) : p \in Partitions}
  BY Zenon DEF slots_out, SlotOf
<1>2. t \in Nat \ {0}
  BY Sizes
<1>3. ASSUME NEW p \in Partitions, NEW f \in SlotOf(p, t) PROVE f \in Flows /\ SrcP(f) = p
  <2>1. SlotOf(p, t) \subseteq FlowsOf(p)
    <3>1. CASE t <= Len(q_admitted_out[p])
      BY <1>2, <1>3, <3>1, OutFacts, Zenon DEF SlotOf
    <3>2. CASE ~(t <= Len(q_admitted_out[p]))
      BY <1>3, <3>2, Zenon DEF SlotOf, PimTypeOK, EdgeTypeOK
    <3> QED BY <3>1, <3>2
  <2> QED BY <1>3, <2>1, Zenon DEF FlowsOf, SrcP
<1>4. \A f \in Flows : SrcP(f) \in Partitions
  BY EndFacts
<1> QED BY <1>1, <1>3, <1>4, Zenon

LEMMA SlotSame ==
  ASSUME NEW p, admitted'[p] = admitted[p], q_admitted_out'[p] = q_admitted_out[p], stage'[p] = "prepare" <=> stage[p] = "prepare"
  PROVE  \A t : SlotOf(p, t)' = SlotOf(p, t)
  BY Zenon DEF SlotOf

LEMMA SlotPrepare ==
  ASSUME PimTypeOK, NEW p \in Partitions, pim_prepare(p), NEW r \in Partitions
  PROVE  \A t : SlotOf(r, t)' = SlotOf(r, t)
<1>1. /\ stage[p] = "prepare" /\ stage' = [stage EXCEPT ![p] = "grant"] /\ admitted' = [admitted EXCEPT ![p] = {}] /\ UNCHANGED q_admitted_out
  BY Zenon DEF pim_prepare
<1>2. admitted'[p] = {} /\ (r # p => stage'[r] = stage[r] /\ admitted'[r] = admitted[r])
  BY <1>1, Zenon DEF PimTypeOK, PhaseTypeOK, EdgeTypeOK
<1>3. CASE r = p
  BY <1>1, <1>2, <1>3, Zenon DEF SlotOf
<1>4. CASE r # p
  BY <1>1, <1>2, <1>4, SlotSame, Zenon
<1> QED BY <1>3, <1>4

\* What pim_process_accepts does to the timeslots of core p
LEMMA OutProcess ==
  ASSUME PimTypeOK, NEW p \in Partitions, pim_process_accepts(p)
  PROVE  /\ stage[p] = "process" /\ \A r \in Partitions \ {p} : stage'[r] = stage[r] /\ q_admitted_out'[r] = q_admitted_out[r]
         /\ \/ stage'[p] = "grant" /\ q_admitted_out'[p] = q_admitted_out[p]
            \/ /\ stage'[p] = "prepare" /\ q_admitted_out'[p] = Append(q_admitted_out[p], admitted[p])
               /\ Len(q_admitted_out'[p]) = Len(q_admitted_out[p]) + 1
<1>1. /\ stage[p] = "process"
      /\ (stage' = [stage EXCEPT ![p] = "grant"] /\ UNCHANGED q_admitted_out)
         \/ (stage' = [stage EXCEPT ![p] = "prepare"] /\ q_admitted_out' = [q_admitted_out EXCEPT ![p] = Append(@, admitted[p])])
  BY Zenon DEF pim_process_accepts
<1>2. stage \in [Partitions -> {"prepare", "grant", "accept", "process"}] /\ q_admitted_out \in [Partitions -> Seq(SUBSET Flows)] /\ admitted[p] \in SUBSET Flows
  BY Zenon DEF PimTypeOK, PhaseTypeOK, EdgeTypeOK
<1>3. Len(Append(q_admitted_out[p], admitted[p])) = Len(q_admitted_out[p]) + 1
  BY <1>2
<1> QED BY <1>1, <1>2, <1>3, Zenon

LEMMA SlotProcess ==
  ASSUME PimTypeOK, NEW p \in Partitions, pim_process_accepts(p), NEW r \in Partitions, NEW t \in 1 .. MAX_SLOTS
  PROVE  SlotOf(r, t)' = SlotOf(r, t)
<1>1. /\ stage[p] = "process" /\ \A q \in Partitions \ {p} : stage'[q] = stage[q] /\ q_admitted_out'[q] = q_admitted_out[q]
      /\ \/ stage'[p] = "grant" /\ q_admitted_out'[p] = q_admitted_out[p]
         \/ /\ stage'[p] = "prepare" /\ q_admitted_out'[p] = Append(q_admitted_out[p], admitted[p])
            /\ Len(q_admitted_out'[p]) = Len(q_admitted_out[p]) + 1
  BY OutProcess, Zenon
<1>2. admitted' = admitted
  BY Zenon DEF pim_process_accepts
<1>3. CASE r # p
  BY <1>1, <1>2, <1>3, SlotSame, Zenon
<1>4. CASE r = p /\ stage'[p] = "grant" /\ q_admitted_out'[p] = q_admitted_out[p]
  BY <1>1, <1>2, <1>4, SlotSame
<1>5. CASE r = p /\ stage'[p] = "prepare" /\ q_admitted_out'[p] = Append(q_admitted_out[p], admitted[p])
  <2>1. PICK out : out = q_admitted_out[p]
    OBVIOUS
  <2>2. PICK adm : adm = admitted[p]
    OBVIOUS
  <2>3. out \in Seq(SUBSET Flows) /\ adm \in SUBSET Flows /\ t \in Nat \ {0}
    <3>1. out \in Seq(SUBSET Flows) /\ adm \in SUBSET Flows
      BY <2>1, <2>2, Zenon DEF PimTypeOK, EdgeTypeOK
    <3> QED BY <3>1, Sizes
  <2>4. SlotOf(p, t)' = IF t <= Len(Append(out, adm)) THEN Append(out, adm)[t] ELSE IF t = Len(Append(out, adm)) + 1 /\ FALSE THEN adm ELSE {}
    BY <1>2, <1>5, <2>1, <2>2, Zenon DEF SlotOf
  <2>5. SlotOf(p, t) = IF t <= Len(out) THEN out[t] ELSE IF t = Len(out) + 1 THEN adm ELSE {}
    BY <1>1, <2>1, <2>2 DEF SlotOf
  <2>6. SlotOf(p, t)' = SlotOf(p, t)
    <3> HIDE <1>1, <1>5, <2>1, <2>2
    <3> QED BY <2>3, <2>4, <2>5
  <2> QED BY <1>5, <2>6, Zenon
<1> QED BY <1>1, <1>3, <1>4, <1>5

\* The edges E go into the timeslot that core p is in, and into no other.
Grows(p, E, r, t) ==
    /\ r = p /\ t = Len(q_admitted_out[p]) + 1 => SlotOf(r, t)' = SlotOf(r, t) \cup E
    /\ r # p \/ t # Len(q_admitted_out[p]) + 1 => SlotOf(r, t)' = SlotOf(r, t)

LEMMA SlotServe ==
  ASSUME PimTypeOK, NEW p \in Partitions, NEW q \in Partitions, NEW E, Serves(p, q, E), NEW r \in Partitions, NEW t \in 1 .. MAX_SLOTS
  PROVE  Grows(p, E, r, t)
<1>1. /\ admitted' = [admitted EXCEPT ![p] = @ \cup E] /\ UNCHANGED q_admitted_out
      /\ InRound(p) /\ stage'[p] = "process" /\ \A k \in Partitions \ {p} : stage'[k] = stage[k]
  BY Zenon DEF Serves
<1>2. admitted'[p] = admitted[p] \cup E /\ \A k \in Partitions \ {p} : admitted'[k] = admitted[k]
  BY <1>1, Zenon DEF PimTypeOK, EdgeTypeOK
<1>3. CASE r # p
  <2>1. SlotOf(r, t)' = SlotOf(r, t)
    BY <1>1, <1>2, <1>3, SlotSame, Zenon
  <2> QED BY <1>3, <2>1, Zenon DEF Grows
<1>4. CASE r = p
  <2>1. stage[p] # "prepare" /\ stage'[p] # "prepare"
    BY <1>1 DEF InRound
  <2>2. Len(q_admitted_out[p]) \in Nat /\ t \in Nat
    BY OutFacts, Sizes
  <2>3. CASE t = Len(q_admitted_out[p]) + 1
    <3>1. ~(t <= Len(q_admitted_out[p]))
      BY <2>2, <2>3
    <3>2. SlotOf(p, t) = admitted[p] /\ SlotOf(p, t)' = admitted'[p]
      BY <1>1, <2>1, <2>3, <3>1, Zenon DEF SlotOf
    <3> QED BY <1>2, <1>4, <2>3, <3>2, Zenon DEF Grows
  <2>4. CASE t # Len(q_admitted_out[p]) + 1
    <3>1. SlotOf(p, t)' = SlotOf(p, t)
      BY <1>1, <2>4, Zenon DEF SlotOf
    <3> QED BY <1>4, <2>4, <3>1, Zenon DEF Grows
  <2> QED BY <2>3, <2>4
<1> QED BY <1>3, <1>4

LEMMA SlotInvAtPrepare ==
  ASSUME PimTypeOK, SlotInv, NEW p \in Partitions, pim_prepare(p)
  PROVE  SlotInv'
<1>1. Len(q_admitted_out[p]) < MAX_SLOTS /\ q_admitted_out' = q_admitted_out
  BY Zenon DEF pim_prepare
<1>2. \A r \in Partitions \ {p} : stage'[r] = stage[r]
  BY Zenon DEF pim_prepare, PimTypeOK, PhaseTypeOK
<1> QED BY <1>1, <1>2, Zenon DEF SlotInv, SlotOK

LEMMA SlotKept ==
  ASSUME SlotInv, UNCHANGED q_admitted_out, \A r \in Partitions : stage[r] = "prepare" => stage'[r] = "prepare"
  PROVE  SlotInv'
  BY Zenon DEF SlotInv, SlotOK

LEMMA SlotInvAtProcess ==
  ASSUME PimTypeOK, SlotInv, SourceInv, NEW p \in Partitions, pim_process_accepts(p)
  PROVE  SlotInv'
<1>1. /\ stage[p] = "process" /\ \A q \in Partitions \ {p} : stage'[q] = stage[q] /\ q_admitted_out'[q] = q_admitted_out[q]
      /\ \/ stage'[p] = "grant" /\ q_admitted_out'[p] = q_admitted_out[p]
         \/ /\ stage'[p] = "prepare" /\ q_admitted_out'[p] = Append(q_admitted_out[p], admitted[p])
            /\ Len(q_admitted_out'[p]) = Len(q_admitted_out[p]) + 1
  BY OutProcess, Zenon
<1>2. \A r \in Partitions \ {p} : SlotOK(r)'
  BY <1>1, Zenon DEF SlotInv, SlotOK
<1>3. SlotOK(p) /\ stage[p] # "prepare"
  BY <1>1 DEF SlotInv
<1>4. CASE stage'[p] = "grant" /\ q_admitted_out'[p] = q_admitted_out[p]
  BY <1>2, <1>3, <1>4, Zenon DEF SlotInv, SlotOK
<1>5. CASE stage'[p] = "prepare" /\ q_admitted_out'[p] = Append(q_admitted_out[p], admitted[p]) /\ Len(q_admitted_out'[p]) = Len(q_admitted_out[p]) + 1
  <2>1. Len(q_admitted_out[p]) < MAX_SLOTS /\ Len(q_admitted_out[p]) \in Nat
    BY <1>3, OutFacts DEF SlotOK
  <2>2. Len(q_admitted_out'[p]) <= MAX_SLOTS
    BY <1>5, <2>1, Sizes
  <2>3. \A t \in DOMAIN q_admitted_out'[p] : (t \in DOMAIN q_admitted_out[p] /\ q_admitted_out'[p][t] = q_admitted_out[p][t]) \/ q_admitted_out'[p][t] = admitted[p]
    <3>1. q_admitted_out[p] \in Seq(SUBSET Flows)
      BY OutFacts
    <3> QED BY <1>5, <3>1
  <2>4. \A g, h \in admitted[p] : g[1] = h[1] => g = h
    BY Zenon DEF SourceInv, SourceOK
  <2>5. \A t \in DOMAIN q_admitted_out'[p] : \A g, h \in q_admitted_out'[p][t] : g[1] = h[1] => g = h
    BY <1>3, <2>3, <2>4, Zenon DEF SlotOK
  <2>6. SlotOK(p)'
    BY <1>5, <2>2, <2>5, Zenon DEF SlotOK
  <2> QED BY <1>2, <2>6, Zenon DEF SlotInv
<1> QED BY <1>1, <1>4, <1>5

-----------------------------------------------------------------------------
(* Destinations.                                                           *)

LEMMA DestinationKept ==
  ASSUME DestinationInv,
         \A f \in Flows : \A t \in 1 .. MAX_SLOTS : Placed(f, t)' => Placed(f, t),
         \A f \in Flows : \A t \in 1 .. MAX_SLOTS : Marked(f, t) => Marked(f, t)'
  PROVE  DestinationInv'
  BY Zenon DEF DestinationInv

LEMMA PlacedSame ==
  ASSUME \A r \in Partitions : \A t \in 1 .. MAX_SLOTS : SlotOf(r, t)' = SlotOf(r, t), \A f \in accepts' : f \in accepts,
         \A f \in accepts' : q_admitted_out'[SrcP(f)] = q_admitted_out[SrcP(f)]
  PROVE  \A f \in Flows : \A t \in 1 .. MAX_SLOTS : Placed(f, t)' => Placed(f, t)
<1> SUFFICES ASSUME NEW f \in Flows, NEW t \in 1 .. MAX_SLOTS, Placed(f, t)' PROVE Placed(f, t)
  OBVIOUS
<1>1. SrcP(f) \in Partitions
  BY EndFacts
<1>2. f \in SlotOf(SrcP(f), t)' \/ (f \in accepts' /\ t = Len(q_admitted_out'[SrcP(f)]) + 1)
  BY Zenon DEF Placed
<1> QED BY <1>1, <1>2, Zenon DEF Placed

LEMMA MarkedSame ==
  ASSUME UNCHANGED q_admitted_out, \A r \in Partitions : stage'[r] = "prepare" => stage[r] = "prepare",
         \A d \in Nodes : d \in dst_endnodes /\ stage[PARTITION_OF(d)] # "prepare" => d \in dst_endnodes'
  PROVE  \A f \in Flows : \A t \in 1 .. MAX_SLOTS : Marked(f, t) => Marked(f, t)'
<1> SUFFICES ASSUME NEW f \in Flows, NEW t \in 1 .. MAX_SLOTS, Marked(f, t) PROVE Marked(f, t)'
  OBVIOUS
<1>1. DstP(f) \in Partitions /\ f[2] \in Nodes /\ PARTITION_OF(f[2]) = DstP(f)
  BY EndFacts DEF DstP
<1> QED BY <1>1, Zenon DEF Marked

LEMMA DestinationInvAtPrepare ==
  ASSUME PimTypeOK, DestinationInv, NEW p \in Partitions, pim_prepare(p)
  PROVE  DestinationInv'
<1>1. /\ stage[p] = "prepare" /\ stage' = [stage EXCEPT ![p] = "grant"] /\ dst_endnodes' = dst_endnodes \ NodesOf(p)
      /\ UNCHANGED <<accepts, q_admitted_out>>
  BY Zenon DEF pim_prepare
<1>2. \A f \in Flows : \A t \in 1 .. MAX_SLOTS : Placed(f, t)' => Placed(f, t)
  BY <1>1, SlotPrepare, PlacedSame, Zenon
<1>3. \A r \in Partitions : stage'[r] = "prepare" => stage[r] = "prepare"
  BY <1>1, Zenon DEF PimTypeOK, PhaseTypeOK
<1>4. \A d \in Nodes : d \in dst_endnodes /\ stage[PARTITION_OF(d)] # "prepare" => d \in dst_endnodes'
  BY <1>1, Zenon DEF NodesOf
<1>5. \A f \in Flows : \A t \in 1 .. MAX_SLOTS : Marked(f, t) => Marked(f, t)'
  BY <1>1, <1>3, <1>4, MarkedSame, Zenon
<1> QED BY <1>2, <1>5, DestinationKept, Zenon

\* Steps that leave the timeslots and the marks alone
LEMMA DestinationQuiet ==
  ASSUME PimTypeOK, DestinationInv, UNCHANGED <<accepts, admitted, q_admitted_out, dst_endnodes>>,
         \A r \in Partitions : stage'[r] = "prepare" <=> stage[r] = "prepare"
  PROVE  DestinationInv'
<1>1. \A r \in Partitions : \A t \in 1 .. MAX_SLOTS : SlotOf(r, t)' = SlotOf(r, t)
  BY SlotSame, Zenon
<1>2. \A f \in Flows : \A t \in 1 .. MAX_SLOTS : Placed(f, t)' => Placed(f, t)
  BY <1>1, PlacedSame, Zenon
<1>3. \A f \in Flows : \A t \in 1 .. MAX_SLOTS : Marked(f, t) => Marked(f, t)'
  BY MarkedSame, Zenon
<1> QED BY <1>2, <1>3, DestinationKept, Zenon

LEMMA DestinationInvAtProcess ==
  ASSUME PimTypeOK, DestinationInv, NEW p \in Partitions, pim_process_accepts(p)
  PROVE  DestinationInv'
<1>1. /\ stage[p] = "process" /\ \A q \in Partitions \ {p} : stage'[q] = stage[q] /\ q_admitted_out'[q] = q_admitted_out[q]
      /\ \/ stage'[p] = "grant" /\ q_admitted_out'[p] = q_admitted_out[p]
         \/ /\ stage'[p] = "prepare" /\ q_admitted_out'[p] = Append(q_admitted_out[p], admitted[p])
            /\ Len(q_admitted_out'[p]) = Len(q_admitted_out[p]) + 1
  BY OutProcess, Zenon
<1>2. accepts' = {f \in accepts : PARTITION_OF(f[1]) # p} /\ UNCHANGED dst_endnodes
  BY Zenon DEF pim_process_accepts
<1>3. \A f \in accepts' : f \in accepts /\ SrcP(f) # p /\ SrcP(f) \in Partitions
  <2>1. \A f \in accepts' : f \in accepts /\ SrcP(f) # p /\ f \in Flows
    BY <1>2, Zenon DEF SrcP, PimTypeOK, EdgeTypeOK
  <2> QED BY <2>1, EndFacts, Zenon
<1>4. \A f \in Flows : \A t \in 1 .. MAX_SLOTS : Placed(f, t)' => Placed(f, t)
  BY <1>1, <1>3, SlotProcess, PlacedSame, Zenon
<1>5. ASSUME NEW f \in Flows, NEW t \in 1 .. MAX_SLOTS, Marked(f, t) PROVE Marked(f, t)'
  <2>1. DstP(f) \in Partitions
    BY <1>5, EndFacts
  <2>2. CASE DstP(f) # p \/ stage'[p] = "grant"
    BY <1>1, <1>2, <1>5, <2>1, <2>2 DEF Marked
  <2>3. CASE DstP(f) = p /\ stage'[p] # "grant"
    <3>1. Len(q_admitted_out'[p]) = Len(q_admitted_out[p]) + 1 /\ Len(q_admitted_out[p]) \in Nat /\ t \in Nat
      BY <1>1, <2>3, OutFacts, Sizes
    <3>2. t <= Len(q_admitted_out[p]) \/ t = Len(q_admitted_out[p]) + 1
      BY <1>5, <2>3, Zenon DEF Marked
    <3>3. t <= Len(q_admitted_out'[p])
      BY <3>1, <3>2
    <3> QED BY <2>3, <3>3, Zenon DEF Marked
  <2> QED BY <2>2, <2>3
<1> QED BY <1>4, <1>5, DestinationKept, Zenon

LEMMA DestinationInvAtCollect ==
  ASSUME PimTypeOK, DestinationInv, NEW p \in Partitions, NEW q \in Partitions, NEW E, Serves(p, q, E), E \subseteq accepts,
         UNCHANGED <<accepts, dst_endnodes, stage>>
  PROVE  DestinationInv'
<1>1. UNCHANGED q_admitted_out /\ \A f \in E : f \in Flows /\ SrcP(f) = p
  BY Zenon DEF Serves
<1>2. ASSUME NEW f \in Flows, NEW t \in 1 .. MAX_SLOTS, Placed(f, t)' PROVE Placed(f, t)
  <2>1. SrcP(f) \in Partitions
    BY <1>2, EndFacts
  <2>2. Grows(p, E, SrcP(f), t)
    BY <1>2, <2>1, SlotServe, Zenon
  <2>3. f \in SlotOf(SrcP(f), t)' \/ (f \in accepts /\ t = Len(q_admitted_out[SrcP(f)]) + 1)
    BY <1>1, <1>2, Zenon DEF Placed
  <2>4. f \in SlotOf(SrcP(f), t) \/ (f \in E /\ SrcP(f) = p /\ t = Len(q_admitted_out[p]) + 1) \/ (f \in accepts /\ t = Len(q_admitted_out[SrcP(f)]) + 1)
    BY <2>2, <2>3, Zenon DEF Grows
  <2> QED BY <2>4, Zenon DEF Placed
<1>3. \A f \in Flows : \A t \in 1 .. MAX_SLOTS : Marked(f, t) => Marked(f, t)'
  BY <1>1, MarkedSame, Zenon
<1> QED BY <1>2, <1>3, DestinationKept, Zenon

LEMMA DestinationInvAtAccept ==
  ASSUME PimTypeOK, PhaseInv, GrantInv, AcceptInv, MarkInv, DestinationInv, NEW p \in Partitions, pim_do_accept(p)
  PROVE  DestinationInv'
<1>1. /\ Goes(p, "accept", "process") /\ UNCHANGED <<grants, iteration, q_admitted_out>>
      /\ ended(p) = 2 * round(p) + 1
  BY AcceptStep, Zenon
<1>2. PICK new : Accepts(p, new)
  BY AcceptFacts, Zenon
<1>3. PICK E : Serves(p, p, E) /\ E \subseteq accepts'
  BY AcceptServes, Zenon
<1>4. /\ accepts' = accepts \cup new
      /\ \A f \in new : f[2] \in NodesOf(p) /\ f[2] \in dst_endnodes'
      /\ \A f, g \in new : f[2] = g[2] => f = g
  BY <1>2, Zenon DEF Accepts
<1>5. stage[p] = "accept" /\ stage'[p] = "process" /\ \A r \in Partitions \ {p} : stage'[r] = stage[r]
  BY <1>1, Zenon DEF Goes
<1>6. ASSUME NEW f \in new
      PROVE  /\ f \in Flows /\ SrcP(f) \in Partitions /\ DstP(f) = p /\ f[2] \in grants[f[1]]
             /\ InRound(SrcP(f)) /\ round(SrcP(f)) = round(p)
             /\ Len(q_admitted_out[SrcP(f)]) = Len(q_admitted_out[p]) /\ iteration[SrcP(f)] = iteration[p]
  <2>1. f \in Flows /\ DstP(f) = p /\ f[2] \in grants[f[1]] /\ InRound(SrcP(f)) /\ round(SrcP(f)) = round(p)
    BY <1>2, <1>6, NewAccepts, Zenon
  <2>2. PICK r \in Partitions : r = SrcP(f)
    BY <2>1, EndFacts
  <2>3. stage[r] # "prepare" /\ stage[p] # "prepare" /\ round(r) = round(p)
    BY <1>5, <2>1, <2>2 DEF InRound
  <2>4. Len(q_admitted_out[r]) = Len(q_admitted_out[p]) /\ iteration[r] = iteration[p]
    BY <2>3, RoundFacts, Zenon
  <2> QED BY <2>1, <2>2, <2>4, Zenon
<1>7. ASSUME NEW f \in Flows, NEW t \in 1 .. MAX_SLOTS, Placed(f, t)'
      PROVE  Placed(f, t) \/ (f \in new /\ t = Len(q_admitted_out[p]) + 1)
  <2>1. SrcP(f) \in Partitions
    BY <1>7, EndFacts
  <2>2. Grows(p, E, SrcP(f), t)
    BY <1>3, <1>7, <2>1, SlotServe, Zenon
  <2>3. f \in SlotOf(SrcP(f), t)' \/ (f \in accepts' /\ t = Len(q_admitted_out[SrcP(f)]) + 1)
    BY <1>1, <1>7, Zenon DEF Placed
  <2>4. f \in SlotOf(SrcP(f), t) \/ (f \in E /\ SrcP(f) = p /\ t = Len(q_admitted_out[p]) + 1) \/ (f \in accepts' /\ t = Len(q_admitted_out[SrcP(f)]) + 1)
    BY <2>2, <2>3, Zenon DEF Grows
  <2>5. CASE f \in SlotOf(SrcP(f), t)
    BY <2>5, Zenon DEF Placed
  <2>6. CASE f \in accepts' /\ t = Len(q_admitted_out[SrcP(f)]) + 1
    <3>1. CASE f \in accepts
      BY <2>6, <3>1, Zenon DEF Placed
    <3>2. CASE f \in new
      BY <1>6, <2>6, <3>2, Zenon
    <3> QED BY <1>4, <2>6, <3>1, <3>2
  <2> QED BY <1>3, <2>4, <2>5, <2>6, Zenon
<1>8. \A f \in Flows : \A t \in 1 .. MAX_SLOTS : Marked(f, t) => Marked(f, t)'
  <2>1. \A d \in Nodes : d \in dst_endnodes /\ stage[PARTITION_OF(d)] # "prepare" => d \in dst_endnodes'
    BY AcceptFacts, Zenon
  <2>2. \A r \in Partitions : stage'[r] = "prepare" => stage[r] = "prepare"
    BY <1>5
  <2> QED BY <1>1, <2>1, <2>2, MarkedSame, Zenon
<1>10. ASSUME NEW f \in new, NEW g \in Flows, Len(q_admitted_out[p]) + 1 \in 1 .. MAX_SLOTS,
              Placed(g, Len(q_admitted_out[p]) + 1), f[2] = g[2] PROVE FALSE
  <2>1. DstP(g) = p /\ Len(q_admitted_out[p]) \in Nat
    BY <1>6, <1>10, OutFacts DEF DstP
  <2>2. Marked(g, Len(q_admitted_out[p]) + 1)
    BY <1>10, Zenon DEF DestinationInv
  <2>3. f[2] \in dst_endnodes
    BY <1>10, <2>1, <2>2 DEF Marked
  <2>4. iteration[p] \in Nat /\ (iteration[p] = 1 \/ iteration[p] > 1)
    BY Sizes DEF PimTypeOK, PhaseTypeOK
  <2>5. CASE iteration[p] = 1
    <3>1. stage[p] \in {"grant", "accept"} /\ f[2] \in NodesOf(p)
      BY <1>4, <1>5, <1>10
    <3> QED BY <2>3, <2>5, <3>1, Zenon DEF MarkInv
  <2>6. CASE iteration[p] > 1
    <3>1. PICK r \in Partitions : r = SrcP(f)
      BY <1>6, <1>10, Zenon
    <3>2. InRound(r) /\ iteration[r] > 1 /\ f[2] \in grants[f[1]] /\ round(r) = round(p) /\ PARTITION_OF(f[2]) = p
      BY <1>6, <1>10, <2>6, <3>1 DEF DstP
    <3>3. f[1] \in NodesOf(r)
      BY <1>6, <1>10, <3>1, EndFacts, Zenon
    <3>4. ~HasAccepted(p, r)
      <4>1. round(p) \in Nat
        BY EndedType
      <4> QED BY <1>1, <3>2, <4>1 DEF HasAccepted
    <3> QED BY <2>3, <3>2, <3>3, <3>4, Zenon DEF MarkInv
  <2> QED BY <2>4, <2>5, <2>6
<1>11. ASSUME NEW t \in 1 .. MAX_SLOTS, NEW f \in Flows, Placed(f, t)' PROVE Marked(f, t)'
  <2>1. CASE Placed(f, t)
    BY <1>8, <1>11, <2>1, Zenon DEF DestinationInv
  <2>2. CASE f \in new /\ t = Len(q_admitted_out[p]) + 1
    <3>1. PICK k : k = Len(q_admitted_out[p]) + 1
      OBVIOUS
    <3>2. Marked(f, k)'
      <4>1. Len(q_admitted_out'[p]) = Len(q_admitted_out[p])
        BY <1>1
      <4>2. stage'[p] # "prepare" /\ f[2] \in dst_endnodes' /\ DstP(f) = p
        BY <1>4, <1>5, <1>6, <2>2
      <4> QED BY <3>1, <4>1, <4>2, Zenon DEF Marked
    <3> QED BY <2>2, <3>1, <3>2, Zenon
  <2> QED BY <1>7, <1>11, <2>1, <2>2
<1>12. ASSUME NEW t \in 1 .. MAX_SLOTS, NEW f \in Flows, Placed(f, t)', NEW g \in Flows, Placed(g, t)', f[2] = g[2] PROVE f = g
  <2>1. /\ Placed(f, t) \/ (f \in new /\ t = Len(q_admitted_out[p]) + 1)
        /\ Placed(g, t) \/ (g \in new /\ t = Len(q_admitted_out[p]) + 1)
    BY <1>7, <1>12, Zenon
  <2>2. CASE Placed(f, t) /\ Placed(g, t)
    BY <1>12, <2>2, Zenon DEF DestinationInv
  <2>3. CASE f \in new /\ t = Len(q_admitted_out[p]) + 1 /\ Placed(g, t)
    BY <1>10, <1>12, <2>3, Zenon
  <2>4. CASE g \in new /\ t = Len(q_admitted_out[p]) + 1 /\ Placed(f, t)
    BY <1>10, <1>12, <2>4, Zenon
  <2>5. CASE f \in new /\ g \in new
    BY <1>4, <1>12, <2>5, Zenon
  <2> QED BY <2>1, <2>2, <2>3, <2>4, <2>5
<1> QED BY <1>11, <1>12, Zenon DEF DestinationInv

-----------------------------------------------------------------------------
(* Indexes.                                                                *)

\* The requests h go on where the requests r end.
Extends(r, h) == \A n \in Nodes : \A i \in DOMAIN r[n] : i \in DOMAIN h[n] /\ h[n][i] = r[n][i]

LEMMA IndexKept ==
  ASSUME PimTypeOK, IndexInv, Extends(requests, requests'),
         \A r \in Partitions : InRound(r)' => /\ InRound(r)
                                              /\ \A n \in NodesOf(r) : grants'[n] = grants[n] /\ grant_adj_index'[n] = grant_adj_index[n],
         \A r \in Partitions : InRound(r)' => \A q \in Partitions : Processed(r, q) => Processed(r, q)'
  PROVE  IndexInv'
<1> SUFFICES ASSUME NEW p \in Partitions, InRound(p)', NEW s \in NodesOf(p), NEW d \in grants'[s], ~Processed(p, PARTITION_OF(d))'
             PROVE  grant_adj_index'[s] \in DOMAIN requests'[s] /\ requests'[s][grant_adj_index'[s]] = d
  BY Zenon DEF IndexInv
<1>1. s \in Nodes
  BY OfFacts, Zenon
<1>2. InRound(p) /\ d \in grants[s] /\ grant_adj_index'[s] = grant_adj_index[s]
  BY Zenon
<1>3. PARTITION_OF(d) \in Partitions
  BY <1>1, <1>2, GrantedFacts, Zenon
<1>4. ~Processed(p, PARTITION_OF(d))
  BY <1>3, Zenon
<1>5. grant_adj_index[s] \in DOMAIN requests[s] /\ requests[s][grant_adj_index[s]] = d
  BY <1>2, <1>4, Zenon DEF IndexInv
<1>6. PICK i : i = grant_adj_index[s]
  OBVIOUS
<1>7. i \in DOMAIN requests'[s] /\ requests'[s][i] = requests[s][i]
  BY <1>1, <1>5, <1>6, Zenon DEF Extends
<1> QED BY <1>2, <1>5, <1>6, <1>7, Zenon

LEMMA IndexInvAtGrant ==
  ASSUME PimTypeOK, PhaseInv, IndexInv, NEW p \in Partitions, pim_do_grant(p)
  PROVE  IndexInv'
<1>1. /\ Goes(p, "grant", "accept") /\ UNCHANGED requests
      /\ \A r \in Partitions \ {p} : Heard(r)' = Heard(r)
  BY GrantStep, Zenon
<1>2. /\ \A s \in NodesOf(p) : Grants(p, s)
      /\ \A s \in Nodes \ NodesOf(p) : grants'[s] = grants[s] /\ grant_adj_index'[s] = grant_adj_index[s]
  BY GrantFacts, Zenon
<1> SUFFICES ASSUME NEW r \in Partitions, InRound(r)', NEW s \in NodesOf(r), NEW d \in grants'[s], ~Processed(r, PARTITION_OF(d))'
             PROVE  grant_adj_index'[s] \in DOMAIN requests'[s] /\ requests'[s][grant_adj_index'[s]] = d
  BY Zenon DEF IndexInv
<1>3. CASE r = p
  <2>1. Grants(p, s)
    BY <1>2, <1>3, Zenon
  <2>2. \E i \in DOMAIN requests[s] : grants'[s] = {requests[s][i]} /\ grant_adj_index'[s] = i
    BY <2>1, Zenon DEF Grants
  <2> QED BY <1>1, <2>2, Zenon
<1>4. CASE r # p
  <2>1. s \in Nodes \ NodesOf(p)
    BY <1>4, Zenon DEF NodesOf
  <2>2. stage'[r] = stage[r] /\ Heard(r)' = Heard(r)
    BY <1>1, <1>4, Zenon DEF Goes
  <2>3. InRound(r) /\ ~Processed(r, PARTITION_OF(d)) /\ d \in grants[s]
    BY <1>2, <2>1, <2>2, Zenon DEF InRound, Processed
  <2>4. grant_adj_index[s] \in DOMAIN requests[s] /\ requests[s][grant_adj_index[s]] = d
    BY <2>3, Zenon DEF IndexInv
  <2>5. grant_adj_index'[s] = grant_adj_index[s] /\ requests' = requests
    BY <1>1, <1>2, <2>1, Zenon
  <2> QED BY <2>4, <2>5, Zenon
<1> QED BY <1>3, <1>4

LEMMA IndexInvAtServe ==
  ASSUME PimTypeOK, GrantInv, IndexInv, NEW p \in Partitions, NEW q \in Partitions, NEW E, Serves(p, q, E)
  PROVE  IndexInv'
<1>1. /\ UNCHANGED <<grants, grant_adj_index>> /\ requests' = [s \in Nodes |-> served(E, s)]
      /\ \A f \in E : f \in Flows /\ SrcP(f) = p /\ DstP(f) = q /\ f[2] \in grants[f[1]]
      /\ InRound(p) /\ Processed(p, q)'
      /\ \A r \in Partitions : Processed(p, r) => Processed(p, r)'
      /\ \A r \in Partitions \ {p} : stage'[r] = stage[r] /\ Heard(r)' = Heard(r)
  BY Zenon DEF Serves
<1> SUFFICES ASSUME NEW r \in Partitions, InRound(r)', NEW s \in NodesOf(r), NEW d \in grants'[s], ~Processed(r, PARTITION_OF(d))'
             PROVE  grant_adj_index'[s] \in DOMAIN requests'[s] /\ requests'[s][grant_adj_index'[s]] = d
  BY Zenon DEF IndexInv
<1>2. s \in Nodes /\ d \in grants[s] /\ PARTITION_OF(s) = r
  BY <1>1, OfFacts, Zenon
<1>3. PARTITION_OF(d) \in Partitions
  BY <1>2, GrantedFacts, Zenon
<1>4. InRound(r) /\ ~Processed(r, PARTITION_OF(d))
  BY <1>1, <1>3, Zenon DEF InRound, Processed
<1>5. grant_adj_index[s] \in DOMAIN requests[s] /\ requests[s][grant_adj_index[s]] = d
  BY <1>2, <1>4, Zenon DEF IndexInv
<1>6. ASSUME NEW f \in E, f[1] = s PROVE FALSE
  <2>1. f[2] \in grants[s] /\ PARTITION_OF(f[2]) = q /\ r = p
    BY <1>1, <1>2, <1>6 DEF SrcP, DstP
  <2>2. \A c, e \in grants[s] : c = e
    BY <1>2, Zenon DEF GrantInv
  <2>3. f[2] = d
    BY <1>2, <2>1, <2>2
  <2> QED BY <1>1, <2>1, <2>3, Zenon
<1>7. requests'[s] = requests[s]
  BY <1>1, <1>2, <1>6, Zenon DEF served
<1> QED BY <1>1, <1>5, <1>7, Zenon

=============================================================================
