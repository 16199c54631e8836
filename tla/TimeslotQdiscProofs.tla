------------------------ MODULE TimeslotQdiscProofs ------------------------
(***************************************************************************)
(* The queueing discipline (sch_timeslot.c) loses no wake-up, and keeps    *)
(* the credit of each flow, for every number of flows, CPUs, packets and   *)
(* resets, all costs and every length of a timeslot.                       *)
(***************************************************************************)
EXTENDS TimeslotQdisc, FiniteSetTheorems, WellFoundedInduction, TLAPS

Skbs == [to : Classes, n : Nat, cost : Nat]
Data == [to : Flows, n : Nat, cost : Costs]
Dsts == [skb_qs : Seq(Seq(Data)), credit : Int]
CpuPcs == {IDLE, WAKE} \cup {ADMIT(f) : f \in Flows} \cup {APPEND(skbs) : skbs \in Seq(Data)}
TaskletPcs == {IDLE, WAKE} \cup {ADD(f) : f \in Flows}
Tasklets == [scheduled : BOOLEAN, next : Seq(Data), pc : TaskletPcs]

QdiscTypeOK ==
    /\ enqueue_skb_q \in Seq(Data)
    /\ hi_prio \in Seq(Skbs) /\ reg_prio \in Seq(Skbs) /\ prequeue \in Seq(Skbs)
    /\ DOMAIN dst_hash_tbl \subseteq Flows /\ dst_hash_tbl \in [DOMAIN dst_hash_tbl -> Dsts]
    /\ enqueue_tasklet \in Tasklets
    /\ scheduled \in BOOLEAN /\ running \in BOOLEAN /\ leaked \in {RELEASED, NO_MEMORY, NO_TIMESLOT}
    /\ waiting \in [Flows -> Nat] /\ cpu \in [Cpus -> CpuPcs]
    /\ accepted \in [Classes -> Nat] /\ resets \in Nat

QdiscInv == QdiscTypeOK /\ Awake /\ TimeslotFits

-----------------------------------------------------------------------------
(* Lists.                                                                  *)

LEMMA Lists ==
  ASSUME NEW S, NEW s \in Seq(S)
  PROVE  Len(s) \in Nat /\ DOMAIN s = 1 .. Len(s) /\ s \in [1 .. Len(s) -> S]
  OBVIOUS

LEMMA Elements ==
  ASSUME NEW S, NEW s \in Seq(S), NEW i \in 1 .. Len(s)
  PROVE  s[i] \in S
  OBVIOUS

LEMMA EmptyList ==
  ASSUME NEW S
  PROVE  <<>> \in Seq(S) /\ Len(<<>>) = 0 /\ \A s \in Seq(S) : s # <<>> => Len(s) \in Nat \ {0}
  OBVIOUS

LEMMA Appended ==
  ASSUME NEW S, NEW s \in Seq(S), NEW x \in S
  PROVE  LET t == Append(s, x)
         IN  /\ t \in Seq(S) /\ t # <<>> /\ Len(t) = Len(s) + 1
             /\ t[Len(s) + 1] = x /\ \A i \in 1 .. Len(s) : t[i] = s[i]
  OBVIOUS

LEMMA Replaced ==
  ASSUME NEW S, NEW s \in Seq(S), NEW i \in 1 .. Len(s), NEW x \in S
  PROVE  LET t == [s EXCEPT ![i] = x]
         IN  t \in Seq(S) /\ Len(t) = Len(s) /\ \A j \in 1 .. Len(s) : t[j] = IF j = i THEN x ELSE s[j]
<1> DEFINE t == [s EXCEPT ![i] = x]
<1>1. DOMAIN t = 1 .. Len(s) /\ \A j \in 1 .. Len(s) : t[j] = IF j = i THEN x ELSE s[j]
  OBVIOUS
<1>2. t \in [1 .. Len(s) -> S] /\ Len(s) \in Nat
  OBVIOUS
<1>3. t \in Seq(S) /\ Len(t) = Len(s)
  BY <1>2
<1> QED BY <1>1, <1>3

LEMMA WiderLists ==
  ASSUME NEW S, NEW T, S \subseteq T
  PROVE  Seq(S) \subseteq Seq(T)
<1> SUFFICES ASSUME NEW s \in Seq(S) PROVE s \in Seq(T)
  OBVIOUS
<1>1. Len(s) \in Nat /\ s \in [1 .. Len(s) -> S] /\ DOMAIN s = 1 .. Len(s)
  OBVIOUS
<1>2. s \in [1 .. Len(s) -> T]
  BY <1>1
<1> QED BY <1>1, <1>2

LEMMA HeadAndTail ==
  ASSUME NEW S, NEW s \in Seq(S), s # <<>>
  PROVE  /\ Head(s) \in S /\ Tail(s) \in Seq(S) /\ Len(Tail(s)) = Len(s) - 1
         /\ \A i \in 1 .. Len(Tail(s)) : Tail(s)[i] = s[i + 1]
  OBVIOUS

LEMMA Joined ==
  ASSUME NEW S, NEW s \in Seq(S), NEW t \in Seq(S)
  PROVE  s \o t \in Seq(S) /\ Len(s \o t) = Len(s) + Len(t)
  OBVIOUS

-----------------------------------------------------------------------------
(* Where threads are, and the tasklet's state.                             *)

LEMMA Places ==
  /\ IDLE.at = "idle" /\ WAKE.at = "wake" /\ IDLE # WAKE
  /\ \A f : ADMIT(f).at = "admit" /\ ADMIT(f).flow = f
  /\ \A f : ADD(f).at = "add" /\ ADD(f).flow = f
  /\ \A skbs : APPEND(skbs).at = "append" /\ APPEND(skbs).skbs = skbs
<1>1. IDLE.at = "idle" /\ WAKE.at = "wake"
  BY DEF IDLE, WAKE
<1>2. \A f : ADMIT(f).at = "admit" /\ ADMIT(f).flow = f
  BY DEF ADMIT
<1>3. \A f : ADD(f).at = "add" /\ ADD(f).flow = f
  BY DEF ADD
<1>4. \A skbs : APPEND(skbs).at = "append" /\ APPEND(skbs).skbs = skbs
  BY DEF APPEND
<1> QED BY <1>1, <1>2, <1>3, <1>4

\* What a CPU is doing says where it is.
LEMMA CpuPlaces ==
  ASSUME NEW pc \in CpuPcs
  PROVE  /\ pc.at = "admit" => pc.flow \in Flows /\ pc = ADMIT(pc.flow)
         /\ pc.at = "append" => pc.skbs \in Seq(Data)
         /\ pc.at = "idle" => pc = IDLE
         /\ pc = WAKE \/ pc.at # "wake"
  BY Places DEF CpuPcs

LEMMA TaskletPlaces ==
  ASSUME NEW pc \in TaskletPcs
  PROVE  /\ pc.at = "add" => pc.flow \in Flows /\ pc = ADD(pc.flow)
         /\ pc = WAKE \/ pc.at # "wake"
  BY Places DEF TaskletPcs

LEMMA TaskletFields ==
  ASSUME NEW t \in Tasklets
  PROVE  /\ t.scheduled \in BOOLEAN /\ t.next \in Seq(Data) /\ t.pc \in TaskletPcs
         /\ LET u == [t EXCEPT !.scheduled = TRUE]
            IN  u \in Tasklets /\ u.scheduled = TRUE /\ u.next = t.next /\ u.pc = t.pc
         /\ \A pc \in TaskletPcs :
              LET u == [t EXCEPT !.pc = pc]
              IN  u \in Tasklets /\ u.scheduled = t.scheduled /\ u.next = t.next /\ u.pc = pc
<1>1. t.scheduled \in BOOLEAN /\ t.next \in Seq(Data) /\ t.pc \in TaskletPcs
  BY Zenon DEF Tasklets
<1>2. LET u == [t EXCEPT !.scheduled = TRUE]
      IN  u \in Tasklets /\ u.scheduled = TRUE /\ u.next = t.next /\ u.pc = t.pc
  BY Zenon DEF Tasklets
<1>3. ASSUME NEW pc \in TaskletPcs
      PROVE  LET u == [t EXCEPT !.pc = pc]
             IN  u \in Tasklets /\ u.scheduled = t.scheduled /\ u.next = t.next /\ u.pc = pc
  BY Zenon DEF Tasklets
<1> QED BY <1>1, <1>2, <1>3, Zenon

-----------------------------------------------------------------------------
(* How long packets are on the wire.                                       *)

\* A set of natural numbers that is not empty has a least element.
LEMMA Least ==
  ASSUME NEW T \in SUBSET Nat, T # {}
  PROVE  \E n \in T : \A m \in T : n <= m
<1> DEFINE R == OpToRel(<, Nat)
<1>1. IsWellFoundedOn(R, Nat)
  BY NatLessThanWellFounded
<1> HIDE DEF R
<1>2. PICK n \in T : \A m \in T : ~(<<m, n>> \in R)
  BY <1>1, WFMin, Zenon
<1>3. \A m \in T : ~(m < n)
  BY <1>2, Zenon DEF R, OpToRel
<1>4. \A m \in T : m \in Nat /\ n \in Nat
  OBVIOUS
<1> QED BY <1>3, <1>4

Sums(f, skbs, S) ==
  f = [s \in SUBSET S |-> IF s = {} THEN 0 ELSE f[s \ {Max(s)}] + skbs[Max(s)].cost]
LEMMA LengthIsSum ==
  ASSUME NEW skbs
  PROVE  length(skbs) = (CHOOSE f : Sums(f, skbs, DOMAIN skbs))[DOMAIN skbs]
  BY DEF length, MapThenFoldSet, Sums

LEMMA MaxIs ==
  ASSUME NEW n \in Nat, NEW s \in SUBSET (1 .. n), n \in s
  PROVE  Max(s) = n
<1>1. \A x \in s : n >= x
  OBVIOUS
<1>2. \A x \in s : (\A y \in s : x >= y) => x = n
  OBVIOUS
<1> QED BY <1>1, <1>2, Zenon DEF Max

LEMMA SumsExist ==
  ASSUME NEW skbs \in Seq(Data), NEW n \in 0 .. Len(skbs)
  PROVE  \E f \in [SUBSET (1 .. n) -> Nat] : Sums(f, skbs, 1 .. n)
<1> DEFINE P(k) == \E f \in [SUBSET (1 .. k) -> Nat] : Sums(f, skbs, 1 .. k)
           T == {k \in 0 .. Len(skbs) : ~P(k)}
<1>0. Len(skbs) \in Nat /\ \A k \in 1 .. Len(skbs) : skbs[k].cost \in Nat
  <2>1. Len(skbs) \in Nat /\ \A k \in 1 .. Len(skbs) : skbs[k] \in Data
    BY Elements, Lists
  <2>2. \A d \in Data : d.cost \in Nat
    BY QdiscAssumption, Zenon DEF Data
  <2> QED BY <2>1, <2>2
<1>1. P(0)
  <2> DEFINE f == [s \in SUBSET (1 .. 0) |-> 0]
  <2>1. \A s \in SUBSET (1 .. 0) : s = {}
    OBVIOUS
  <2>2. f = [s \in SUBSET (1 .. 0) |-> IF s = {} THEN 0 ELSE f[s \ {Max(s)}] + skbs[Max(s)].cost]
    BY <2>1
  <2>3. f \in [SUBSET (1 .. 0) -> Nat]
    OBVIOUS
  <2> QED BY <2>2, <2>3, Zenon DEF Sums
<1>2. ASSUME NEW k \in 0 .. Len(skbs) - 1, P(k) PROVE P(k + 1)
  <2>1. PICK f \in [SUBSET (1 .. k) -> Nat] : Sums(f, skbs, 1 .. k)
    BY <1>2
  <2> DEFINE c == skbs[k + 1].cost
             g == [s \in SUBSET (1 .. k + 1) |-> IF k + 1 \in s THEN f[s \ {k + 1}] + c ELSE f[s]]
             h(s) == IF s = {} THEN 0 ELSE g[s \ {Max(s)}] + skbs[Max(s)].cost
  <2>2. c \in Nat /\ k \in Nat /\ k + 1 \in Nat
    BY <1>0
  <2>3. ASSUME NEW s \in SUBSET (1 .. k + 1), k + 1 \in s
        PROVE  g[s] \in Nat /\ g[s] = h(s)
    <3>1. s \ {k + 1} \in SUBSET (1 .. k) /\ s \ {k + 1} \in SUBSET (1 .. k + 1) /\ k + 1 \notin s \ {k + 1}
      BY <2>2
    <3>2. Max(s) = k + 1
      BY <2>2, <2>3, MaxIs
    <3>3. g[s] = f[s \ {k + 1}] + c /\ g[s \ {k + 1}] = f[s \ {k + 1}] /\ f[s \ {k + 1}] \in Nat
      BY <2>3, <3>1
    <3> HIDE DEF g
    <3>4. s # {}
      BY <2>3
    <3>5. h(s) = g[s \ {k + 1}] + c
      BY <3>2, <3>4, Zenon
    <3> QED BY <2>2, <3>3, <3>5
  <2>4. ASSUME NEW s \in SUBSET (1 .. k + 1), k + 1 \notin s
        PROVE  g[s] \in Nat /\ g[s] = h(s)
    <3>0. \A i \in 1 .. k + 1 : i = k + 1 \/ i \in 1 .. k
      BY <2>2
    <3>1. s \in SUBSET (1 .. k) /\ s \ {Max(s)} \in SUBSET (1 .. k) /\ s \ {Max(s)} \in SUBSET (1 .. k + 1)
          /\ k + 1 \notin s \ {Max(s)}
      BY <2>4, <3>0, Zenon
    <3>2. g[s] = f[s] /\ f[s] \in Nat /\ g[s \ {Max(s)}] = f[s \ {Max(s)}]
      BY <2>4, <3>1
    <3>3. f[s] = IF s = {} THEN 0 ELSE f[s \ {Max(s)}] + skbs[Max(s)].cost
      BY <2>1, <3>1, Zenon DEF Sums
    <3> HIDE DEF g
    <3> QED BY <3>2, <3>3
  <2>5. g = [s \in SUBSET (1 .. k + 1) |-> g[s]]
    OBVIOUS
  <2> HIDE DEF g
  <2>6. g \in [SUBSET (1 .. k + 1) -> Nat] /\ g = [s \in SUBSET (1 .. k + 1) |-> h(s)]
    BY <2>3, <2>4, <2>5, Zenon
  <2> QED BY <2>6, Zenon DEF Sums
<1>3. T = {}
  <2> SUFFICES ASSUME T # {} PROVE FALSE
    BY Zenon
  <2>1. T \in SUBSET Nat
    BY <1>0
  <2>2. PICK k \in T : \A m \in T : k <= m
    BY <2>1, Least, Zenon
  <2> HIDE DEF P
  <2>3. k # 0
    BY <1>1, <2>2
  <2>4. k - 1 \in 0 .. Len(skbs) - 1 /\ k - 1 \in 0 .. Len(skbs) /\ ~(k <= k - 1) /\ (k - 1) + 1 = k
    BY <1>0, <2>2, <2>3
  <2>5. P(k - 1)
    BY <2>2, <2>4
  <2> QED BY <1>2, <2>2, <2>4, <2>5
<1> QED BY <1>3, Zenon

Prefix(a, b, m) == \A i \in 1 .. m : a[i] = b[i]

\* The sum over a list does not depend on what the list is a prefix of.
LEMMA SumsAgree ==
  ASSUME NEW a, NEW b, NEW m \in Nat, NEW n \in Nat, m <= n,
         NEW f, Sums(f, a, 1 .. m), NEW g, Sums(g, b, 1 .. n),
         Prefix(a, b, m)
  PROVE  f[1 .. m] = g[1 .. m]
<1> DEFINE T == {k \in 0 .. m : f[1 .. k] # g[1 .. k]}
<1>1. ASSUME NEW k \in 1 .. m
      PROVE  f[1 .. k] = f[1 .. (k - 1)] + a[k].cost /\ g[1 .. k] = g[1 .. (k - 1)] + b[k].cost
  <2>1. 1 .. k \in SUBSET (1 .. m) /\ 1 .. k \in SUBSET (1 .. n) /\ k \in 1 .. k /\ k \in Nat
    OBVIOUS
  <2>2. Max(1 .. k) = k
    BY <2>1, MaxIs
  <2>3. (1 .. k) \ {k} = 1 .. (k - 1)
    BY <2>1
  <2>4. 1 .. k # {}
    BY <2>1
  <2>5. f[1 .. k] = IF 1 .. k = {} THEN 0 ELSE f[(1 .. k) \ {Max(1 .. k)}] + a[Max(1 .. k)].cost
    BY <2>1, Zenon DEF Sums
  <2>6. g[1 .. k] = IF 1 .. k = {} THEN 0 ELSE g[(1 .. k) \ {Max(1 .. k)}] + b[Max(1 .. k)].cost
    BY <2>1, Zenon DEF Sums
  <2> QED BY <2>2, <2>3, <2>4, <2>5, <2>6, Zenon
<1>2. f[1 .. 0] = 0 /\ g[1 .. 0] = 0
  <2>1. 1 .. 0 = {} /\ {} \in SUBSET (1 .. m) /\ {} \in SUBSET (1 .. n)
    OBVIOUS
  <2>2. f[{}] = (IF {} = {} THEN 0 ELSE f[{} \ {Max({})}] + a[Max({})].cost)
    BY <2>1, Zenon DEF Sums
  <2>3. g[{}] = (IF {} = {} THEN 0 ELSE g[{} \ {Max({})}] + b[Max({})].cost)
    BY <2>1, Zenon DEF Sums
  <2> QED BY <2>1, <2>2, <2>3
<1>3. T = {}
  <2> SUFFICES ASSUME T # {} PROVE FALSE
    OBVIOUS
  <2>1. PICK k \in T : \A j \in T : k <= j
    <3>1. T \in SUBSET Nat
      OBVIOUS
    <3> QED BY <3>1, Least, Zenon
  <2>2. k # 0
    BY <1>2, <2>1
  <2>3. k \in 1 .. m /\ k - 1 \in 0 .. m /\ ~(k <= k - 1)
    BY <2>1, <2>2
  <2>4. f[1 .. (k - 1)] = g[1 .. (k - 1)]
    BY <2>1, <2>3
  <2>5. f[1 .. k] = g[1 .. k]
    BY <1>1, <2>3, <2>4, Zenon DEF Prefix
  <2> QED BY <2>1, <2>5
<1> QED BY <1>3

\* How long a list of packets is on the wire
LEMMA Lengths ==
  ASSUME NEW skbs \in Seq(Data), NEW skb \in Data
  PROVE  /\ length(skbs) \in Nat
         /\ length(<<skb>>) = skb.cost
         /\ length(Append(skbs, skb)) = length(skbs) + skb.cost
<1> DEFINE F(s) == CHOOSE f : Sums(f, s, DOMAIN s)
<1>1. ASSUME NEW s \in Seq(Data)
      PROVE  /\ Sums(F(s), s, 1 .. Len(s)) /\ length(s) = F(s)[1 .. Len(s)] /\ length(s) \in Nat
             /\ Len(s) \in Nat
  <2>1. DOMAIN s = 1 .. Len(s) /\ Len(s) \in Nat /\ Len(s) \in 0 .. Len(s)
    BY Lists
  <2>2. PICK f \in [SUBSET (1 .. Len(s)) -> Nat] : Sums(f, s, 1 .. Len(s))
    BY <2>1, SumsExist, Zenon
  <2>3. Sums(F(s), s, 1 .. Len(s))
    BY <2>1, <2>2, Zenon
  <2>4. length(s) = F(s)[1 .. Len(s)]
    BY <2>1, LengthIsSum, Zenon
  <2>5. f[1 .. Len(s)] = F(s)[1 .. Len(s)]
    <3> HIDE DEF F
    <3> QED BY <2>1, <2>2, <2>3, SumsAgree DEF Prefix
  <2>6. f[1 .. Len(s)] \in Nat
    <3>1. 1 .. Len(s) \in SUBSET (1 .. Len(s))
      OBVIOUS
    <3> QED BY <2>2, <3>1, Zenon
  <2> QED BY <2>1, <2>3, <2>4, <2>5, <2>6, Zenon
<1> HIDE DEF F
<1>2. ASSUME NEW s \in Seq(Data) PROVE length(Append(s, skb)) = length(s) + skb.cost
  <2> DEFINE t == Append(s, skb)
  <2>1. t \in Seq(Data) /\ Len(t) = Len(s) + 1 /\ (\A i \in 1 .. Len(s) : t[i] = s[i]) /\ t[Len(s) + 1] = skb
    BY Appended
  <2> HIDE DEF t
  <2>2. Len(s) \in Nat /\ Len(t) \in Nat /\ Len(s) <= Len(t)
    BY <1>1, <2>1
  <2>3. F(s)[1 .. Len(s)] = F(t)[1 .. Len(s)]
    <3>1. Sums(F(s), s, 1 .. Len(s)) /\ Sums(F(t), t, 1 .. Len(t))
      BY <1>1, <2>1
    <3>2. Prefix(s, t, Len(s))
      BY <2>1 DEF Prefix
    <3> QED BY <2>2, <3>1, <3>2, SumsAgree
  <2>4. F(t)[1 .. Len(t)] = F(t)[1 .. Len(s)] + t[Len(t)].cost
    <3>1. Max(1 .. Len(t)) = Len(t)
      BY <2>1, <2>2, MaxIs
    <3>2. 1 .. Len(t) # {} /\ 1 .. Len(t) \in SUBSET (1 .. Len(t)) /\ (1 .. Len(t)) \ {Len(t)} = 1 .. Len(s)
      BY <2>1, <2>2
    <3>3. Sums(F(t), t, 1 .. Len(t))
      BY <1>1, <2>1
    <3>4. F(t)[1 .. Len(t)] = IF 1 .. Len(t) = {} THEN 0
                              ELSE F(t)[(1 .. Len(t)) \ {Max(1 .. Len(t))}] + t[Max(1 .. Len(t))].cost
      BY <3>2, <3>3, Zenon DEF Sums
    <3> QED BY <3>1, <3>2, <3>4, Zenon
  <2> QED BY <1>1, <2>1, <2>3, <2>4, Zenon DEF t
<1>3. length(<<>>) = 0
  <2>1. <<>> \in Seq(Data) /\ 1 .. Len(<<>>) = {}
    BY EmptyList
  <2>2. Sums(F(<<>>), <<>>, {}) /\ length(<<>>) = F(<<>>)[{}]
    BY <1>1, <2>1, Zenon
  <2>3. F(<<>>)[{}] = IF {} = {} THEN 0 ELSE F(<<>>)[{} \ {Max({})}] + <<>>[Max({})].cost
    BY <2>2, Zenon DEF Sums
  <2> QED BY <2>2, <2>3
<1>4. length(<<skb>>) = skb.cost
  <2>1. <<skb>> = Append(<<>>, skb) /\ <<>> \in Seq(Data)
    OBVIOUS
  <2>2. skb.cost \in Nat
    BY QdiscAssumption, Zenon DEF Data
  <2>3. length(Append(<<>>, skb)) = 0 + skb.cost
    BY <1>2, <1>3, <2>1, Zenon
  <2> QED BY <2>1, <2>2, <2>3
<1> QED BY <1>1, <1>2, <1>4
-----------------------------------------------------------------------------
(* The timeslots of a flow.                                                *)

\* TimeslotFits, of one flow
Fits(dst) ==
    /\ \A i \in DOMAIN dst.skb_qs : Len(dst.skb_qs[i]) = 1 \/ length(dst.skb_qs[i]) <= TSLOT_LEN
    /\ dst.credit = IF dst.skb_qs = <<>> THEN 0 ELSE TSLOT_LEN - length(dst.skb_qs[Len(dst.skb_qs)])

LEMMA DstFields ==
  ASSUME NEW qs \in Seq(Seq(Data)), NEW k \in Int
  PROVE  LET d == [skb_qs |-> qs, credit |-> k] IN d \in Dsts /\ d.skb_qs = qs /\ d.credit = k
  BY DEF Dsts

LEMMA NewDst == new_dst \in Dsts /\ Fits(new_dst) /\ new_dst.skb_qs = <<>>
<1>1. new_dst \in Dsts /\ new_dst.skb_qs = <<>> /\ new_dst.credit = 0
  <2>1. <<>> \in Seq(Seq(Data)) /\ 0 \in Int
    OBVIOUS
  <2> QED BY <2>1, DstFields, Zenon DEF new_dst
<1> QED BY <1>1 DEF Fits

LEMMA SkbFields == \A skb \in Data : skb.to \in Flows /\ skb.cost \in Nat /\ skb.cost > 0
<1> TAKE skb \in Data
<1>1. skb.to \in Flows /\ skb.cost \in Costs
  BY Zenon DEF Data
<1>2. Costs \subseteq Nat \ {0}
  BY QdiscAssumption, Zenon
<1>3. skb.cost \in Nat \ {0}
  BY <1>1, <1>2, Zenon
<1> QED BY <1>1, <1>3

\* with_skb fills the last timeslot, or begins another.
LEMMA WithSkb ==
  ASSUME NEW dst \in Dsts, Fits(dst), NEW skb \in Data
  PROVE  LET d == with_skb(dst, skb)
         IN  /\ d \in Dsts /\ Fits(d)
             /\ Len(d.skb_qs) = Len(dst.skb_qs) + IF skb.cost > dst.credit THEN 1 ELSE 0
<1> DEFINE qs == dst.skb_qs
           k == dst.credit
           d == with_skb(dst, skb)
<1>1. qs \in Seq(Seq(Data)) /\ k \in Int /\ Len(qs) \in Nat
  BY Lists DEF Dsts
<1>2. skb.cost \in Nat /\ skb.cost > 0 /\ TSLOT_LEN \in Nat
  BY SkbFields, QdiscAssumption
<1>3. /\ \A i \in 1 .. Len(qs) : Len(qs[i]) = 1 \/ length(qs[i]) <= TSLOT_LEN
      /\ k = IF qs = <<>> THEN 0 ELSE TSLOT_LEN - length(qs[Len(qs)])
  BY <1>1, Lists DEF Fits
<1>4. ASSUME skb.cost > k
      PROVE  d \in Dsts /\ Fits(d) /\ Len(d.skb_qs) = Len(qs) + 1
  <2> DEFINE one == <<skb>>
             more == Append(qs, one)
             left == TSLOT_LEN - skb.cost
  <2>1. one \in Seq(Data) /\ Len(one) = 1 /\ length(one) = skb.cost
    <3>1. <<>> \in Seq(Data)
      OBVIOUS
    <3>2. length(one) = skb.cost
      BY <3>1, Lengths, Zenon
    <3> QED BY <3>2
  <2> HIDE DEF one
  <2>2. /\ more \in Seq(Seq(Data)) /\ Len(more) = Len(qs) + 1 /\ more[Len(more)] = one
        /\ \A i \in 1 .. Len(qs) : more[i] = qs[i]
    BY <1>1, <2>1, Appended
  <2>3. left \in Int
    BY <1>2
  <2>4. d = [skb_qs |-> more, credit |-> left]
    BY <1>4 DEF with_skb, one
  <2> HIDE DEF more, left, d
  <2>5. d \in Dsts /\ d.skb_qs = more /\ d.credit = left
    BY <2>2, <2>3, <2>4, DstFields
  <2>6. more # <<>> /\ DOMAIN more = 1 .. Len(qs) + 1
    BY <1>1, <2>2, Lists, EmptyList
  <2>7. \A i \in 1 .. Len(qs) + 1 : Len(more[i]) = 1 \/ length(more[i]) <= TSLOT_LEN
    <3> TAKE i \in 1 .. Len(qs) + 1
    <3>1. CASE i = Len(qs) + 1
      BY <2>1, <2>2, <3>1
    <3>2. CASE i # Len(qs) + 1
      <4>1. i \in 1 .. Len(qs)
        BY <1>1, <3>2
      <4>2. more[i] = qs[i]
        BY <2>2, <4>1, Zenon
      <4>3. Len(qs[i]) = 1 \/ length(qs[i]) <= TSLOT_LEN
        BY <1>3, <4>1, Zenon
      <4> QED BY <4>2, <4>3, Zenon
    <3> QED BY <3>1, <3>2
  <2>8. left = TSLOT_LEN - length(more[Len(more)])
    BY <2>1, <2>2 DEF left
  <2> QED BY <2>2, <2>5, <2>6, <2>7, <2>8 DEF Fits
<1>5. ASSUME ~(skb.cost > k)
      PROVE  d \in Dsts /\ Fits(d) /\ Len(d.skb_qs) = Len(qs)
  <2> DEFINE m == Len(qs)
             last == Append(qs[m], skb)
             more == [qs EXCEPT ![m] = last]
             left == k - skb.cost
  <2>1. qs # <<>> /\ m \in 1 .. m
    BY <1>1, <1>2, <1>3, <1>5, EmptyList
  <2>2. qs[m] \in Seq(Data)
    BY <1>1, <2>1, Elements
  <2>3. length(qs[m]) \in Nat /\ last \in Seq(Data) /\ length(last) = length(qs[m]) + skb.cost
    BY <2>2, Lengths, Appended, Zenon
  <2>4. d = [skb_qs |-> more, credit |-> left]
    BY <1>5 DEF with_skb
  <2> HIDE DEF last
  <2>5. /\ more \in Seq(Seq(Data)) /\ Len(more) = m /\ more[m] = last
        /\ \A i \in 1 .. m : i # m => more[i] = qs[i]
    BY <1>1, <2>1, <2>3, Replaced
  <2>6. left \in Int
    BY <1>1, <1>2
  <2> HIDE DEF more, left, d, m
  <2>7. d \in Dsts /\ d.skb_qs = more /\ d.credit = left
    BY <2>4, <2>5, <2>6, DstFields
  <2>8. more # <<>> /\ DOMAIN more = 1 .. m
    BY <2>1, <2>5, Lists, EmptyList
  <2>9. length(last) <= TSLOT_LEN /\ left = TSLOT_LEN - length(last)
    BY <1>1, <1>2, <1>3, <1>5, <2>1, <2>3 DEF left, m
  <2>10. \A i \in 1 .. m : Len(more[i]) = 1 \/ length(more[i]) <= TSLOT_LEN
    BY <1>3, <2>5, <2>9 DEF m
  <2> QED BY <2>5, <2>7, <2>8, <2>9, <2>10 DEF Fits, m
<1> HIDE DEF d
<1>6. d \in Dsts /\ Fits(d) /\ Len(d.skb_qs) = Len(dst.skb_qs) + IF skb.cost > dst.credit THEN 1 ELSE 0
  <2>1. CASE skb.cost > k
    BY <1>4, <2>1
  <2>2. CASE ~(skb.cost > k)
    BY <1>1, <1>5, <2>2
  <2> QED BY <2>1, <2>2, Zenon
<1> QED BY <1>6, Zenon DEF d

\* without_first takes the credit of the last timeslot.
LEMMA WithoutFirst ==
  ASSUME NEW dst \in Dsts, Fits(dst), dst.skb_qs # <<>>
  PROVE  LET d == without_first(dst)
         IN  d \in Dsts /\ Fits(d) /\ Len(d.skb_qs) = Len(dst.skb_qs) - 1
<1> DEFINE qs == dst.skb_qs
           rest == Tail(qs)
           k == IF Len(qs) = 1 THEN 0 ELSE dst.credit
           d == without_first(dst)
<1>1. qs \in Seq(Seq(Data)) /\ dst.credit \in Int /\ Len(qs) \in Nat /\ Len(qs) # 0
  BY Lists, EmptyList DEF Dsts
<1>2. /\ \A i \in 1 .. Len(qs) : Len(qs[i]) = 1 \/ length(qs[i]) <= TSLOT_LEN
      /\ dst.credit = TSLOT_LEN - length(qs[Len(qs)])
  BY <1>1, Lists DEF Fits
<1>3. /\ rest \in Seq(Seq(Data)) /\ Len(rest) = Len(qs) - 1
      /\ \A i \in 1 .. Len(qs) - 1 : rest[i] = qs[i + 1]
  BY <1>1, HeadAndTail
<1>4. d = [skb_qs |-> rest, credit |-> k] /\ k \in Int
  BY <1>1 DEF without_first
<1> HIDE DEF rest, d, k
<1>5. d \in Dsts /\ d.skb_qs = rest /\ d.credit = k
  BY <1>3, <1>4, DstFields
<1>6. DOMAIN rest = 1 .. Len(qs) - 1
  BY <1>3, Lists
<1>7. \A i \in 1 .. Len(qs) - 1 : Len(rest[i]) = 1 \/ length(rest[i]) <= TSLOT_LEN
  <2> TAKE i \in 1 .. Len(qs) - 1
  <2>1. rest[i] = qs[i + 1]
    BY <1>3, Zenon
  <2>2. i + 1 \in 1 .. Len(qs)
    BY <1>1
  <2> QED BY <1>2, <2>1, <2>2
<1>8. k = IF rest = <<>> THEN 0 ELSE TSLOT_LEN - length(rest[Len(rest)])
  <2>1. CASE Len(qs) = 1
    BY <1>3, <2>1, EmptyList DEF k
  <2>2. CASE Len(qs) # 1
    <3>1. Len(rest) \in 1 .. Len(qs) - 1 /\ Len(rest) # 0 /\ Len(rest) + 1 = Len(qs)
      <4> DEFINE j == Len(rest)
                 n == Len(qs)
      <4>1. j = n - 1 /\ n \in Nat /\ n # 0 /\ n # 1
        BY <1>1, <1>3, <2>2, Zenon
      <4> HIDE DEF j, n
      <4>2. j \in 1 .. n - 1 /\ j # 0 /\ j + 1 = n
        BY <4>1
      <4> QED BY <4>2, Zenon DEF j, n
    <3>2. rest # <<>> /\ rest[Len(rest)] = qs[Len(qs)]
      BY <1>3, <3>1, EmptyList
    <3> QED BY <1>2, <2>2, <3>2 DEF k
  <2> QED BY <2>1, <2>2
<1>9. Fits(d)
  BY <1>5, <1>6, <1>7, <1>8 DEF Fits
<1> QED BY <1>3, <1>5, <1>9, Zenon DEF d

-----------------------------------------------------------------------------
(* The table of flows.                                                     *)

LEMMA DataAreSkbs == Data \subseteq Skbs /\ Seq(Data) \subseteq Seq(Skbs)
<1>1. Flows \subseteq Classes /\ Costs \subseteq Nat
  BY QdiscAssumption DEF Classes
<1>2. Data \subseteq Skbs
  BY <1>1, Zenon DEF Data, Skbs
<1> QED BY <1>2, WiderLists, Zenon

\* dst_lookup, in a table whose flows fit
LEMMA Lookup ==
  ASSUME QdiscTypeOK, TimeslotFits, NEW f
  PROVE  dst_lookup(f) \in Dsts /\ Fits(dst_lookup(f))
<1>1. CASE f \in DOMAIN dst_hash_tbl
  <2>1. dst_lookup(f) = dst_hash_tbl[f]
    BY <1>1, Zenon DEF dst_lookup
  <2>2. dst_hash_tbl[f] \in Dsts
    BY <1>1, Zenon DEF QdiscTypeOK
  <2>3. Fits(dst_hash_tbl[f])
    BY <1>1, Zenon DEF TimeslotFits, Fits
  <2> QED BY <2>1, <2>2, <2>3
<1>2. CASE f \notin DOMAIN dst_hash_tbl
  BY <1>2, NewDst, Zenon DEF dst_lookup
<1> QED BY <1>1, <1>2

\* A table as the steps leave it: its flows fit, and each has as many timeslots as before,
\* but for f, which has n.
Holds(f, n) ==
    /\ DOMAIN dst_hash_tbl' \subseteq Flows /\ dst_hash_tbl' \in [DOMAIN dst_hash_tbl' -> Dsts]
    /\ TimeslotFits'
    /\ \A g \in Flows : Len(dst_lookup(g)'.skb_qs) = IF g = f THEN n ELSE Len(dst_lookup(g).skb_qs)

LEMMA PutInTable ==
  ASSUME QdiscTypeOK, TimeslotFits, NEW f \in Flows, NEW dst \in Dsts, Fits(dst),
         dst_hash_tbl' = with_dst(f, dst)
  PROVE  Holds(f, Len(dst.skb_qs))
<1> DEFINE t == dst_hash_tbl
           u == with_dst(f, dst)
<1>1. DOMAIN u = DOMAIN t \cup {f} /\ u[f] = dst /\ (\A g \in DOMAIN t : g # f => u[g] = t[g])
      /\ u = [g \in DOMAIN u |-> u[g]]
  BY Zenon DEF with_dst
<1> HIDE DEF u
<1>2. DOMAIN t \subseteq Flows /\ t \in [DOMAIN t -> Dsts] /\ dst_hash_tbl' = u
  BY DEF QdiscTypeOK, u
<1>3. \A g \in DOMAIN u : u[g] \in Dsts /\ Fits(u[g])
  <2> TAKE g \in DOMAIN u
  <2>1. CASE g = f
    BY <1>1, <2>1, Zenon
  <2>2. CASE g # f
    <3>1. g \in DOMAIN t /\ u[g] = t[g]
      BY <1>1, <2>2, Zenon
    <3>2. dst_lookup(g) = t[g]
      BY <3>1, Zenon DEF dst_lookup
    <3> QED BY <3>1, <3>2, Lookup, Zenon
  <2> QED BY <2>1, <2>2
<1>4. u \in [DOMAIN u -> Dsts] /\ DOMAIN u \subseteq Flows
  BY <1>1, <1>2, <1>3, Zenon
<1>5. TimeslotFits'
  BY <1>2, <1>3, Zenon DEF TimeslotFits, Fits
<1>6. ASSUME NEW g \in Flows
      PROVE  Len(dst_lookup(g)'.skb_qs) = IF g = f THEN Len(dst.skb_qs) ELSE Len(dst_lookup(g).skb_qs)
  <2>1. CASE g = f
    BY <1>1, <1>2, <2>1, Zenon DEF dst_lookup
  <2>2. CASE g # f
    BY <1>1, <1>2, <2>2, Zenon DEF dst_lookup
  <2> QED BY <2>1, <2>2
<1> QED BY <1>2, <1>4, <1>5, <1>6, Zenon DEF Holds

LEMMA SameTable ==
  ASSUME QdiscTypeOK, TimeslotFits, UNCHANGED dst_hash_tbl
  PROVE  \A f : Holds(f, Len(dst_lookup(f).skb_qs))
<1>1. DOMAIN dst_hash_tbl' \subseteq Flows /\ dst_hash_tbl' \in [DOMAIN dst_hash_tbl' -> Dsts]
  BY Zenon DEF QdiscTypeOK
<1>2. TimeslotFits'
  BY Zenon DEF TimeslotFits
<1>3. \A g : dst_lookup(g)' = dst_lookup(g)
  BY Zenon DEF dst_lookup
<1> QED BY <1>1, <1>2, <1>3, Zenon DEF Holds

LEMMA TakenFromTable ==
  ASSUME QdiscTypeOK, TimeslotFits, NEW f \in Flows, dst_lookup(f).skb_qs # <<>>,
         dst_hash_tbl' = [dst_hash_tbl EXCEPT ![f] = without_first(@)]
  PROVE  /\ Holds(f, Len(dst_lookup(f).skb_qs) - 1)
         /\ f \in DOMAIN dst_hash_tbl /\ dst_hash_tbl[f] = dst_lookup(f)
<1> DEFINE d == without_first(dst_hash_tbl[f])
<1>1. f \in DOMAIN dst_hash_tbl /\ dst_hash_tbl[f] = dst_lookup(f)
  BY NewDst, Zenon DEF dst_lookup
<1>2. d \in Dsts /\ Fits(d) /\ Len(d.skb_qs) = Len(dst_lookup(f).skb_qs) - 1
  BY <1>1, Lookup, WithoutFirst, Zenon
<1> HIDE DEF d
<1>3. DOMAIN dst_hash_tbl = DOMAIN dst_hash_tbl \cup {f}
  BY <1>1, Zenon
<1>4. dst_hash_tbl' = [g \in DOMAIN dst_hash_tbl |-> IF g = f THEN d ELSE dst_hash_tbl[g]]
  BY <1>1, Zenon DEF d, QdiscTypeOK
<1>5. dst_hash_tbl' = with_dst(f, d)
  BY <1>3, <1>4, Zenon DEF with_dst
<1> QED BY <1>1, <1>2, <1>5, PutInTable, Zenon

LEMMA CollectedTable ==
  ASSUME QdiscTypeOK, TimeslotFits, tsq_garbage_collect
  PROVE  \A f : Holds(f, Len(dst_lookup(f).skb_qs))
<1> DEFINE t == dst_hash_tbl
           D == {g \in DOMAIN t : ~collectable(g)}
<1>1. dst_hash_tbl' = [f \in D |-> t[f]] /\ DOMAIN dst_hash_tbl' = D /\ D \subseteq DOMAIN t
  BY DEF tsq_garbage_collect
<1>2. DOMAIN t \subseteq Flows /\ \A g \in DOMAIN t : t[g] \in Dsts
  BY Zenon DEF QdiscTypeOK
<1>3. \A g \in D : dst_hash_tbl'[g] = t[g]
  BY <1>1, Zenon
<1>4. dst_hash_tbl' \in [D -> Dsts]
  BY <1>1, <1>2, Zenon
<1>5. \A g \in DOMAIN t : g \notin D => t[g].skb_qs = <<>>
  BY Zenon DEF collectable
<1> HIDE DEF D
<1>6. TimeslotFits'
  BY <1>1, <1>3, Zenon DEF TimeslotFits
<1>7. \A g : dst_lookup(g)'.skb_qs = dst_lookup(g).skb_qs
  <2> TAKE g
  <2>1. CASE g \in D
    BY <1>1, <1>3, <2>1, Zenon DEF dst_lookup
  <2>2. CASE g \notin D
    <3>1. dst_lookup(g)' = new_dst
      BY <1>1, <2>2, Zenon DEF dst_lookup, new_dst
    <3>2. dst_lookup(g).skb_qs = <<>>
      BY <1>5, <2>2, NewDst, Zenon DEF dst_lookup
    <3> QED BY <3>1, <3>2, NewDst, Zenon
  <2> QED BY <2>1, <2>2
<1>8. DOMAIN dst_hash_tbl' \subseteq Flows /\ dst_hash_tbl' \in [DOMAIN dst_hash_tbl' -> Dsts]
  BY <1>1, <1>2, <1>4, Zenon
<1>9. \A g : Len(dst_lookup(g)'.skb_qs) = Len(dst_lookup(g).skb_qs)
  BY <1>7
<1> SUFFICES ASSUME NEW f PROVE Holds(f, Len(dst_lookup(f).skb_qs))
  BY Zenon
<1> QED BY <1>6, <1>8, <1>9 DEF Holds

-----------------------------------------------------------------------------
(* Types, and the timeslots of every flow.                                 *)

LEMMA PacketType ==
  ASSUME QdiscTypeOK
  PROVE  /\ \A f \in Flows, cost \in Costs : packet(f, cost) \in Data
         /\ \A x \in Classes : packet(x, 0) \in Skbs
<1>1. \A x \in Classes : accepted[x] + 1 \in Nat
  BY DEF QdiscTypeOK
<1>2. Flows \subseteq Classes
  BY DEF Classes
<1>3. \A f \in Flows, cost \in Costs : packet(f, cost) \in Data
  BY <1>1, <1>2 DEF packet, Data
<1>4. \A x \in Classes : packet(x, 0) \in Skbs
  BY <1>1 DEF packet, Skbs
<1> QED BY <1>3, <1>4

LEMMA EnqueueShape ==
  ASSUME QdiscTypeOK, TimeslotFits,
         \/ \E f \in Flows, cost \in Costs : tsq_enqueue(f, cost)
         \/ \E x \in {HI, REG} : tsq_enqueue_prio(x)
  PROVE  QdiscTypeOK' /\ TimeslotFits'
<1>1. UNCHANGED <<prequeue, dst_hash_tbl, running, waiting, cpu, leaked, resets>>
  BY Zenon DEF tsq_enqueue, tsq_enqueue_prio, taken
<1>2. TimeslotFits'
  BY <1>1, Zenon DEF TimeslotFits
<1>3. accepted' \in [Classes -> Nat]
  <2>1. PICK x \in Classes : accepted' = [accepted EXCEPT ![x] = @ + 1]
    BY Zenon DEF tsq_enqueue, tsq_enqueue_prio, taken, Classes
  <2> QED BY <2>1 DEF QdiscTypeOK
<1>4. ASSUME NEW f \in Flows, NEW cost \in Costs, tsq_enqueue(f, cost)
      PROVE  QdiscTypeOK'
  <2> DEFINE skb == packet(f, cost)
  <2>1. skb \in Data
    BY PacketType
  <2>2. /\ enqueue_skb_q' = Append(enqueue_skb_q, skb) /\ UNCHANGED <<hi_prio, reg_prio, scheduled>>
        /\ enqueue_tasklet' = [enqueue_tasklet EXCEPT !.scheduled = TRUE]
    BY <1>4, Zenon DEF tsq_enqueue
  <2>3. enqueue_tasklet' \in Tasklets
    BY <2>2, TaskletFields, Zenon DEF QdiscTypeOK
  <2> HIDE DEF skb
  <2>4. enqueue_skb_q' \in Seq(Data)
    BY <2>1, <2>2, Appended DEF QdiscTypeOK
  <2> QED BY <1>1, <1>3, <2>2, <2>3, <2>4, Zenon DEF QdiscTypeOK
<1>5. ASSUME NEW x \in {HI, REG}, tsq_enqueue_prio(x)
      PROVE  QdiscTypeOK'
  <2> DEFINE skb == packet(x, 0)
  <2>1. skb \in Skbs
    <3>1. x \in Classes
      BY DEF Classes
    <3> QED BY <3>1, PacketType
  <2>2. /\ hi_prio' \in {hi_prio, Append(hi_prio, skb)} /\ reg_prio' \in {reg_prio, Append(reg_prio, skb)}
        /\ scheduled' = TRUE /\ UNCHANGED <<enqueue_skb_q, enqueue_tasklet>>
    BY <1>5, Zenon DEF tsq_enqueue_prio
  <2> HIDE DEF skb
  <2>3. hi_prio' \in Seq(Skbs) /\ reg_prio' \in Seq(Skbs)
    <3>1. hi_prio \in Seq(Skbs) /\ reg_prio \in Seq(Skbs)
      BY DEF QdiscTypeOK
    <3>2. Append(hi_prio, skb) \in Seq(Skbs) /\ Append(reg_prio, skb) \in Seq(Skbs)
      BY <2>1, <3>1, Appended
    <3> QED BY <2>2, <3>1, <3>2, Zenon
  <2> QED BY <1>1, <1>3, <2>2, <2>3, Zenon DEF QdiscTypeOK
<1> QED BY <1>2, <1>4, <1>5, Zenon

\* The tasklet's list, and its first packet
LEMMA TaskletAtSkb ==
  ASSUME QdiscTypeOK, tasklet_at_skb
  PROVE  /\ Head(enqueue_tasklet.next) \in Data
         /\ \A pc \in TaskletPcs : tasklet_goes_on(pc) =>
              /\ enqueue_tasklet' \in Tasklets /\ enqueue_tasklet'.pc = pc
              /\ enqueue_tasklet'.scheduled = enqueue_tasklet.scheduled
<1> DEFINE next == enqueue_tasklet.next
<1>1. next \in Seq(Data) /\ next # <<>> /\ enqueue_tasklet \in Tasklets
  BY TaskletFields, Zenon DEF QdiscTypeOK, tasklet_at_skb
<1>2. Head(next) \in Data /\ Tail(next) \in Seq(Data)
  BY <1>1, HeadAndTail
<1>3. ASSUME NEW pc \in TaskletPcs, tasklet_goes_on(pc)
      PROVE  /\ enqueue_tasklet' \in Tasklets /\ enqueue_tasklet'.pc = pc
             /\ enqueue_tasklet'.scheduled = enqueue_tasklet.scheduled
  <2> DEFINE rest == Tail(next)
  <2>1. enqueue_tasklet' = [enqueue_tasklet EXCEPT !.next = rest, !.pc = pc]
    BY <1>3, Zenon DEF tasklet_goes_on
  <2> HIDE DEF rest
  <2>2. rest \in Seq(Data)
    BY <1>2 DEF rest
  <2>3. LET u == [enqueue_tasklet EXCEPT !.next = rest, !.pc = pc]
        IN  u \in Tasklets /\ u.scheduled = enqueue_tasklet.scheduled /\ u.next = rest /\ u.pc = pc
    BY <1>1, <2>2, Zenon DEF Tasklets
  <2> QED BY <2>1, <2>3, Zenon
<1> QED BY <1>2, <1>3, Zenon

LEMMA TaskletShape ==
  ASSUME QdiscTypeOK, TimeslotFits,
         \/ enqueue_tasklet_func \/ enqueue_single_skb \/ enqueue_to_prequeue
         \/ add_timeslot \/ tasklet_netif_schedule
  PROVE  QdiscTypeOK' /\ TimeslotFits'
<1>1. ASSUME enqueue_tasklet_func PROVE QdiscTypeOK' /\ TimeslotFits'
  <2>1. enqueue_tasklet' \in Tasklets
    <3>1. enqueue_tasklet' = [scheduled |-> FALSE, next |-> enqueue_skb_q, pc |-> IDLE]
      BY <1>1, Zenon DEF enqueue_tasklet_func
    <3>2. FALSE \in BOOLEAN /\ enqueue_skb_q \in Seq(Data) /\ IDLE \in TaskletPcs
      BY DEF QdiscTypeOK, TaskletPcs
    <3> QED BY <3>1, <3>2, Zenon DEF Tasklets
  <2>2. <<>> \in Seq(Data)
    OBVIOUS
  <2> QED BY <1>1, <2>1, <2>2, Zenon DEF enqueue_tasklet_func, QdiscTypeOK, TimeslotFits, history
<1>2. ASSUME enqueue_single_skb PROVE QdiscTypeOK' /\ TimeslotFits'
  <2> DEFINE skb == Head(enqueue_tasklet.next)
             dst == dst_lookup(skb.to)
             pc == IF skb.cost > dst.credit THEN ADD(skb.to) ELSE IDLE
  <2>1. /\ tasklet_at_skb /\ dst_hash_tbl' = with_dst(skb.to, with_skb(dst, skb))
        /\ tasklet_goes_on(pc) /\ UNCHANGED <<prequeue, leaked, unordered>>
    BY <1>2, Zenon DEF enqueue_single_skb
  <2>2. skb \in Data
    BY <2>1, TaskletAtSkb
  <2> HIDE DEF skb
  <2>3. skb.to \in Flows
    BY <2>2, SkbFields
  <2>4. pc \in TaskletPcs
    BY <2>3, Zenon DEF TaskletPcs
  <2>5. with_skb(dst, skb) \in Dsts /\ Fits(with_skb(dst, skb))
    BY <2>2, Lookup, WithSkb, Zenon
  <2>6. Holds(skb.to, Len(with_skb(dst, skb).skb_qs))
    BY <2>1, <2>3, <2>5, PutInTable
  <2>7. enqueue_tasklet' \in Tasklets
    BY <2>1, <2>4, TaskletAtSkb, Zenon
  <2> QED BY <2>1, <2>6, <2>7, Zenon DEF Holds, QdiscTypeOK, tasklet_at_skb
<1>3. ASSUME enqueue_to_prequeue PROVE QdiscTypeOK' /\ TimeslotFits'
  <2> DEFINE skb == Head(enqueue_tasklet.next)
             dst == dst_lookup(skb.to)
  <2>1. /\ tasklet_at_skb /\ dst_hash_tbl' \in {dst_hash_tbl, with_dst(skb.to, dst)}
        /\ tasklet_goes_on(WAKE) /\ prequeue' = Append(prequeue, skb) /\ leaked' = NO_MEMORY
    BY <1>3, Zenon DEF enqueue_to_prequeue
  <2>2. skb \in Data /\ skb \in Skbs
    BY <2>1, TaskletAtSkb, DataAreSkbs
  <2> HIDE DEF skb
  <2>3. skb.to \in Flows /\ WAKE \in TaskletPcs
    BY <2>2, SkbFields DEF TaskletPcs
  <2>4. dst \in Dsts /\ Fits(dst)
    BY Lookup, Zenon
  <2>5. \E f, n : Holds(f, n)
    <3>1. CASE UNCHANGED dst_hash_tbl
      BY <3>1, SameTable, Zenon
    <3>2. CASE dst_hash_tbl' = with_dst(skb.to, dst)
      BY <2>3, <2>4, <3>2, PutInTable
    <3> QED BY <2>1, <3>1, <3>2, Zenon
  <2>6. prequeue' \in Seq(Skbs)
    BY <2>1, <2>2, Appended DEF QdiscTypeOK
  <2>7. enqueue_tasklet' \in Tasklets
    BY <2>1, <2>3, TaskletAtSkb, Zenon
  <2> QED BY <2>1, <2>5, <2>6, <2>7, Zenon DEF Holds, QdiscTypeOK, tasklet_at_skb
<1>4. ASSUME add_timeslot PROVE QdiscTypeOK' /\ TimeslotFits'
  <2>1. IDLE \in TaskletPcs
    BY DEF TaskletPcs
  <2>2. enqueue_tasklet' \in Tasklets
    BY <1>4, <2>1, TaskletFields, Zenon DEF add_timeslot, QdiscTypeOK
  <2>3. waiting' \in [Flows -> Nat]
    <3> DEFINE f == enqueue_tasklet.pc.flow
    <3>1. waiting' = [waiting EXCEPT ![f] = waiting[f] + 1] /\ waiting \in [Flows -> Nat]
      BY <1>4, Zenon DEF add_timeslot, QdiscTypeOK
    <3> HIDE DEF f
    <3>2. CASE f \in Flows
      <4>1. waiting[f] + 1 \in Nat
        BY <3>1, <3>2
      <4> QED BY <3>1, <4>1, Zenon
    <3>3. CASE f \notin Flows
      BY <3>1, <3>3, Zenon
    <3> QED BY <3>2, <3>3
  <2> QED BY <1>4, <2>2, <2>3, Zenon DEF add_timeslot, QdiscTypeOK, TimeslotFits, queues, history
<1>5. ASSUME tasklet_netif_schedule PROVE QdiscTypeOK' /\ TimeslotFits'
  <2>1. IDLE \in TaskletPcs
    BY DEF TaskletPcs
  <2>2. enqueue_tasklet' \in Tasklets
    BY <1>5, <2>1, TaskletFields, Zenon DEF tasklet_netif_schedule, QdiscTypeOK
  <2> QED BY <1>5, <2>2, Zenon DEF tasklet_netif_schedule, QdiscTypeOK, TimeslotFits, queues, history
<1> QED BY <1>1, <1>2, <1>3, <1>4, <1>5, Zenon

LEMMA CpuShape ==
  ASSUME QdiscTypeOK, TimeslotFits, NEW c \in Cpus,
         \/ \E f \in Flows : handle_alloc(c, f)
         \/ tsq_admit_now(c) \/ tsq_admit_now_fails(c)
         \/ put_in_prequeue(c) \/ netif_schedule(c)
  PROVE  QdiscTypeOK' /\ TimeslotFits'
<1> USE DEF QdiscTypeOK
<1>1. ASSUME NEW f \in Flows, handle_alloc(c, f) PROVE QdiscTypeOK' /\ TimeslotFits'
  <2>1. waiting' = [waiting EXCEPT ![f] = waiting[f] - 1] /\ waiting[f] > 0
        /\ cpu' = [cpu EXCEPT ![c] = ADMIT(f)] /\ UNCHANGED <<queues, enqueue_tasklet, scheduled, running, leaked, history>>
    BY <1>1, Zenon DEF handle_alloc
  <2>2. waiting[f] - 1 \in Nat
    BY <2>1
  <2>3. waiting' \in [Flows -> Nat]
    BY <2>1, <2>2, Zenon
  <2>4. ADMIT(f) \in CpuPcs
    BY Zenon DEF CpuPcs
  <2>5. cpu' \in [Cpus -> CpuPcs]
    BY <2>1, <2>4, Zenon
  <2> QED BY <2>1, <2>3, <2>5, Zenon DEF TimeslotFits, queues, history
<1>2. ASSUME tsq_admit_now(c) PROVE QdiscTypeOK' /\ TimeslotFits'
  <2> DEFINE f == cpu[c].flow
             first == Head(dst_hash_tbl[f].skb_qs)
  <2>1. /\ at_admit(c) /\ dst_lookup(f).skb_qs # <<>> /\ cpu' = [cpu EXCEPT ![c] = APPEND(first)]
        /\ dst_hash_tbl' = [dst_hash_tbl EXCEPT ![f] = without_first(@)] /\ UNCHANGED leaked
    BY <1>2, Zenon DEF tsq_admit_now
  <2>2. f \in Flows
    BY <2>1, CpuPlaces, Zenon DEF at_admit
  <2> HIDE DEF f
  <2>3. Holds(f, Len(dst_lookup(f).skb_qs) - 1) /\ dst_hash_tbl[f] = dst_lookup(f)
    BY <2>1, <2>2, TakenFromTable, Zenon
  <2>4. first \in Seq(Data)
    <3>1. dst_hash_tbl[f].skb_qs \in Seq(Seq(Data)) /\ dst_hash_tbl[f].skb_qs # <<>>
      BY <2>1, <2>3, Lookup, Zenon DEF Dsts
    <3> QED BY <3>1, HeadAndTail
  <2> HIDE DEF first
  <2>5. APPEND(first) \in CpuPcs
    BY <2>4, Zenon DEF CpuPcs
  <2>6. cpu' \in [Cpus -> CpuPcs]
    BY <2>1, <2>5, Zenon
  <2> QED BY <2>1, <2>3, <2>6, Zenon DEF Holds, at_admit
<1>3. ASSUME tsq_admit_now_fails(c) PROVE QdiscTypeOK' /\ TimeslotFits'
  <2>1. cpu' = [cpu EXCEPT ![c] = IDLE] /\ at_admit(c) /\ leaked' = NO_TIMESLOT /\ UNCHANGED dst_hash_tbl
    BY <1>3, Zenon DEF tsq_admit_now_fails
  <2>2. cpu' \in [Cpus -> CpuPcs]
    BY <2>1, Zenon DEF CpuPcs
  <2> QED BY <2>1, <2>2, Zenon DEF TimeslotFits, at_admit
<1>4. ASSUME put_in_prequeue(c) PROVE QdiscTypeOK' /\ TimeslotFits'
  <2> DEFINE skbs == cpu[c].skbs
  <2>1. /\ cpu[c].at = "append" /\ cpu' = [cpu EXCEPT ![c] = WAKE] /\ prequeue' = prequeue \o skbs
        /\ UNCHANGED <<enqueue_skb_q, hi_prio, reg_prio, dst_hash_tbl, enqueue_tasklet, scheduled, running,
                       waiting, leaked, history>>
    BY <1>4, Zenon DEF put_in_prequeue, skb_q_append
  <2>2. cpu' \in [Cpus -> CpuPcs]
    BY <2>1, Zenon DEF CpuPcs
  <2>3. skbs \in Seq(Skbs)
    BY <2>1, CpuPlaces, DataAreSkbs, Zenon
  <2> HIDE DEF skbs
  <2>4. prequeue' \in Seq(Skbs)
    BY <2>1, <2>3, Joined
  <2> QED BY <2>1, <2>2, <2>4, Zenon DEF TimeslotFits, history
<1>5. ASSUME netif_schedule(c) PROVE QdiscTypeOK' /\ TimeslotFits'
  <2>1. /\ cpu' = [cpu EXCEPT ![c] = IDLE] /\ scheduled' = TRUE
        /\ UNCHANGED <<queues, enqueue_tasklet, running, waiting, leaked, history>>
    BY <1>5, Zenon DEF netif_schedule
  <2>2. cpu' \in [Cpus -> CpuPcs]
    BY <2>1, Zenon DEF CpuPcs
  <2> QED BY <2>1, <2>2, Zenon DEF TimeslotFits, queues, history
<1> QED BY <1>1, <1>2, <1>3, <1>4, <1>5, Zenon

LEMMA DequeueShape ==
  ASSUME QdiscTypeOK, TimeslotFits,
         (\E softirq \in BOOLEAN : qdisc_run(softirq)) \/ tsq_dequeue \/ tsq_tc_reset \/ tsq_garbage_collect
  PROVE  QdiscTypeOK' /\ TimeslotFits'
<1> USE DEF QdiscTypeOK
<1>1. ASSUME NEW softirq \in BOOLEAN, qdisc_run(softirq) PROVE QdiscTypeOK' /\ TimeslotFits'
  BY <1>1, Zenon DEF qdisc_run, TimeslotFits, queues, history
<1>2. ASSUME tsq_dequeue PROVE QdiscTypeOK' /\ TimeslotFits'
  <2>1. UNCHANGED <<enqueue_skb_q, dst_hash_tbl, enqueue_tasklet, scheduled, waiting, cpu, leaked, accepted, resets>>
    BY <1>2, Zenon DEF tsq_dequeue
  <2>2. running' \in BOOLEAN /\ hi_prio' \in Seq(Skbs) /\ reg_prio' \in Seq(Skbs) /\ prequeue' \in Seq(Skbs)
    <3>1. CASE hi_prio # <<>>
      <4>1. hi_prio' = Tail(hi_prio) /\ UNCHANGED <<running, reg_prio, prequeue>>
        BY <1>2, <3>1, Zenon DEF tsq_dequeue, given
      <4>2. Tail(hi_prio) \in Seq(Skbs)
        BY <3>1, HeadAndTail
      <4> QED BY <4>1, <4>2, Zenon
    <3>2. CASE hi_prio = <<>> /\ ready # <<>>
      <4>1. /\ reg_prio' = Tail(ready) /\ prequeue' = (IF reg_prio = <<>> THEN <<>> ELSE prequeue)
            /\ UNCHANGED <<running, hi_prio>>
        BY <1>2, <3>2, Zenon DEF tsq_dequeue, given
      <4>2. ready \in Seq(Skbs) /\ <<>> \in Seq(Skbs)
        BY DEF ready
      <4>3. Tail(ready) \in Seq(Skbs)
        BY <3>2, <4>2, HeadAndTail
      <4> QED BY <4>1, <4>2, <4>3, Zenon
    <3>3. CASE hi_prio = <<>> /\ ready = <<>>
      BY <1>2, <3>3, Zenon DEF tsq_dequeue
    <3> QED BY <3>1, <3>2, <3>3
  <2> QED BY <2>1, <2>2, Zenon DEF TimeslotFits
<1>3. ASSUME tsq_tc_reset PROVE QdiscTypeOK' /\ TimeslotFits'
  <2>1. resets' = resets + 1 /\ dst_hash_tbl' = [f \in {} |-> <<>>] /\ enqueue_skb_q' = <<>> /\ hi_prio' = <<>>
        /\ reg_prio' = <<>> /\ prequeue' = <<>>
        /\ UNCHANGED <<enqueue_tasklet, scheduled, running, waiting, cpu, leaked, accepted>>
    BY <1>3, Zenon DEF tsq_tc_reset
  <2>2. resets' \in Nat
    BY <2>1
  <2>3. DOMAIN dst_hash_tbl' = {}
    BY <2>1
  <2>4. dst_hash_tbl' \in [{} -> Dsts]
    BY <2>1
  <2>5. <<>> \in Seq(Data) /\ <<>> \in Seq(Skbs)
    OBVIOUS
  <2> QED BY <2>1, <2>2, <2>3, <2>4, <2>5, Zenon DEF TimeslotFits
<1>4. ASSUME tsq_garbage_collect PROVE QdiscTypeOK' /\ TimeslotFits'
  BY <1>4, CollectedTable, Zenon DEF Holds, tsq_garbage_collect, history
<1> QED BY <1>1, <1>2, <1>3, <1>4, Zenon

-----------------------------------------------------------------------------
(* No wake-up is lost.                                                     *)

LEMMA NothingJoined ==
  ASSUME NEW a \in Seq(Skbs), NEW b \in Seq(Skbs), NEW d \in Seq(Skbs)
  PROVE  a \o b \o d = <<>> <=> a = <<>> /\ b = <<>> /\ d = <<>>
<1>1. a \o b \in Seq(Skbs) /\ Len(a \o b) = Len(a) + Len(b)
  BY Joined
<1>2. a \o b \o d \in Seq(Skbs) /\ Len(a \o b \o d) = Len(a) + Len(b) + Len(d)
  BY <1>1, Joined
<1>3. \A q \in Seq(Skbs) : Len(q) \in Nat /\ (q = <<>> <=> Len(q) = 0)
  BY EmptyList, Lists
<1>4. Len(a) + Len(b) + Len(d) = 0 <=> Len(a) = 0 /\ Len(b) = 0 /\ Len(d) = 0
  BY <1>3
<1> QED BY <1>2, <1>3, <1>4, Zenon

Idle == hi_prio = <<>> /\ reg_prio = <<>> /\ prequeue = <<>>
Waking == running \/ scheduled \/ enqueue_tasklet.pc = WAKE \/ \E c \in Cpus : cpu[c] = WAKE
Listed == enqueue_skb_q # <<>> => enqueue_tasklet.scheduled

LEMMA AwakeIs ==
  ASSUME QdiscTypeOK
  PROVE  Awake <=> (Idle \/ Waking) /\ Listed
<1>1. hi_prio \o reg_prio \o prequeue = <<>> <=> Idle
  BY NothingJoined, Zenon DEF QdiscTypeOK, Idle
<1> QED BY <1>1, Zenon DEF Awake, Waking, Listed

LEMMA AwakeStep ==
  ASSUME QdiscTypeOK, QdiscTypeOK', Awake, Next
  PROVE  Awake'
<1>1. (Idle \/ Waking) /\ Listed
  BY AwakeIs
<1>2. enqueue_tasklet \in Tasklets /\ cpu \in [Cpus -> CpuPcs]
  BY DEF QdiscTypeOK
<1> SUFFICES (Idle' \/ Waking') /\ Listed'
  <2>1. Awake' <=> (Idle' \/ Waking') /\ Listed'
    <3>1. (hi_prio \o reg_prio \o prequeue)' = <<>> <=> Idle'
      <4>1. hi_prio' \in Seq(Skbs) /\ reg_prio' \in Seq(Skbs) /\ prequeue' \in Seq(Skbs)
        BY DEF QdiscTypeOK
      <4> QED BY <4>1, NothingJoined, Zenon DEF Idle
    <3> QED BY <3>1, Zenon DEF Awake, Waking, Listed
  <2> QED BY <2>1
<1>3. ASSUME NEW f \in Flows, NEW cost \in Costs, tsq_enqueue(f, cost)
      PROVE  (Idle' \/ Waking') /\ Listed'
  <2>1. enqueue_tasklet'.scheduled = TRUE /\ enqueue_tasklet'.pc = enqueue_tasklet.pc
    BY <1>2, <1>3, TaskletFields, Zenon DEF tsq_enqueue
  <2> QED BY <1>1, <1>3, <2>1, Zenon DEF tsq_enqueue, taken, Idle, Waking, Listed
<1>4. ASSUME NEW x \in {HI, REG}, tsq_enqueue_prio(x)
      PROVE  (Idle' \/ Waking') /\ Listed'
  BY <1>1, <1>4, Zenon DEF tsq_enqueue_prio, Waking, Listed
<1>5. ASSUME enqueue_tasklet_func PROVE (Idle' \/ Waking') /\ Listed'
  <2>1. enqueue_tasklet.pc # WAKE
    BY <1>5, Places, Zenon DEF enqueue_tasklet_func
  <2> QED BY <1>1, <1>5, <2>1, Zenon DEF enqueue_tasklet_func, Idle, Waking, Listed
<1>6. ASSUME enqueue_single_skb PROVE (Idle' \/ Waking') /\ Listed'
  <2> DEFINE skb == Head(enqueue_tasklet.next)
             pc == IF skb.cost > dst_lookup(skb.to).credit THEN ADD(skb.to) ELSE IDLE
  <2>1. tasklet_at_skb /\ tasklet_goes_on(pc) /\ UNCHANGED prequeue
    BY <1>6, Zenon DEF enqueue_single_skb
  <2>2. enqueue_tasklet.pc # WAKE
    BY <2>1, Places, Zenon DEF tasklet_at_skb
  <2>3. skb \in Data
    BY <2>1, TaskletAtSkb
  <2> HIDE DEF skb
  <2>4. pc \in TaskletPcs
    BY <2>3, SkbFields, Zenon DEF TaskletPcs
  <2> HIDE DEF pc
  <2>5. enqueue_tasklet'.scheduled = enqueue_tasklet.scheduled
    BY <2>1, <2>4, TaskletAtSkb, Zenon
  <2> QED BY <1>1, <2>1, <2>2, <2>5, Zenon DEF tasklet_at_skb, Idle, Waking, Listed
<1>7. ASSUME enqueue_to_prequeue PROVE (Idle' \/ Waking') /\ Listed'
  <2>1. tasklet_at_skb /\ tasklet_goes_on(WAKE)
    BY <1>7, Zenon DEF enqueue_to_prequeue
  <2>2. WAKE \in TaskletPcs
    BY DEF TaskletPcs
  <2>3. enqueue_tasklet'.scheduled = enqueue_tasklet.scheduled /\ enqueue_tasklet'.pc = WAKE
    BY <2>1, <2>2, TaskletAtSkb, Zenon
  <2> QED BY <1>1, <2>1, <2>3, Zenon DEF tasklet_at_skb, Waking, Listed
<1>8. ASSUME add_timeslot PROVE (Idle' \/ Waking') /\ Listed'
  <2>1. IDLE \in TaskletPcs /\ enqueue_tasklet.pc # WAKE
    BY <1>8, Places, Zenon DEF add_timeslot, TaskletPcs
  <2>2. enqueue_tasklet'.scheduled = enqueue_tasklet.scheduled
    <3>1. enqueue_tasklet' = [enqueue_tasklet EXCEPT !.pc = IDLE]
      BY <1>8, Zenon DEF add_timeslot
    <3> QED BY <1>2, <3>1, Zenon DEF Tasklets
  <2> QED BY <1>1, <1>8, <2>1, <2>2, Zenon DEF add_timeslot, queues, Idle, Waking, Listed
<1>9. ASSUME tasklet_netif_schedule PROVE (Idle' \/ Waking') /\ Listed'
  <2>1. IDLE \in TaskletPcs
    BY DEF TaskletPcs
  <2>2. enqueue_tasklet'.scheduled = enqueue_tasklet.scheduled
    <3>1. enqueue_tasklet' = [enqueue_tasklet EXCEPT !.pc = IDLE]
      BY <1>9, Zenon DEF tasklet_netif_schedule
    <3> QED BY <1>2, <3>1, Zenon DEF Tasklets
  <2> QED BY <1>1, <1>9, <2>2, Zenon DEF tasklet_netif_schedule, queues, Waking, Listed
<1>10. ASSUME NEW c \in Cpus,
              (\E f \in Flows : handle_alloc(c, f)) \/ tsq_admit_now(c) \/ tsq_admit_now_fails(c)
       PROVE  (Idle' \/ Waking') /\ Listed'
  <2>1. /\ cpu[c] # WAKE /\ (\E pc : cpu' = [cpu EXCEPT ![c] = pc])
        /\ UNCHANGED <<enqueue_skb_q, hi_prio, reg_prio, prequeue, enqueue_tasklet, scheduled, running>>
    BY <1>10, Places, Zenon DEF handle_alloc, tsq_admit_now, tsq_admit_now_fails, at_admit, queues
  <2>2. \A d \in Cpus : cpu[d] = WAKE => cpu'[d] = WAKE
    BY <1>2, <2>1, Zenon
  <2> QED BY <1>1, <2>1, <2>2, Zenon DEF Idle, Waking, Listed
<1>11. ASSUME NEW c \in Cpus, put_in_prequeue(c) PROVE (Idle' \/ Waking') /\ Listed'
  <2>1. cpu'[c] = WAKE
    BY <1>2, <1>11, Zenon DEF put_in_prequeue
  <2> QED BY <1>1, <1>11, <2>1, Zenon DEF put_in_prequeue, Waking, Listed
<1>12. ASSUME NEW c \in Cpus, netif_schedule(c) PROVE (Idle' \/ Waking') /\ Listed'
  BY <1>1, <1>12, Zenon DEF netif_schedule, queues, Waking, Listed
<1>13. ASSUME NEW softirq \in BOOLEAN, qdisc_run(softirq) PROVE (Idle' \/ Waking') /\ Listed'
  BY <1>1, <1>13, Zenon DEF qdisc_run, queues, Waking, Listed
<1>14. ASSUME tsq_dequeue PROVE (Idle' \/ Waking') /\ Listed'
  <2>1. Listed'
    BY <1>1, <1>14, Zenon DEF tsq_dequeue, Listed
  <2>2. CASE hi_prio # <<>> \/ ready # <<>>
    <3>1. running'
      BY <1>14, <2>2, Zenon DEF tsq_dequeue, given
    <3> QED BY <2>1, <3>1, Zenon DEF Waking
  <2>3. CASE hi_prio = <<>> /\ ready = <<>>
    <3>1. reg_prio = <<>> /\ prequeue = <<>>
      BY <2>3, Zenon DEF ready
    <3>2. UNCHANGED <<hi_prio, reg_prio, prequeue>>
      BY <1>14, <2>3, Zenon DEF tsq_dequeue
    <3> QED BY <2>1, <2>3, <3>1, <3>2, Zenon DEF Idle
  <2> QED BY <2>2, <2>3
<1>15. ASSUME tsq_tc_reset PROVE (Idle' \/ Waking') /\ Listed'
  BY <1>15, Zenon DEF tsq_tc_reset, Idle, Listed
<1>16. ASSUME tsq_garbage_collect PROVE (Idle' \/ Waking') /\ Listed'
  BY <1>1, <1>16, Zenon DEF tsq_garbage_collect, Idle, Waking, Listed
<1> QED BY <1>3, <1>4, <1>5, <1>6, <1>7, <1>8, <1>9, <1>10, <1>11, <1>12, <1>13, <1>14, <1>15, <1>16, Zenon DEF Next

-----------------------------------------------------------------------------

LEMMA InitInv == Init => QdiscInv
<1> SUFFICES ASSUME Init PROVE QdiscInv
  OBVIOUS
<1>1. <<>> \in Seq(Data) /\ <<>> \in Seq(Skbs) /\ 0 \in Nat
  OBVIOUS
<1>2. DOMAIN dst_hash_tbl = {}
  BY DEF Init
<1>3. dst_hash_tbl \in [{} -> Dsts]
  BY DEF Init
<1>4. enqueue_tasklet \in Tasklets
  <2>1. IDLE \in TaskletPcs
    BY DEF TaskletPcs
  <2>2. enqueue_tasklet = [scheduled |-> FALSE, next |-> <<>>, pc |-> IDLE]
    BY DEF Init
  <2> QED BY <1>1, <2>1, <2>2, Zenon DEF Tasklets
<1>5. cpu \in [Cpus -> CpuPcs]
  BY Zenon DEF Init, CpuPcs
<1>6. waiting \in [Flows -> Nat] /\ accepted \in [Classes -> Nat]
  BY <1>1, Zenon DEF Init
<1>7. QdiscTypeOK
  BY <1>1, <1>2, <1>3, <1>4, <1>5, <1>6, Zenon DEF Init, QdiscTypeOK
<1>8. TimeslotFits
  BY <1>2, Zenon DEF TimeslotFits
<1>9. Awake
  <2>1. Idle /\ Listed
    BY Zenon DEF Init, Idle, Listed
  <2> QED BY <1>7, <2>1, AwakeIs
<1> QED BY <1>7, <1>8, <1>9 DEF QdiscInv

LEMMA Unchanged ==
  ASSUME QdiscInv, UNCHANGED vars
  PROVE  QdiscInv'
<1>1. QdiscTypeOK' /\ TimeslotFits'
  BY Zenon DEF QdiscInv, vars, queues, history, QdiscTypeOK, TimeslotFits
<1>2. Awake'
  BY Zenon DEF QdiscInv, vars, queues, Awake
<1> QED BY <1>1, <1>2 DEF QdiscInv

\* Every step of the tasklet, of a CPU and of the kernel keeps the invariant.
THEOREM QdiscInductive == Spec => []QdiscInv
<1>1. QdiscInv /\ [Next]_vars => QdiscInv'
  <2> SUFFICES ASSUME QdiscInv, [Next]_vars PROVE QdiscInv'
    OBVIOUS
  <2>1. CASE UNCHANGED vars
    BY <2>1, Unchanged
  <2>2. CASE Next
    <3>1. QdiscTypeOK /\ TimeslotFits /\ Awake
      BY DEF QdiscInv
    <3>2. QdiscTypeOK' /\ TimeslotFits'
      BY <2>2, <3>1, EnqueueShape, TaskletShape, CpuShape, DequeueShape, Zenon DEF Next
    <3>3. Awake'
      BY <2>2, <3>1, <3>2, AwakeStep
    <3> QED BY <3>2, <3>3 DEF QdiscInv
  <2> QED BY <2>1, <2>2
<1> QED BY <1>1, InitInv, PTL DEF Spec

\* A packet that is ready to leave the qdisc does not wait for a kernel that nobody wakes,
\* nor a packet to be classified for a tasklet that nobody schedules: __netif_schedule
\* and tasklet_schedule are called after every step that makes them necessary.
THEOREM NoLostWakeUp == Spec => []Awake
<1>1. QdiscInv => Awake
  BY DEF QdiscInv
<1> QED BY <1>1, QdiscInductive, PTL

\* enqueue_single_skb never overfills a timeslot, and adds no packet to one that
\* tsq_admit_now has taken away.
THEOREM TimeslotsFit == Spec => []TimeslotFits
<1>1. QdiscInv => TimeslotFits
  BY DEF QdiscInv
<1> QED BY <1>1, QdiscInductive, PTL

-----------------------------------------------------------------------------
(* tsq_admit_now finds every timeslot that the scheduler asks it to admit: *)
(* the scheduler's account of a flow and the qdisc's agree.                *)

Timeslots(f) == Len(dst_lookup(f).skb_qs)
Admitting(f) == Cardinality(admits(f))
Adding(f) == IF enqueue_tasklet.pc = ADD(f) THEN 1 ELSE 0

LEMMA BackedIs ==
  Backed <=> (resets = 0 => leaked # NO_TIMESLOT /\ \A f \in Flows : Timeslots(f) = waiting[f] + Admitting(f) + Adding(f))
  BY Zenon DEF Backed, Timeslots, Admitting, Adding

LEMMA BackedIsNext ==
  Backed' <=> (resets' = 0 =>
                 leaked' # NO_TIMESLOT /\ \A f \in Flows : Timeslots(f)' = waiting'[f] + Admitting(f)' + Adding(f)')
  BY Zenon DEF Backed, Timeslots, Admitting, Adding

LEMMA Counts ==
  ASSUME QdiscTypeOK, TimeslotFits, NEW f \in Flows
  PROVE  /\ Timeslots(f) \in Nat /\ waiting[f] \in Nat /\ Admitting(f) \in Nat /\ Adding(f) \in {0, 1}
         /\ IsFiniteSet(admits(f))
<1>1. Timeslots(f) \in Nat
  <2>1. dst_lookup(f).skb_qs \in Seq(Seq(Data))
    BY Lookup, Zenon DEF Dsts
  <2> QED BY <2>1, Lists, Zenon DEF Timeslots
<1>2. IsFiniteSet(admits(f)) /\ Admitting(f) \in Nat
  <2>1. admits(f) \subseteq Cpus /\ IsFiniteSet(Cpus)
    BY QdiscAssumption, Zenon DEF admits
  <2> QED BY <2>1, FS_Subset, FS_CardinalityType, Zenon DEF Admitting
<1>3. waiting[f] \in Nat /\ Adding(f) \in {0, 1}
  BY Zenon DEF QdiscTypeOK, Adding
<1> QED BY <1>1, <1>2, <1>3

\* A CPU begins to admit a timeslot of f, or is no longer admitting one.
LEMMA Admits ==
  ASSUME QdiscTypeOK, TimeslotFits, NEW c \in Cpus, NEW pc, cpu' = [cpu EXCEPT ![c] = pc]
  PROVE  /\ cpu[c].at # "admit" /\ pc.at # "admit" => \A g \in Flows : Admitting(g)' = Admitting(g)
         /\ \A f \in Flows : cpu[c] = ADMIT(f) /\ pc.at # "admit" =>
              \A g \in Flows : Admitting(g)' = Admitting(g) - IF g = f THEN 1 ELSE 0
         /\ \A f \in Flows : cpu[c].at # "admit" /\ pc = ADMIT(f) =>
              \A g \in Flows : Admitting(g)' = Admitting(g) + IF g = f THEN 1 ELSE 0
<1>1. /\ \A d \in Cpus : cpu'[d] = IF d = c THEN pc ELSE cpu[d]
      /\ \A f, g : ADMIT(f) = ADMIT(g) => f = g
      /\ \A f : ADMIT(f).at = "admit"
  <2>1. \A d \in Cpus : cpu'[d] = IF d = c THEN pc ELSE cpu[d]
    BY Zenon DEF QdiscTypeOK
  <2>2. \A f, g : ADMIT(f) = ADMIT(g) => f = g
    BY Places
  <2> QED BY <2>1, <2>2, Places, Zenon
<1>2. \A g : admits(g)' = {d \in Cpus : cpu'[d] = ADMIT(g)}
  BY Zenon DEF admits
<1>3. ASSUME NEW g \in Flows, cpu[c] # ADMIT(g), pc # ADMIT(g)
      PROVE  Admitting(g)' = Admitting(g)
  <2>1. admits(g)' = admits(g)
    BY <1>1, <1>2, <1>3, Zenon DEF admits
  <2> QED BY <2>1, Zenon DEF Admitting
<1>4. ASSUME NEW g \in Flows, cpu[c] = ADMIT(g), pc # ADMIT(g)
      PROVE  Admitting(g)' = Admitting(g) - 1
  <2>1. admits(g)' = admits(g) \ {c} /\ c \in admits(g)
    BY <1>1, <1>2, <1>4, Zenon DEF admits
  <2> QED BY <2>1, Counts, FS_RemoveElement, Zenon DEF Admitting
<1>5. ASSUME NEW g \in Flows, cpu[c] # ADMIT(g), pc = ADMIT(g)
      PROVE  Admitting(g)' = Admitting(g) + 1
  <2>1. admits(g)' = admits(g) \cup {c} /\ c \notin admits(g)
    BY <1>1, <1>2, <1>5, Zenon DEF admits
  <2> QED BY <2>1, Counts, FS_AddElement, Zenon DEF Admitting
<1>6. \A g \in Flows : Admitting(g) \in Nat
  BY Counts, Zenon
<1>7. ASSUME NEW f \in Flows, cpu[c] = ADMIT(f), pc.at # "admit", NEW g \in Flows
      PROVE  Admitting(g)' = Admitting(g) - IF g = f THEN 1 ELSE 0
  <2>1. CASE g = f
    BY <1>1, <1>4, <1>7, <2>1, Zenon
  <2>2. CASE g # f
    <3>1. Admitting(g)' = Admitting(g)
      BY <1>1, <1>3, <1>7, <2>2, Zenon
    <3> QED BY <1>6, <2>2, <3>1
  <2> QED BY <2>1, <2>2
<1>8. ASSUME NEW f \in Flows, cpu[c].at # "admit", pc = ADMIT(f), NEW g \in Flows
      PROVE  Admitting(g)' = Admitting(g) + IF g = f THEN 1 ELSE 0
  <2>1. CASE g = f
    BY <1>1, <1>5, <1>8, <2>1, Zenon
  <2>2. CASE g # f
    <3>1. Admitting(g)' = Admitting(g)
      BY <1>1, <1>3, <1>8, <2>2, Zenon
    <3> QED BY <1>6, <2>2, <3>1
  <2> QED BY <2>1, <2>2
<1>9. cpu[c].at # "admit" /\ pc.at # "admit" => \A g \in Flows : Admitting(g)' = Admitting(g)
  BY <1>1, <1>3, Zenon
<1> QED BY <1>7, <1>8, <1>9, Zenon

LEMMA AdmitsLess ==
  ASSUME QdiscTypeOK, TimeslotFits, NEW c \in Cpus, NEW pc, cpu' = [cpu EXCEPT ![c] = pc],
         NEW f \in Flows, cpu[c] = ADMIT(f), pc.at # "admit", NEW g \in Flows
  PROVE  Admitting(g)' = Admitting(g) - IF g = f THEN 1 ELSE 0
<1>1. \A h \in Flows : cpu[c] = ADMIT(h) /\ pc.at # "admit" =>
        \A i \in Flows : Admitting(i)' = Admitting(i) - IF i = h THEN 1 ELSE 0
  BY Admits, Zenon
<1> QED BY <1>1, Zenon

LEMMA SameTimeslots ==
  ASSUME NEW f, NEW n, Holds(f, n), NEW g \in Flows
  PROVE  Timeslots(g)' = IF g = f THEN n ELSE Timeslots(g)
  BY Zenon DEF Holds, Timeslots

\* A step that touches neither account
LEMMA QuietBacked ==
  ASSUME Backed, resets' = resets, UNCHANGED <<leaked, waiting>>,
         \A f \in Flows : Timeslots(f)' = Timeslots(f) /\ Admitting(f)' = Admitting(f) /\ Adding(f)' = Adding(f)
  PROVE  Backed'
  BY BackedIs, BackedIsNext, Zenon

LEMMA TaskletBacked ==
  ASSUME QdiscTypeOK, TimeslotFits, QdiscTypeOK', TimeslotFits', Backed,
         enqueue_single_skb \/ add_timeslot
  PROVE  Backed'
<1> SUFFICES ASSUME resets' = 0
             PROVE  leaked' # NO_TIMESLOT /\ \A f \in Flows : Timeslots(f)' = waiting'[f] + Admitting(f)' + Adding(f)'
  BY BackedIsNext
<1>1. /\ UNCHANGED <<resets, leaked, cpu>> /\ leaked # NO_TIMESLOT
      /\ \A f \in Flows : Timeslots(f) = waiting[f] + Admitting(f) + Adding(f)
  BY BackedIs, Zenon DEF enqueue_single_skb, add_timeslot, tasklet_at_skb, history
<1>2. \A f : Admitting(f)' = Admitting(f)
  BY <1>1, Zenon DEF Admitting, admits
<1>3. /\ \A f, g : ADD(f) = ADD(g) => f = g
      /\ \A f : ADD(f) # IDLE
  BY Places
<1>4. ASSUME enqueue_single_skb, NEW f \in Flows
      PROVE  Timeslots(f)' = waiting'[f] + Admitting(f)' + Adding(f)'
  <2> DEFINE skb == Head(enqueue_tasklet.next)
             dst == dst_lookup(skb.to)
             pc == IF skb.cost > dst.credit THEN ADD(skb.to) ELSE IDLE
             d == with_skb(dst, skb)
             more == IF skb.cost > dst.credit THEN 1 ELSE 0
  <2>1. /\ tasklet_at_skb /\ dst_hash_tbl' = with_dst(skb.to, d) /\ tasklet_goes_on(pc)
        /\ waiting' = waiting /\ enqueue_tasklet.pc = IDLE
    BY <1>4, Zenon DEF enqueue_single_skb, tasklet_at_skb
  <2>2. skb \in Data
    BY <2>1, TaskletAtSkb
  <2> HIDE DEF skb
  <2>3. skb.to \in Flows
    BY <2>2, SkbFields
  <2>4. d \in Dsts /\ Fits(d) /\ Len(d.skb_qs) = Len(dst.skb_qs) + more
    BY <2>2, Lookup, WithSkb, Zenon
  <2> HIDE DEF d
  <2>5. Holds(skb.to, Len(d.skb_qs))
    BY <2>1, <2>3, <2>4, PutInTable, Zenon
  <2>6. pc \in TaskletPcs
    BY <2>3, Zenon DEF TaskletPcs
  <2>7. enqueue_tasklet'.pc = pc
    <3> HIDE DEF pc
    <3> QED BY <2>1, <2>6, TaskletAtSkb, Zenon
  <2>8. Adding(f) = 0 /\ Adding(f)' = IF f = skb.to THEN more ELSE 0
    <3>1. Adding(f) = 0
      BY <1>3, <2>1, Zenon DEF Adding
    <3>2. Adding(f)' = IF enqueue_tasklet'.pc = ADD(f) THEN 1 ELSE 0
      BY Zenon DEF Adding
    <3>3. CASE skb.cost > dst.credit
      BY <1>3, <2>7, <3>1, <3>2, <3>3, Zenon
    <3>4. CASE ~(skb.cost > dst.credit)
      BY <1>3, <2>7, <3>1, <3>2, <3>4, Zenon
    <3> QED BY <3>3, <3>4
  <2>9. Timeslots(f)' = Timeslots(f) + IF f = skb.to THEN more ELSE 0
    <3>1. Timeslots(f)' = IF f = skb.to THEN Len(d.skb_qs) ELSE Timeslots(f)
      BY <2>5, SameTimeslots, Zenon
    <3>2. CASE f = skb.to
      BY <2>4, <3>1, <3>2, Zenon DEF Timeslots
    <3>3. CASE f # skb.to
      BY <3>1, <3>3, Counts
    <3> QED BY <3>2, <3>3
  <2>10. more \in Nat
    OBVIOUS
  <2> HIDE DEF more
  <2>11. Timeslots(f) \in Nat /\ waiting[f] \in Nat /\ Admitting(f) \in Nat /\ Adding(f) \in Nat
         /\ Timeslots(f) = waiting[f] + Admitting(f) + Adding(f)
    BY <1>1, Counts
  <2> QED BY <1>2, <2>1, <2>8, <2>9, <2>10, <2>11
<1>5. ASSUME add_timeslot, NEW f \in Flows
      PROVE  Timeslots(f)' = waiting'[f] + Admitting(f)' + Adding(f)'
  <2> DEFINE g == enqueue_tasklet.pc.flow
  <2>1. /\ enqueue_tasklet.pc.at = "add" /\ waiting' = [waiting EXCEPT ![g] = waiting[g] + 1]
        /\ enqueue_tasklet' = [enqueue_tasklet EXCEPT !.pc = IDLE] /\ UNCHANGED dst_hash_tbl
    BY <1>5, Zenon DEF add_timeslot, queues
  <2>2. g \in Flows /\ enqueue_tasklet.pc = ADD(g)
    BY <2>1, TaskletFields, TaskletPlaces, Zenon DEF QdiscTypeOK
  <2> HIDE DEF g
  <2>3. enqueue_tasklet'.pc = IDLE
    BY <2>1, Zenon DEF QdiscTypeOK, Tasklets
  <2>4. Adding(f) = (IF f = g THEN 1 ELSE 0) /\ Adding(f)' = 0
    BY <1>3, <2>2, <2>3, Zenon DEF Adding
  <2>5. waiting'[f] = waiting[f] + IF f = g THEN 1 ELSE 0
    <3>1. waiting'[f] = IF f = g THEN waiting[f] + 1 ELSE waiting[f]
      BY <2>1, <2>2, Zenon DEF QdiscTypeOK
    <3> QED BY <3>1, Counts
  <2>6. Timeslots(f)' = Timeslots(f)
    BY <2>1, Zenon DEF Timeslots, dst_lookup
  <2>11. Timeslots(f) \in Nat /\ waiting[f] \in Nat /\ Admitting(f) \in Nat /\ Adding(f) \in Nat
         /\ Timeslots(f) = waiting[f] + Admitting(f) + Adding(f)
    BY <1>1, Counts
  <2> QED BY <1>2, <2>4, <2>5, <2>6, <2>11
<1> QED BY <1>1, <1>4, <1>5, Zenon

LEMMA AdmitBacked ==
  ASSUME QdiscTypeOK, TimeslotFits, QdiscTypeOK', TimeslotFits', Backed, NEW c \in Cpus,
         (\E f \in Flows : handle_alloc(c, f)) \/ tsq_admit_now(c) \/ tsq_admit_now_fails(c)
  PROVE  Backed'
<1> SUFFICES ASSUME resets' = 0
             PROVE  leaked' # NO_TIMESLOT /\ \A f \in Flows : Timeslots(f)' = waiting'[f] + Admitting(f)' + Adding(f)'
  BY BackedIsNext
<1>1. /\ UNCHANGED <<resets, enqueue_tasklet>> /\ leaked # NO_TIMESLOT
      /\ \A f \in Flows : Timeslots(f) = waiting[f] + Admitting(f) + Adding(f)
  BY BackedIs, Zenon DEF handle_alloc, tsq_admit_now, tsq_admit_now_fails, at_admit, history
<1>2. \A f : Adding(f)' = Adding(f)
  BY <1>1, Zenon DEF Adding
<1>3. ASSUME NEW g \in Flows, handle_alloc(c, g)
      PROVE  leaked' # NO_TIMESLOT /\ \A f \in Flows : Timeslots(f)' = waiting'[f] + Admitting(f)' + Adding(f)'
  <2>1. /\ cpu[c] = IDLE /\ waiting' = [waiting EXCEPT ![g] = waiting[g] - 1]
        /\ cpu' = [cpu EXCEPT ![c] = ADMIT(g)] /\ UNCHANGED <<leaked, dst_hash_tbl>>
    BY <1>3, Zenon DEF handle_alloc, queues
  <2> SUFFICES ASSUME NEW f \in Flows PROVE Timeslots(f)' = waiting'[f] + Admitting(f)' + Adding(f)'
    BY <1>1, <2>1, Zenon
  <2>2. cpu[c].at # "admit"
    BY <2>1, Places
  <2>3. Admitting(f)' = Admitting(f) + IF f = g THEN 1 ELSE 0
    BY <2>1, <2>2, Admits, Zenon
  <2>4. waiting'[f] = waiting[f] - IF f = g THEN 1 ELSE 0
    <3>1. waiting'[f] = IF f = g THEN waiting[f] - 1 ELSE waiting[f]
      BY <2>1, Zenon DEF QdiscTypeOK
    <3> QED BY <3>1, Counts
  <2>5. Timeslots(f)' = Timeslots(f)
    BY <2>1, Zenon DEF Timeslots, dst_lookup
  <2>11. Timeslots(f) \in Nat /\ waiting[f] \in Nat /\ Admitting(f) \in Nat /\ Adding(f) \in Nat
         /\ Timeslots(f) = waiting[f] + Admitting(f) + Adding(f)
    BY <1>1, Counts
  <2> QED BY <1>2, <2>3, <2>4, <2>5, <2>11
<1>4. ASSUME at_admit(c)
      PROVE  cpu[c].flow \in Flows /\ cpu[c] = ADMIT(cpu[c].flow) /\ Timeslots(cpu[c].flow) # 0
  <2> DEFINE g == cpu[c].flow
  <2>1. g \in Flows /\ cpu[c] = ADMIT(g)
    BY <1>4, CpuPlaces, Zenon DEF at_admit, QdiscTypeOK
  <2> HIDE DEF g
  <2>2. c \in admits(g)
    BY <2>1, Zenon DEF admits
  <2>3. Admitting(g) # 0
    <3>1. admits(g) # {} /\ IsFiniteSet(admits(g))
      BY <2>1, <2>2, Counts
    <3> QED BY <3>1, FS_EmptySet, Zenon DEF Admitting
  <2>4. Timeslots(g) # 0
    BY <1>1, <2>1, <2>3, Counts
  <2> QED BY <2>1, <2>4 DEF g
<1>5. ASSUME tsq_admit_now(c)
      PROVE  leaked' # NO_TIMESLOT /\ \A f \in Flows : Timeslots(f)' = waiting'[f] + Admitting(f)' + Adding(f)'
  <2> DEFINE g == cpu[c].flow
             first == Head(dst_hash_tbl[g].skb_qs)
  <2>1. /\ at_admit(c) /\ dst_lookup(g).skb_qs # <<>> /\ cpu' = [cpu EXCEPT ![c] = APPEND(first)]
        /\ dst_hash_tbl' = [dst_hash_tbl EXCEPT ![g] = without_first(@)] /\ UNCHANGED <<leaked, waiting>>
    BY <1>5, Zenon DEF tsq_admit_now, at_admit
  <2>2. g \in Flows /\ cpu[c] = ADMIT(g)
    BY <1>4, <2>1
  <2> HIDE DEF g, first
  <2>3. Holds(g, Len(dst_lookup(g).skb_qs) - 1)
    BY <2>1, <2>2, TakenFromTable, Zenon
  <2> SUFFICES ASSUME NEW f \in Flows PROVE Timeslots(f)' = waiting'[f] + Admitting(f)' + Adding(f)'
    BY <1>1, <2>1, Zenon
  <2>4. Admitting(f)' = Admitting(f) - IF f = g THEN 1 ELSE 0
    <3>1. APPEND(first).at # "admit"
      BY Places
    <3>2. cpu' = [cpu EXCEPT ![c] = APPEND(first)]
      BY <2>1
    <3> QED BY <2>2, <3>1, <3>2, AdmitsLess, Zenon
  <2>5. Timeslots(f)' = Timeslots(f) - IF f = g THEN 1 ELSE 0
    <3>1. Timeslots(f)' = IF f = g THEN Timeslots(f) - 1 ELSE Timeslots(f)
      BY <2>3, SameTimeslots, Zenon DEF Timeslots
    <3> QED BY <3>1, Counts
  <2>11. Timeslots(f) \in Nat /\ waiting[f] \in Nat /\ Admitting(f) \in Nat /\ Adding(f) \in Nat
         /\ Timeslots(f) = waiting[f] + Admitting(f) + Adding(f)
    BY <1>1, Counts
  <2> QED BY <1>2, <2>1, <2>4, <2>5, <2>11
<1>6. ~tsq_admit_now_fails(c)
  <2> SUFFICES ASSUME tsq_admit_now_fails(c) PROVE FALSE
    OBVIOUS
  <2>1. at_admit(c) /\ dst_lookup(cpu[c].flow).skb_qs = <<>>
    BY Zenon DEF tsq_admit_now_fails
  <2>2. Timeslots(cpu[c].flow) = 0
    BY <2>1 DEF Timeslots
  <2> QED BY <1>4, <2>1, <2>2
<1> QED BY <1>3, <1>5, <1>6, Zenon

LEMMA BackedStep ==
  ASSUME QdiscTypeOK, TimeslotFits, QdiscTypeOK', TimeslotFits', Backed, Next
  PROVE  Backed'
<1>1. ASSUME tsq_tc_reset PROVE Backed'
  <2>1. resets' = resets + 1 /\ resets \in Nat
    BY <1>1, Zenon DEF tsq_tc_reset, QdiscTypeOK
  <2>2. resets' # 0
    BY <2>1
  <2> QED BY <2>2, BackedIsNext
<1>2. ASSUME UNCHANGED <<dst_hash_tbl, leaked, waiting, resets, cpu>>, enqueue_tasklet'.pc = enqueue_tasklet.pc
      PROVE  Backed'
  <2>1. \A f : Timeslots(f)' = Timeslots(f) /\ Admitting(f)' = Admitting(f) /\ Adding(f)' = Adding(f)
    BY <1>2, Zenon DEF Timeslots, dst_lookup, Admitting, admits, Adding
  <2> QED BY <1>2, <2>1, QuietBacked, Zenon
<1>3. ASSUME NEW f \in Flows, NEW cost \in Costs, tsq_enqueue(f, cost) PROVE Backed'
  <2>1. enqueue_tasklet' = [enqueue_tasklet EXCEPT !.scheduled = TRUE]
    BY <1>3, Zenon DEF tsq_enqueue
  <2>2. enqueue_tasklet'.pc = enqueue_tasklet.pc
    BY <2>1, Zenon DEF QdiscTypeOK, Tasklets
  <2> QED BY <1>2, <1>3, <2>2, Zenon DEF tsq_enqueue, taken
<1>4. ASSUME NEW x \in {HI, REG}, tsq_enqueue_prio(x) PROVE Backed'
  BY <1>2, <1>4, Zenon DEF tsq_enqueue_prio, taken
<1>5. ASSUME enqueue_tasklet_func PROVE Backed'
  <2>1. enqueue_tasklet'.pc = enqueue_tasklet.pc
    BY <1>5, Zenon DEF enqueue_tasklet_func
  <2> QED BY <1>2, <1>5, <2>1, Zenon DEF enqueue_tasklet_func, history
<1>6. ASSUME enqueue_to_prequeue PROVE Backed'
  <2> DEFINE skb == Head(enqueue_tasklet.next)
             dst == dst_lookup(skb.to)
  <2>1. /\ tasklet_at_skb /\ dst_hash_tbl' \in {dst_hash_tbl, with_dst(skb.to, dst)} /\ tasklet_goes_on(WAKE)
        /\ enqueue_tasklet.pc = IDLE /\ leaked' = NO_MEMORY /\ UNCHANGED <<waiting, resets, cpu>>
    BY <1>6, Zenon DEF enqueue_to_prequeue, tasklet_at_skb
  <2>2. skb.to \in Flows
    BY <2>1, TaskletAtSkb, SkbFields, Zenon
  <2> HIDE DEF skb
  <2>3. \A f \in Flows : Timeslots(f)' = Timeslots(f)
    <3>1. CASE UNCHANGED dst_hash_tbl
      BY <3>1, Zenon DEF Timeslots, dst_lookup
    <3>2. CASE dst_hash_tbl' = with_dst(skb.to, dst)
      <4>1. Holds(skb.to, Len(dst.skb_qs))
        BY <2>2, <3>2, Lookup, PutInTable
      <4> QED BY <4>1, SameTimeslots, Zenon DEF Timeslots
    <3> QED BY <2>1, <3>1, <3>2, Zenon
  <2>4. WAKE \in TaskletPcs
    BY DEF TaskletPcs
  <2>5. enqueue_tasklet'.pc = WAKE
    BY <2>1, <2>4, TaskletAtSkb, Zenon
  <2>6. \A f : ADD(f) # IDLE /\ ADD(f) # WAKE
    BY Places
  <2>7. \A f : Adding(f)' = Adding(f) /\ Admitting(f)' = Admitting(f)
    BY <2>1, <2>5, <2>6, Zenon DEF Adding, Admitting, admits
  <2>8. leaked' # NO_TIMESLOT
    BY <2>1 DEF NO_MEMORY, NO_TIMESLOT
  <2> QED BY <2>1, <2>3, <2>7, <2>8, BackedIs, BackedIsNext, Zenon
<1>7. ASSUME tasklet_netif_schedule PROVE Backed'
  <2>1. /\ enqueue_tasklet' = [enqueue_tasklet EXCEPT !.pc = IDLE] /\ enqueue_tasklet.pc = WAKE
        /\ UNCHANGED <<dst_hash_tbl, leaked, waiting, resets, cpu>>
    BY <1>7, Zenon DEF tasklet_netif_schedule, queues, history
  <2>2. enqueue_tasklet'.pc = IDLE
    BY <2>1, Zenon DEF QdiscTypeOK, Tasklets
  <2>3. \A f : ADD(f) # IDLE /\ ADD(f) # WAKE
    BY Places
  <2>4. \A f : Adding(f)' = Adding(f) /\ Admitting(f)' = Admitting(f) /\ Timeslots(f)' = Timeslots(f)
    BY <2>1, <2>2, <2>3, Zenon DEF Adding, Admitting, admits, Timeslots, dst_lookup
  <2> QED BY <2>1, <2>4, QuietBacked, Zenon
<1>8. ASSUME NEW c \in Cpus, put_in_prequeue(c) \/ netif_schedule(c) PROVE Backed'
  <2>1. PICK pc \in {WAKE, IDLE} : cpu' = [cpu EXCEPT ![c] = pc]
    BY <1>8, Zenon DEF put_in_prequeue, netif_schedule
  <2>2. cpu[c].at # "admit" /\ pc.at # "admit"
    BY <1>8, Places DEF put_in_prequeue, netif_schedule
  <2>3. UNCHANGED <<dst_hash_tbl, leaked, waiting, resets, enqueue_tasklet>>
    BY <1>8, Zenon DEF put_in_prequeue, netif_schedule, queues, history
  <2>4. \A f \in Flows : Admitting(f)' = Admitting(f)
    BY <2>1, <2>2, Admits, Zenon
  <2>5. \A f : Adding(f)' = Adding(f) /\ Timeslots(f)' = Timeslots(f)
    BY <2>3, Zenon DEF Adding, Timeslots, dst_lookup
  <2> QED BY <2>3, <2>4, <2>5, QuietBacked, Zenon
<1>9. ASSUME tsq_dequeue \/ \E softirq \in BOOLEAN : qdisc_run(softirq) PROVE Backed'
  BY <1>2, <1>9, Zenon DEF qdisc_run, tsq_dequeue, queues, history
<1>10. ASSUME tsq_garbage_collect PROVE Backed'
  <2>1. UNCHANGED <<leaked, waiting, resets, cpu, enqueue_tasklet>>
    BY <1>10, Zenon DEF tsq_garbage_collect, history
  <2>2. \A f \in Flows : Timeslots(f)' = Timeslots(f)
    BY <1>10, CollectedTable, SameTimeslots, Zenon DEF Timeslots
  <2>3. \A f : Adding(f)' = Adding(f) /\ Admitting(f)' = Admitting(f)
    BY <2>1, Zenon DEF Adding, Admitting, admits
  <2> QED BY <2>1, <2>2, <2>3, QuietBacked, Zenon
<1>11. ASSUME enqueue_single_skb \/ add_timeslot PROVE Backed'
  BY <1>11, TaskletBacked
<1>12. ASSUME NEW c \in Cpus,
              (\E f \in Flows : handle_alloc(c, f)) \/ tsq_admit_now(c) \/ tsq_admit_now_fails(c)
       PROVE  Backed'
  BY <1>12, AdmitBacked
<1> QED BY <1>1, <1>3, <1>4, <1>5, <1>6, <1>7, <1>8, <1>9, <1>10, <1>11, <1>12, Zenon DEF Next

LEMMA InitBacked == Init => Backed
<1>0. RELEASED # NO_TIMESLOT
  BY DEF RELEASED, NO_TIMESLOT
<1> SUFFICES ASSUME Init, NEW f \in Flows PROVE Timeslots(f) = waiting[f] + Admitting(f) + Adding(f)
  BY <1>0, BackedIs, Zenon DEF Init
<1>1. DOMAIN dst_hash_tbl = {} /\ waiting[f] = 0
  BY DEF Init
<1>2. Timeslots(f) = 0
  BY <1>1, NewDst, EmptyList DEF Timeslots, dst_lookup
<1>3. admits(f) = {}
  <2>1. ADMIT(f) # IDLE
    BY Places
  <2> QED BY <2>1, Zenon DEF Init, admits
<1>4. Admitting(f) = 0
  BY <1>3, FS_EmptySet DEF Admitting
<1>5. Adding(f) = 0
  <2>1. ADD(f) # IDLE /\ enqueue_tasklet.pc = IDLE
    BY Places DEF Init
  <2> QED BY <2>1, Zenon DEF Adding
<1> QED BY <1>1, <1>2, <1>4, <1>5

\* Until the qdisc is reset, tsq_admit_now always finds the timeslot that the scheduler
\* asks it to admit, and so is never the one that returns with hash_tbl_lock held.
THEOREM AdmittedTimeslotsExist == Spec => []Backed
<1>1. QdiscInv /\ QdiscInv' /\ Backed /\ [Next]_vars => Backed'
  <2> SUFFICES ASSUME QdiscInv, QdiscInv', Backed, [Next]_vars PROVE Backed'
    OBVIOUS
  <2>1. CASE UNCHANGED vars
    <3>1. \A f : Adding(f)' = Adding(f) /\ Admitting(f)' = Admitting(f) /\ Timeslots(f)' = Timeslots(f)
      BY <2>1, Zenon DEF vars, queues, Adding, Admitting, admits, Timeslots, dst_lookup
    <3> QED BY <2>1, <3>1, QuietBacked, Zenon DEF vars, history
  <2>2. CASE Next
    BY <2>2, BackedStep DEF QdiscInv
  <2> QED BY <2>1, <2>2
<1> QED BY <1>1, InitBacked, QdiscInductive, PTL DEF Spec
=============================================================================
