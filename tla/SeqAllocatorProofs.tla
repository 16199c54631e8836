------------------------- MODULE SeqAllocatorProofs -------------------------
(***************************************************************************)
(* The pipelined allocator (graph-algo/admissible_traffic.c) sends its     *)
(* batches out in the order of the timeslots, and admits a matching in     *)
(* each, for every number of cores, size of a batch, of the bins and of    *)
(* the bursts, every set of flows, and every sequence of demands, resets   *)
(* and delays of the cores.                                                *)
(***************************************************************************)
EXTENDS SeqAllocator, FiniteSetTheorems, WellFoundedInduction, TLAPS

Metrics == 0 .. TIME - 1
Edges == [flow : Flows, backlog : Nat, metric : Metrics]
Lists == Seq(Edges)
Sources == {src(f) : f \in Flows}
Destinations == {dst(f) : f \in Flows}
Statuses == [n : [Flows -> Nat], is_active : [Flows -> BOOLEAN], last_alloc : [Flows -> Metrics], new_demands : Lists]
Batches == [src_endnodes : [Sources -> SUBSET Slots], dst_endnodes : [Destinations -> SUBSET Slots],
            out_of_boundary_counts : [Slots -> Nat]]
AdmissionCores ==
  [ahead : Int, seen : BOOLEAN, should_process_new_req : BOOLEAN,
   processed_bins : Int, admitted_bins : 0 .. BATCH_SIZE, n_processed : Nat,
   bins : [Bin -> Lists], bin : Bin, todo : Lists,
   batch : Batches, admitted : [Slots -> SUBSET Flows],
   out_bin : Lists, spent_bin : Lists]

SeqTypeOK ==
  /\ status \in Statuses
  /\ q_head \in Seq(Lists) /\ q_spent \in Seq(Lists \ {<<>>}) /\ q_bin \in [Cores -> Seq(Lists)]
  /\ core \in [Cores -> AdmissionCores]
  /\ latest \in Int /\ mislabelled \in BOOLEAN /\ pending \in [Flows -> Int] /\ resets \in Nat

\* How many batches after that of core `first' the batch of core c is
turn(first, c) == IF c >= first THEN c - first ELSE c - first + N_CORES

\* Core `first' has the batch that is sent out, as far as comm_core has counted; the other cores have sent nothing of theirs.
InTurn(first) ==
  /\ latest + 1 = core[first].ahead + core[first].admitted_bins
  /\ core[first].ahead > -BATCH_SIZE
  /\ core[first].admitted_bins <= IF core[first].ahead > 0 THEN 0 ELSE 1 - core[first].ahead
  /\ \A c \in Cores : core[c].ahead = core[first].ahead + BATCH_SIZE * turn(first, c)
  /\ \A c \in Cores \ {first} : core[c].admitted_bins = 0

OrderInv ==
  /\ mislabelled = FALSE
  /\ \A c \in Cores : core[c].seen = TRUE => core[c].ahead > 1 - BATCH_SIZE
  /\ \E first \in Cores : InTurn(first)

\* Who was given timeslot t no longer has it, and nobody was given it twice.
SourceOnce(k) ==
  \A t \in Slots : \A f \in k.admitted[t] :
    /\ t \notin k.batch.src_endnodes[src(f)]
    /\ \A g \in k.admitted[t] : src(g) = src(f) => g = f

DestinationOnce(k) ==
  \A t \in Slots :
    /\ k.batch.out_of_boundary_counts[t] = 0
    /\ \A f \in k.admitted[t] : /\ t \notin k.batch.dst_endnodes[dst(f)]
                                /\ \A g \in k.admitted[t] : dst(g) = dst(f) => g = f

-----------------------------------------------------------------------------
(* Numbers.                                                                *)

LEMMA Sizes ==
  /\ BATCH_SIZE \in Nat \ {0} /\ N_CORES \in Nat \ {0, 1} /\ TIME \in Nat \ {0} /\ START \in Nat \ {0}
  /\ LATE \in Nat /\ NUM_BINS \in Nat \ {0} /\ SMALL_BIN_SIZE \in Nat \ {0} /\ BURST \in Nat \ {0}
  /\ MAX_DEMANDS_PER_BATCH \in Nat \ {0} /\ OUT_OF_BOUNDARY_CAPACITY \in Nat /\ MAX_AGE \in Nat
  BY BinsAssumption, AllocatorAssumption DEF BATCH_SIZE

LEMMA Least ==
  ASSUME NEW T \in SUBSET Nat, T # {}
  PROVE  \E n \in T : \A m \in T : n <= m
<1> DEFINE R == OpToRel(<, Nat)
<1>1. IsWellFoundedOn(R, Nat)
  BY NatLessThanWellFounded
<1> HIDE DEF R
<1>2. PICK n \in T : \A m \in T : ~(<<m, n>> \in R)
  BY <1>1, WFMin, Zenon
<1>3. \A m \in T : ~(m < n)
  BY <1>2, Zenon DEF R, OpToRel
<1>4. \A m \in T : m \in Nat /\ n \in Nat
  OBVIOUS
<1> QED BY <1>3, <1>4

LEMMA MinOfTwo ==
  ASSUME NEW a \in Int, NEW b \in Int
  PROVE  Min({a, b}) = IF a <= b THEN a ELSE b
<1>1. \E x \in {a, b} : \A y \in {a, b} : x <= y
  OBVIOUS
<1>2. Min({a, b}) \in {a, b} /\ \A y \in {a, b} : Min({a, b}) <= y
  BY <1>1, Zenon DEF Min
<1> QED BY <1>2

LEMMA MinOfSome ==
  ASSUME NEW S \in SUBSET Nat, S # {}
  PROVE  Min(S) \in S
<1>1. \E x \in S : \A y \in S : x <= y
  BY Least
<1> QED BY <1>1, Zenon DEF Min

LEMMA Wrapped ==
  ASSUME NEW i \in Int
  PROVE  i % TIME \in Metrics
  BY Sizes DEF Metrics

LEMMA Aged ==
  ASSUME NEW m \in Metrics
  PROVE  aged(m) \in Metrics
  BY Sizes DEF aged, Metrics

-----------------------------------------------------------------------------
(* Lists of edges.                                                         *)

joined(s, t) == s \o t

LEMMA ListFacts ==
  ASSUME NEW S, NEW s \in Seq(S)
  PROVE  /\ Len(s) \in Nat /\ DOMAIN s = 1 .. Len(s) /\ \A i \in 1 .. Len(s) : s[i] \in S
         /\ <<>> \in Seq(S)
  OBVIOUS

LEMMA Appended ==
  ASSUME NEW S, NEW s \in Seq(S), NEW x \in S
  PROVE  Append(s, x) \in Seq(S) /\ Append(s, x) # <<>> /\ Len(Append(s, x)) = Len(s) + 1
<1>1. Append(s, x) \in Seq(S) /\ Len(Append(s, x)) = Len(s) + 1 /\ Len(s) \in Nat
  OBVIOUS
<1>2. Len(<<>>) = 0
  OBVIOUS
<1>3. Append(s, x) # <<>>
  BY <1>1, <1>2
<1> QED BY <1>1, <1>3

LEMMA HeadAndTail ==
  ASSUME NEW S, NEW s \in Seq(S), s # <<>>
  PROVE  Head(s) \in S /\ Tail(s) \in Seq(S) /\ Len(s) \in Nat \ {0}
  OBVIOUS

LEMMA Joined ==
  ASSUME NEW S, NEW s \in Seq(S), NEW t \in Seq(S)
  PROVE  s \o t \in Seq(S) /\ joined(s, t) \in Seq(S)
  BY DEF joined

LEMMA SubList ==
  ASSUME NEW S, NEW s \in Seq(S), NEW a \in Nat \ {0}, NEW b \in Int, b <= Len(s)
  PROVE  SubSeq(s, a, b) \in Seq(S)
  OBVIOUS

LEMMA ListOf ==
  ASSUME NEW S, NEW n \in Nat, NEW s \in [1 .. n -> S]
  PROVE  s \in Seq(S) /\ Len(s) = n
  OBVIOUS

\* What edges_of computes, as the concatenation of the first bins
Concatenates(f, bins) == f = [i \in 0 .. Len(bins) |-> IF i = 0 THEN <<>> ELSE joined(f[i - 1], bins[i])]

LEMMA Concatenation ==
  ASSUME NEW S, NEW bins \in Seq(Seq(S))
  PROVE  \E f : Concatenates(f, bins)
<1> DEFINE P(k) == \E f \in [0 .. k -> Seq(S)] : f[0] = <<>> /\ \A i \in 1 .. k : f[i] = joined(f[i - 1], bins[i])
           T == {k \in 0 .. Len(bins) : ~P(k)}
<1>0. Len(bins) \in Nat /\ \A i \in 1 .. Len(bins) : bins[i] \in Seq(S)
  BY ListFacts
<1>1. P(0)
  <2> DEFINE f == [i \in 0 .. 0 |-> <<>>]
  <2>1. f \in [0 .. 0 -> Seq(S)] /\ f[0] = <<>> /\ \A i \in 1 .. 0 : f[i] = joined(f[i - 1], bins[i])
    OBVIOUS
  <2> QED BY <2>1, Zenon
<1>2. ASSUME NEW k \in 0 .. Len(bins) - 1, P(k) PROVE P(k + 1)
  <2>1. PICK f \in [0 .. k -> Seq(S)] : f[0] = <<>> /\ \A i \in 1 .. k : f[i] = joined(f[i - 1], bins[i])
    BY <1>2, Zenon
  <2> DEFINE g == [i \in 0 .. k + 1 |-> IF i = k + 1 THEN joined(f[k], bins[k + 1]) ELSE f[i]]
  <2>2. k \in Nat /\ k + 1 \in 1 .. Len(bins) /\ bins[k + 1] \in Seq(S) /\ f[k] \in Seq(S)
    BY <1>0
  <2>3. joined(f[k], bins[k + 1]) \in Seq(S)
    BY <2>2, Joined
  <2>4. g \in [0 .. k + 1 -> Seq(S)]
    BY <2>2, <2>3
  <2>5. g[0] = <<>>
    BY <2>1, <2>2
  <2>6. \A i \in 1 .. k + 1 : g[i] = joined(g[i - 1], bins[i])
    <3>1. g[k + 1] = joined(f[k], bins[k + 1]) /\ \A i \in 0 .. k : g[i] = f[i]
      BY <2>2
    <3> HIDE DEF g
    <3>2. k \in 0 .. k /\ (k + 1) - 1 = k /\ \A i \in 1 .. k : i \in 0 .. k /\ i - 1 \in 0 .. k
      BY <2>2
    <3>3. \A i \in 1 .. k : g[i] = joined(g[i - 1], bins[i])
      BY <2>1, <3>1, <3>2, Zenon
    <3>4. g[k + 1] = joined(g[(k + 1) - 1], bins[k + 1])
      BY <3>1, <3>2
    <3>5. \A i \in 1 .. k + 1 : i = k + 1 \/ i \in 1 .. k
      BY <2>2
    <3> QED BY <3>3, <3>4, <3>5, Zenon
  <2> QED BY <2>4, <2>5, <2>6, Zenon
<1> HIDE DEF P
<1>3. T = {}
  <2> SUFFICES ASSUME T # {} PROVE FALSE
    OBVIOUS
  <2>1. T \in SUBSET Nat
    BY <1>0
  <2>2. PICK n \in T : \A m \in T : n <= m
    BY <2>1, Least, Zenon
  <2>3. n \in 1 .. Len(bins) /\ ~P(n)
    BY <1>0, <1>1, <2>2
  <2>4. n - 1 \in 0 .. Len(bins) - 1 /\ n - 1 \notin T
    BY <1>0, <2>2, <2>3
  <2>5. P(n - 1) /\ (n - 1) + 1 = n
    BY <1>0, <2>3, <2>4
  <2> QED BY <1>2, <2>3, <2>4, <2>5
<1>4. P(Len(bins))
  BY <1>0, <1>3
<1>5. PICK f \in [0 .. Len(bins) -> Seq(S)] : f[0] = <<>> /\ \A i \in 1 .. Len(bins) : f[i] = joined(f[i - 1], bins[i])
  BY <1>4 DEF P
<1>6. f = [i \in 0 .. Len(bins) |-> IF i = 0 THEN <<>> ELSE joined(f[i - 1], bins[i])]
  BY <1>0, <1>5
<1> QED BY <1>6, Zenon DEF Concatenates

LEMMA EdgesOf ==
  ASSUME NEW S, NEW bins \in Seq(Seq(S))
  PROVE  edges_of(bins) \in Seq(S)
<1> DEFINE f == CHOOSE g : Concatenates(g, bins)
           T == {k \in 0 .. Len(bins) : f[k] \notin Seq(S)}
<1>0. Len(bins) \in Nat /\ \A i \in 1 .. Len(bins) : bins[i] \in Seq(S)
  BY ListFacts
<1>1. Concatenates(f, bins)
  BY Concatenation, Zenon
<1>2. edges_of(bins) = f[Len(bins)]
  BY Zenon DEF edges_of, Concatenates, joined
<1> HIDE DEF f
<1>3. f[0] = <<>> /\ \A i \in 1 .. Len(bins) : f[i] = joined(f[i - 1], bins[i])
  BY <1>0, <1>1, SMTT(30) DEF Concatenates
<1>4. T = {}
  <2> SUFFICES ASSUME T # {} PROVE FALSE
    OBVIOUS
  <2>1. T \in SUBSET Nat
    BY <1>0
  <2>2. PICK n \in T : \A m \in T : n <= m
    BY <2>1, Least, Zenon
  <2>3. n \in 1 .. Len(bins) /\ f[n] \notin Seq(S)
    <3>1. f[0] \in Seq(S)
      BY <1>3, ListFacts
    <3>2. n \in 0 .. Len(bins) /\ f[n] \notin Seq(S)
      BY <2>2
    <3>3. n # 0
      BY <3>1, <3>2
    <3> QED BY <1>0, <3>2, <3>3
  <2>4. n - 1 \in 0 .. Len(bins) /\ n - 1 \notin T
    BY <1>0, <2>2, <2>3
  <2>5. f[n - 1] \in Seq(S) /\ bins[n] \in Seq(S)
    BY <1>0, <2>3, <2>4
  <2> QED BY <1>3, <2>3, <2>5, Joined
<1> QED BY <1>0, <1>2, <1>4

LEMMA EdgeFacts ==
  ASSUME NEW f \in Flows, NEW b \in Int, NEW m \in Metrics
  PROVE  Edge(f, b, m) \in Edges
<1>1. b % 65536 \in Nat
  OBVIOUS
<1>2. \A n \in Nat : [flow |-> f, backlog |-> n, metric |-> m] \in Edges
  BY Zenon DEF Edges
<1> QED BY <1>1, <1>2 DEF Edge

LEMMA EdgeFields ==
  ASSUME NEW e \in Edges
  PROVE  e.flow \in Flows /\ e.backlog \in Nat /\ e.metric \in Metrics
  BY Zenon DEF Edges

LEMMA Lengths ==
  ASSUME NEW s \in Lists
  PROVE  Len(s) \in Nat
  BY DEF Lists

LEMMA ForBin ==
  ASSUME NEW k, NEW bin \in Lists, NEW i
  PROVE  for_bin(k, bin, i) \in Lists
<1> DEFINE here(j) == bin_index_from_timeslot(bin[j].metric, k.ahead) = i
           parts == [j \in 1 .. Len(bin) |-> IF here(j) THEN <<bin[j]>> ELSE <<>>]
<1>1. Len(bin) \in Nat /\ \A j \in 1 .. Len(bin) : bin[j] \in Edges
  BY ListFacts DEF Lists
<1> HIDE DEF here
<1>2. \A j \in 1 .. Len(bin) : parts[j] \in Lists
  BY <1>1 DEF Lists
<1>3. parts \in [1 .. Len(bin) -> Lists]
  BY <1>2
<1> HIDE DEF parts
<1>4. parts \in Seq(Seq(Edges))
  BY <1>1, <1>3, ListOf, Zenon DEF Lists
<1>5. for_bin(k, bin, i) = edges_of(parts)
  BY Zenon DEF for_bin, parts, here
<1> QED BY <1>4, <1>5, EdgesOf, Zenon DEF Lists

LEMMA Incoming ==
  ASSUME NEW k, k.bins \in [Bin -> Lists], NEW bin \in Lists
  PROVE  incoming_bin_to_core(k, bin) \in [Bin -> Lists]
<1>1. ASSUME NEW i \in Bin PROVE joined(k.bins[i], for_bin(k, bin, i)) \in Lists
  BY ForBin, Joined, Zenon DEF Lists
<1>2. incoming_bin_to_core(k, bin) = [i \in Bin |-> joined(k.bins[i], for_bin(k, bin, i))]
  BY Zenon DEF incoming_bin_to_core, joined
<1> QED BY <1>1, <1>2, Zenon

LEMMA Chunks ==
  ASSUME NEW s \in Lists
  PROVE  chunks(s) \in Seq(Lists)
<1> DEFINE n == (Len(s) + SMALL_BIN_SIZE - 1) \div SMALL_BIN_SIZE
           low(i) == (i - 1) * SMALL_BIN_SIZE + 1
           high(i) == Min({i * SMALL_BIN_SIZE, Len(s)})
<1>1. Len(s) \in Nat /\ n \in Nat
  BY Lengths, Sizes
<1>2. ASSUME NEW i \in 1 .. n PROVE SubSeq(s, low(i), high(i)) \in Lists
  <2>1. i \in Nat /\ i - 1 \in Nat
    BY <1>1
  <2>2. (i - 1) * SMALL_BIN_SIZE \in Nat /\ i * SMALL_BIN_SIZE \in Nat
    BY <2>1, Sizes
  <2>3. low(i) \in Nat \ {0}
    BY <2>2
  <2>4. high(i) \in Int /\ high(i) <= Len(s)
    BY <1>1, <2>2, MinOfTwo
  <2> HIDE DEF low, high
  <2> QED BY <2>3, <2>4, SubList DEF Lists
<1>3. chunks(s) = [i \in 1 .. n |-> SubSeq(s, low(i), high(i))]
  BY DEF chunks
<1> HIDE DEF n, low, high
<1>4. chunks(s) \in [1 .. n -> Lists]
  BY <1>2, <1>3, Zenon
<1> QED BY <1>1, <1>4, ListOf, Zenon

LEMMA AgedBin ==
  ASSUME NEW bin \in Lists
  PROVE  aged_bin(bin) \in Lists /\ Len(aged_bin(bin)) = Len(bin) /\ (aged_bin(bin) = <<>> <=> bin = <<>>)
<1>1. Len(bin) \in Nat /\ DOMAIN bin = 1 .. Len(bin) /\ \A j \in 1 .. Len(bin) : bin[j] \in Edges
  BY ListFacts DEF Lists
<1>2. ASSUME NEW e \in Edges PROVE [e EXCEPT !.metric = aged(@)] \in Edges
  <2>1. aged(e.metric) \in Metrics
    BY EdgeFields, Aged
  <2> QED BY <2>1, Zenon DEF Edges
<1>3. aged_bin(bin) \in [1 .. Len(bin) -> Edges]
  BY <1>1, <1>2, Zenon DEF aged_bin
<1>4. aged_bin(bin) \in Lists /\ Len(aged_bin(bin)) = Len(bin)
  BY <1>1, <1>3, ListOf, Zenon DEF Lists
<1>5. \A t \in Lists : t = <<>> <=> Len(t) = 0
  BY DEF Lists
<1> QED BY <1>4, <1>5

LEMMA AgedRing ==
  ASSUME NEW ring \in Seq(Lists)
  PROVE  aged_ring(ring) \in Seq(Lists) /\ (ring \in Seq(Lists \ {<<>>}) => aged_ring(ring) \in Seq(Lists \ {<<>>}))
<1>1. Len(ring) \in Nat /\ DOMAIN ring = 1 .. Len(ring) /\ \A j \in 1 .. Len(ring) : ring[j] \in Lists
  BY ListFacts
<1>2. aged_ring(ring) = [j \in 1 .. Len(ring) |-> aged_bin(ring[j])]
  BY <1>1, Zenon DEF aged_ring
<1>3. aged_ring(ring) \in [1 .. Len(ring) -> Lists]
  BY <1>1, <1>2, AgedBin
<1>4. ASSUME ring \in Seq(Lists \ {<<>>}) PROVE aged_ring(ring) \in [1 .. Len(ring) -> Lists \ {<<>>}]
  <2>1. \A j \in 1 .. Len(ring) : ring[j] \in Lists \ {<<>>}
    BY <1>4, ListFacts
  <2>2. \A j \in 1 .. Len(ring) : aged_bin(ring[j]) \in Lists \ {<<>>}
    BY <2>1, AgedBin
  <2> QED BY <1>2, <2>2
<1> QED BY <1>1, <1>3, <1>4, ListOf

LEMMA AgedBins ==
  ASSUME NEW bins \in [Bin -> Lists]
  PROVE  aged_ring(bins) \in [Bin -> Lists]
  BY AgedBin, Zenon DEF aged_ring

-----------------------------------------------------------------------------
(* The state of an admission core.                                         *)

\* What the allocation of a core's edges leaves alone
Steady(u, k) ==
  u \in AdmissionCores /\ u.ahead = k.ahead /\ u.seen = k.seen /\ u.admitted_bins = k.admitted_bins

\* What every step of a core but an allocation leaves alone
Quiet(u, k) == Steady(u, k) /\ u.batch = k.batch /\ u.admitted = k.admitted

LEMMA CoreFields ==
  ASSUME NEW k \in AdmissionCores
  PROVE  /\ k.ahead \in Int /\ k.seen \in BOOLEAN /\ k.admitted_bins \in 0 .. BATCH_SIZE /\ k.processed_bins \in Int
         /\ k.n_processed \in Nat /\ k.bins \in [Bin -> Lists] /\ k.bin \in Bin /\ k.todo \in Lists
         /\ k.batch \in Batches /\ k.admitted \in [Slots -> SUBSET Flows] /\ k.out_bin \in Lists /\ k.spent_bin \in Lists
  BY Zenon DEF AdmissionCores

LEMMA BatchFields ==
  ASSUME NEW b \in Batches
  PROVE  /\ b.src_endnodes \in [Sources -> SUBSET Slots] /\ b.dst_endnodes \in [Destinations -> SUBSET Slots]
         /\ b.out_of_boundary_counts \in [Slots -> Nat]
  BY Zenon DEF Batches

LEMMA EmptyBatch ==
  /\ batch_state_init \in Batches
  /\ \A t \in Slots : batch_state_init.out_of_boundary_counts[t] = OUT_OF_BOUNDARY_CAPACITY
<1> DEFINE S == [s \in Sources |-> Slots]
           D == [d \in Destinations |-> Slots]
           C == [t \in Slots |-> OUT_OF_BOUNDARY_CAPACITY]
<1>1. S \in [Sources -> SUBSET Slots] /\ D \in [Destinations -> SUBSET Slots]
  OBVIOUS
<1>2. C \in [Slots -> Nat] /\ \A t \in Slots : C[t] = OUT_OF_BOUNDARY_CAPACITY
  BY Sizes
<1>3. batch_state_init = [src_endnodes |-> S, dst_endnodes |-> D, out_of_boundary_counts |-> C]
  BY Zenon DEF batch_state_init, Sources, Destinations
<1> HIDE DEF S, D, C
<1>4. batch_state_init \in Batches /\ batch_state_init.out_of_boundary_counts = C
  BY <1>1, <1>2, <1>3, Zenon DEF Batches
<1> QED BY <1>2, <1>4, Zenon

LEMMA CoreReset ==
  ASSUME NEW ahead \in Int
  PROVE  /\ core_reset(ahead) \in AdmissionCores
         /\ core_reset(ahead).ahead = ahead /\ core_reset(ahead).seen = FALSE /\ core_reset(ahead).admitted_bins = 0
         /\ core_reset(ahead).batch = batch_state_init /\ core_reset(ahead).admitted = [t \in Slots |-> {}]
<1> DEFINE k == core_reset(ahead)
<1>1. <<>> \in Lists /\ [i \in Bin |-> <<>>] \in [Bin -> Lists]
  BY DEF Lists
<1>2. 0 \in 0 .. BATCH_SIZE /\ 0 \in Bin /\ 0 \in Nat /\ 0 \in Int
  BY Sizes DEF Bin
<1>3. [t \in Slots |-> {}] \in [Slots -> SUBSET Flows]
  OBVIOUS
<1>4. k \in AdmissionCores
  BY <1>1, <1>2, <1>3, EmptyBatch DEF core_reset, AdmissionCores
<1>5. /\ k.ahead = ahead /\ k.seen = FALSE /\ k.admitted_bins = 0
      /\ k.batch = batch_state_init /\ k.admitted = [t \in Slots |-> {}]
  BY Zenon DEF core_reset
<1> QED BY <1>4, <1>5, Zenon

LEMMA NextEdge ==
  ASSUME NEW k \in AdmissionCores, k.todo # <<>>
  PROVE  Quiet(next_edge(k), k)
<1> DEFINE todo == Tail(k.todo)
           bins == IF Len(k.todo) = 1 THEN [k.bins EXCEPT ![k.bin] = <<>>] ELSE k.bins
           bin == IF Len(k.todo) = 1 THEN 0 ELSE k.bin
<1>1. todo \in Lists /\ <<>> \in Lists
  BY CoreFields, HeadAndTail DEF Lists
<1>2. bins \in [Bin -> Lists]
  BY <1>1, CoreFields
<1>3. bin \in Bin
  BY Sizes, CoreFields DEF Bin
<1>4. next_edge(k) = [k EXCEPT !.todo = todo, !.bins = bins, !.bin = bin]
  BY Zenon DEF next_edge
<1> HIDE DEF todo, bins, bin
<1>5. [k EXCEPT !.todo = todo, !.bins = bins, !.bin = bin] \in AdmissionCores
  BY <1>1, <1>2, <1>3, Zenon DEF AdmissionCores
<1>6. LET u == [k EXCEPT !.todo = todo, !.bins = bins, !.bin = bin]
      IN  /\ u.ahead = k.ahead /\ u.seen = k.seen /\ u.admitted_bins = k.admitted_bins
          /\ u.batch = k.batch /\ u.admitted = k.admitted
  BY Zenon DEF AdmissionCores
<1> QED BY <1>4, <1>5, <1>6, Zenon DEF Quiet, Steady

LEMMA Taken ==
  ASSUME NEW k \in AdmissionCores, NEW i \in Bin
  PROVE  Quiet([k EXCEPT !.bin = i, !.todo = k.bins[i], !.bins[i] = <<>>], k)
<1> DEFINE todo == k.bins[i]
           bins == [k.bins EXCEPT ![i] = <<>>]
           u == [k EXCEPT !.bin = i, !.todo = todo, !.bins = bins]
<1>1. todo \in Lists /\ <<>> \in Lists
  BY CoreFields DEF Lists
<1>2. bins \in [Bin -> Lists]
  BY <1>1, CoreFields
<1>3. [k EXCEPT !.bin = i, !.todo = k.bins[i], !.bins[i] = <<>>] = u
  BY Zenon DEF AdmissionCores
<1> HIDE DEF todo, bins
<1>4. u \in AdmissionCores
  BY <1>1, <1>2, Zenon DEF AdmissionCores
<1>5. /\ u.ahead = k.ahead /\ u.seen = k.seen /\ u.admitted_bins = k.admitted_bins
      /\ u.batch = k.batch /\ u.admitted = k.admitted
  BY Zenon DEF AdmissionCores
<1> HIDE DEF u
<1> QED BY <1>3, <1>4, <1>5, Zenon DEF Quiet, Steady

LEMMA Filled ==
  ASSUME NEW k \in AdmissionCores, NEW bins \in [Bin -> Lists], NEW n \in Nat
  PROVE  Quiet([k EXCEPT !.bins = bins, !.n_processed = n], k)
<1> DEFINE u == [k EXCEPT !.bins = bins, !.n_processed = n]
<1>1. u \in AdmissionCores
  BY Zenon DEF AdmissionCores
<1>2. /\ u.ahead = k.ahead /\ u.seen = k.seen /\ u.admitted_bins = k.admitted_bins
      /\ u.batch = k.batch /\ u.admitted = k.admitted
  BY Zenon DEF AdmissionCores
<1> HIDE DEF u
<1> QED BY <1>1, <1>2, Zenon DEF Quiet, Steady, u

LEMMA PutOut ==
  ASSUME NEW k \in AdmissionCores, NEW out \in Lists
  PROVE  Quiet([k EXCEPT !.out_bin = out], k) /\ [k EXCEPT !.out_bin = out].todo = k.todo
<1> DEFINE u == [k EXCEPT !.out_bin = out]
<1>1. u \in AdmissionCores
  BY Zenon DEF AdmissionCores
<1>2. /\ u.ahead = k.ahead /\ u.seen = k.seen /\ u.admitted_bins = k.admitted_bins
      /\ u.batch = k.batch /\ u.admitted = k.admitted /\ u.todo = k.todo
  BY Zenon DEF AdmissionCores
<1> HIDE DEF u
<1> QED BY <1>1, <1>2, Zenon DEF Quiet, Steady, u

polled(k, b, a, p) ==
  [k EXCEPT !.seen = TRUE, !.should_process_new_req = b, !.admitted_bins = a, !.processed_bins = p]

SeenUpTo(u, k, a) ==
  /\ u \in AdmissionCores /\ u.ahead = k.ahead /\ u.seen = TRUE /\ u.admitted_bins = a
  /\ u.batch = k.batch /\ u.admitted = k.admitted

LEMMA Polled ==
  ASSUME NEW k \in AdmissionCores, NEW b \in BOOLEAN, NEW a \in 0 .. BATCH_SIZE, NEW p \in Int
  PROVE  SeenUpTo(polled(k, b, a, p), k, a)
<1> DEFINE u == polled(k, b, a, p)
<1>1. u \in AdmissionCores
  BY Zenon DEF AdmissionCores, polled
<1>2. u.ahead = k.ahead /\ u.seen = TRUE /\ u.admitted_bins = a /\ u.batch = k.batch /\ u.admitted = k.admitted
  BY Zenon DEF AdmissionCores, polled
<1> QED BY <1>1, <1>2, Zenon DEF SeenUpTo

LEMMA AgedCore ==
  ASSUME NEW k \in AdmissionCores
  PROVE  LET u == [k EXCEPT !.ahead = @ - 1, !.seen = FALSE, !.bins = aged_ring(@), !.todo = aged_bin(@),
                            !.out_bin = aged_bin(@), !.spent_bin = aged_bin(@)]
         IN  /\ u \in AdmissionCores /\ u.ahead = k.ahead - 1 /\ u.seen = FALSE /\ u.admitted_bins = k.admitted_bins
             /\ u.batch = k.batch /\ u.admitted = k.admitted
<1> DEFINE a == k.ahead - 1
           bins == aged_ring(k.bins)
           todo == aged_bin(k.todo)
           out == aged_bin(k.out_bin)
           spent == aged_bin(k.spent_bin)
           u == [k EXCEPT !.ahead = a, !.seen = FALSE, !.bins = bins, !.todo = todo, !.out_bin = out, !.spent_bin = spent]
<1>1. a \in Int /\ bins \in [Bin -> Lists] /\ todo \in Lists /\ out \in Lists /\ spent \in Lists
  BY CoreFields, AgedBin, AgedBins
<1>2. [k EXCEPT !.ahead = @ - 1, !.seen = FALSE, !.bins = aged_ring(@), !.todo = aged_bin(@),
                !.out_bin = aged_bin(@), !.spent_bin = aged_bin(@)] = u
  BY Zenon
<1> HIDE DEF bins, todo, out, spent
<1>3. u \in AdmissionCores
  BY <1>1, Zenon DEF AdmissionCores
<1>4. u.ahead = a /\ u.seen = FALSE /\ u.admitted_bins = k.admitted_bins /\ u.batch = k.batch /\ u.admitted = k.admitted
  BY Zenon DEF AdmissionCores
<1> HIDE DEF u
<1> QED BY <1>2, <1>3, <1>4, Zenon

\* dst_endnodes once timeslot t was taken from the destination of flow f
dst_taken(b, f, t) == [b.dst_endnodes EXCEPT ![dst(f)] = @ \ {t}]

LEMMA Occupied ==
  ASSUME NEW b \in Batches, NEW f \in Flows, NEW t \in Slots
  PROVE  /\ set_occupied(b, f, t) \in Batches
         /\ set_occupied(b, f, t).src_endnodes = src_after(b, f, t)
         /\ dst(f) # OUT_OF_BOUNDARY /\ b.out_of_boundary_counts[t] = 0 =>
              /\ set_occupied(b, f, t).dst_endnodes = dst_taken(b, f, t)
              /\ set_occupied(b, f, t).out_of_boundary_counts = b.out_of_boundary_counts
<1> DEFINE S == src_after(b, f, t)
           C == counts_after(b, f, t)
           D == IF flip_mask(C, f, t) THEN dst_taken(b, f, t) ELSE b.dst_endnodes
<1>1. src(f) \in Sources /\ dst(f) \in Destinations
  BY DEF Sources, Destinations
<1>2. S \in [Sources -> SUBSET Slots]
  BY <1>1, BatchFields DEF src_after
<1>3. \A x \in Nat : (x - 1) % 65536 \in Nat
  OBVIOUS
<1>4. C \in [Slots -> Nat] /\ (dst(f) # OUT_OF_BOUNDARY => C = b.out_of_boundary_counts)
  BY <1>3, BatchFields DEF counts_after
<1> HIDE DEF C, S
<1>5. D \in [Destinations -> SUBSET Slots]
  BY <1>1, BatchFields DEF dst_taken
<1>6. dst(f) # OUT_OF_BOUNDARY /\ b.out_of_boundary_counts[t] = 0 => D = dst_taken(b, f, t)
  BY <1>4, Zenon DEF flip_mask
<1>7. set_occupied(b, f, t) = [src_endnodes |-> S, dst_endnodes |-> D, out_of_boundary_counts |-> C]
  BY Zenon DEF set_occupied, dst_taken, S, C
<1> HIDE DEF D
<1>8. /\ set_occupied(b, f, t) \in Batches /\ set_occupied(b, f, t).src_endnodes = S
      /\ set_occupied(b, f, t).dst_endnodes = D /\ set_occupied(b, f, t).out_of_boundary_counts = C
  <2> DEFINE r == [src_endnodes |-> S, dst_endnodes |-> D, out_of_boundary_counts |-> C]
  <2>1. r \in Batches
    BY <1>2, <1>4, <1>5, Zenon DEF Batches
  <2>2. r.src_endnodes = S /\ r.dst_endnodes = D /\ r.out_of_boundary_counts = C
    BY Zenon
  <2> HIDE DEF r
  <2> QED BY <1>7, <2>1, <2>2, Zenon DEF r
<1> QED BY <1>4, <1>6, <1>8, Zenon DEF S

\* The core after timeslot t was given to flow f
Given(u, k, f, t) ==
  /\ Steady(u, k) /\ u.batch = set_occupied(k.batch, f, t)
  /\ u.admitted = [k.admitted EXCEPT ![t] = @ \cup {f}]

put_back(k, bins) == [k EXCEPT !.bins = bins]
put_spent(k, spent) == [k EXCEPT !.spent_bin = spent]

LEMMA GivenAgain ==
  ASSUME NEW k \in AdmissionCores, NEW f \in Flows, NEW t \in Slots, NEW bins \in [Bin -> Lists], NEW spent \in Lists
  PROVE  /\ Given(put_back(admit(k, f, t), bins), k, f, t)
         /\ put_back(admit(k, f, t), bins).todo = k.todo
         /\ Given(put_spent(admit(k, f, t), spent), k, f, t)
         /\ put_spent(admit(k, f, t), spent).todo = k.todo
<1> DEFINE B == set_occupied(k.batch, f, t)
           A == [k.admitted EXCEPT ![t] = @ \cup {f}]
           o == [k EXCEPT !.batch = B, !.admitted = A]
           u == [o EXCEPT !.bins = bins]
           v == [o EXCEPT !.spent_bin = spent]
<1>1. B \in Batches
  BY CoreFields, Occupied, Zenon
<1>2. A \in [Slots -> SUBSET Flows]
  BY CoreFields
<1>3. admit(k, f, t) = o
  BY Zenon DEF AdmissionCores, admit
<1> HIDE DEF B, A
<1>4. /\ o \in AdmissionCores /\ o.ahead = k.ahead /\ o.seen = k.seen /\ o.admitted_bins = k.admitted_bins
      /\ o.batch = B /\ o.admitted = A /\ o.todo = k.todo
  BY <1>1, <1>2, Zenon DEF AdmissionCores
<1> HIDE DEF o
<1>5. /\ u \in AdmissionCores /\ u.ahead = o.ahead /\ u.seen = o.seen /\ u.admitted_bins = o.admitted_bins
      /\ u.batch = o.batch /\ u.admitted = o.admitted /\ u.todo = o.todo
  BY <1>4, Zenon DEF AdmissionCores
<1>6. /\ v \in AdmissionCores /\ v.ahead = o.ahead /\ v.seen = o.seen /\ v.admitted_bins = o.admitted_bins
      /\ v.batch = o.batch /\ v.admitted = o.admitted /\ v.todo = o.todo
  BY <1>4, Zenon DEF AdmissionCores
<1> HIDE DEF u, v
<1>7. Given(u, k, f, t) /\ u.todo = k.todo
  BY <1>4, <1>5, Zenon DEF Given, Steady, A, B
<1>8. Given(v, k, f, t) /\ v.todo = k.todo
  BY <1>4, <1>6, Zenon DEF Given, Steady, A, B
<1> QED BY <1>3, <1>7, <1>8, Zenon DEF u, v, put_back, put_spent

-----------------------------------------------------------------------------
(* The state of the comm core.                                             *)

LEMMA StatusFields ==
  ASSUME NEW s \in Statuses
  PROVE  /\ s.n \in [Flows -> Nat] /\ s.is_active \in [Flows -> BOOLEAN]
         /\ s.last_alloc \in [Flows -> Metrics] /\ s.new_demands \in Lists
  BY Zenon DEF Statuses

LEMMA StatusChanged ==
  ASSUME NEW s \in Statuses, NEW f \in Flows, NEW x \in Nat, NEW new \in Lists, NEW m \in Metrics
  PROVE  /\ [s EXCEPT !.n[f] = x] \in Statuses
         /\ [s EXCEPT !.is_active[f] = TRUE] \in Statuses
         /\ [s EXCEPT !.new_demands = new] \in Statuses
         /\ [s EXCEPT !.last_alloc[f] = m, !.is_active[f] = FALSE] \in Statuses
<1> DEFINE n == [s.n EXCEPT ![f] = x]
           yes == [s.is_active EXCEPT ![f] = TRUE]
           no == [s.is_active EXCEPT ![f] = FALSE]
           last == [s.last_alloc EXCEPT ![f] = m]
<1>1. n \in [Flows -> Nat]
  BY StatusFields
<1>2. yes \in [Flows -> BOOLEAN] /\ no \in [Flows -> BOOLEAN]
  BY StatusFields
<1>3. last \in [Flows -> Metrics]
  BY StatusFields
<1>4. /\ [s EXCEPT !.n[f] = x] = [s EXCEPT !.n = n] /\ [s EXCEPT !.is_active[f] = TRUE] = [s EXCEPT !.is_active = yes]
      /\ [s EXCEPT !.last_alloc[f] = m, !.is_active[f] = FALSE] = [s EXCEPT !.last_alloc = last, !.is_active = no]
  BY Zenon DEF Statuses
<1> HIDE DEF n, yes, no, last
<1>5. [s EXCEPT !.n = n] \in Statuses /\ [s EXCEPT !.is_active = yes] \in Statuses
  BY <1>1, <1>2, Zenon DEF Statuses
<1>6. [s EXCEPT !.new_demands = new] \in Statuses
  BY Zenon DEF Statuses
<1>7. [s EXCEPT !.last_alloc = last, !.is_active = no] \in Statuses
  BY <1>2, <1>3, Zenon DEF Statuses
<1> QED BY <1>4, <1>5, <1>6, <1>7, Zenon

LEMMA Enqueued ==
  ASSUME NEW s \in Statuses, NEW f \in Flows, NEW amount \in Nat, q_head \in Seq(Lists),
         enqueue_new_demand(s, f, amount)
  PROVE  status' \in Statuses /\ q_head' \in Seq(Lists)
<1> DEFINE new == Append(s.new_demands, Edge(f, amount, s.last_alloc[f]))
<1>1. new \in Lists /\ <<>> \in Lists
  <2>1. s.new_demands \in Seq(Edges) /\ s.last_alloc[f] \in Metrics
    BY StatusFields DEF Lists
  <2>2. Edge(f, amount, s.last_alloc[f]) \in Edges
    BY <2>1, EdgeFacts
  <2> QED BY <2>1, <2>2, Appended DEF Lists
<1> HIDE DEF new
<1>2. Append(q_head, new) \in Seq(Lists)
  BY <1>1, Appended
<1>3. /\ status' = [s EXCEPT !.new_demands = <<>>] \/ status' = [s EXCEPT !.new_demands = new]
      /\ q_head' = Append(q_head, new) \/ q_head' = q_head
  BY Zenon DEF enqueue_new_demand, new
<1>4. 0 \in Nat /\ 0 \in Metrics
  BY Sizes DEF Metrics
<1>5. \A x \in Lists : [s EXCEPT !.new_demands = x] \in Statuses
  BY <1>4, StatusChanged, Zenon
<1> QED BY <1>1, <1>2, <1>3, <1>5, Zenon

LEMMA AddBacklogType ==
  ASSUME SeqTypeOK, NEW f \in Flows, NEW amount \in 1 .. MAX_DEMAND, seq_add_backlog(f, amount)
  PROVE  SeqTypeOK'
<1>1. amount \in Nat /\ 0 \in Metrics /\ <<>> \in Lists
  BY Sizes DEF Metrics, Lists
<1>2. status' \in Statuses /\ q_head' \in Seq(Lists)
  <2>1. CASE status.is_active[f]
    <3>1. status' = [status EXCEPT !.n[f] = @ + amount] /\ q_head' = q_head
      BY <2>1, Zenon DEF seq_add_backlog
    <3>2. status \in Statuses /\ status.n[f] + amount \in Nat
      BY <1>1, StatusFields DEF SeqTypeOK
    <3>3. [status EXCEPT !.n[f] = status.n[f] + amount] \in Statuses
      BY <1>1, <3>2, StatusChanged, Zenon
    <3> QED BY <3>1, <3>3, Zenon DEF SeqTypeOK
  <2>2. CASE ~status.is_active[f]
    <3>1. enqueue_new_demand([status EXCEPT !.is_active[f] = TRUE], f, amount)
      BY <2>2, Zenon DEF seq_add_backlog
    <3>2. [status EXCEPT !.is_active[f] = TRUE] \in Statuses /\ q_head \in Seq(Lists)
      BY <1>1, StatusChanged, Zenon DEF SeqTypeOK
    <3> QED BY <1>1, <3>1, <3>2, Enqueued, Zenon
  <2> QED BY <2>1, <2>2
<1>3. pending' \in [Flows -> Int]
  BY <1>1 DEF seq_add_backlog, SeqTypeOK
<1>4. UNCHANGED <<q_spent, q_bin, core, latest, mislabelled, resets>>
  BY Zenon DEF seq_add_backlog
<1> QED BY <1>2, <1>3, <1>4, Zenon DEF SeqTypeOK

LEMMA FlushType ==
  ASSUME SeqTypeOK, seq_flush_backlog
  PROVE  SeqTypeOK'
<1>1. status \in Statuses /\ status.new_demands \in Lists /\ <<>> \in Lists /\ 0 \in Nat /\ 0 \in Metrics
  BY Sizes, StatusFields DEF SeqTypeOK, Lists, Metrics
<1>2. Append(q_head, status.new_demands) \in Seq(Lists)
  BY <1>1, Appended DEF SeqTypeOK
<1>3. [status EXCEPT !.new_demands = <<>>] \in Statuses
  <2>1. CASE Flows = {}
    BY <1>1, Zenon DEF Statuses
  <2>2. CASE Flows # {}
    BY <1>1, <2>2, StatusChanged, Zenon
  <2> QED BY <2>1, <2>2
<1> QED BY <1>2, <1>3, Zenon DEF SeqTypeOK, seq_flush_backlog

LEMMA HandleSpentType ==
  ASSUME SeqTypeOK, seq_handle_spent
  PROVE  SeqTypeOK'
<1> DEFINE e == Head(Head(q_spent))
           rest == Tail(Head(q_spent))
<1>1. Head(q_spent) \in Lists \ {<<>>} /\ Tail(q_spent) \in Seq(Lists \ {<<>>}) /\ q_spent # <<>>
  BY HeadAndTail DEF SeqTypeOK, seq_handle_spent
<1>2. e \in Edges /\ rest \in Lists
  BY <1>1, HeadAndTail DEF Lists
<1>3. e.flow \in Flows /\ e.metric \in Metrics /\ 0 \in Nat /\ <<>> \in Lists
  BY <1>2, EdgeFields DEF Lists
<1>4. q_spent' \in Seq(Lists \ {<<>>})
  <2>1. q_spent' = IF rest = <<>> THEN Tail(q_spent) ELSE [q_spent EXCEPT ![1] = rest]
    BY Zenon DEF seq_handle_spent
  <2> HIDE DEF rest
  <2>2. ASSUME rest # <<>> PROVE [q_spent EXCEPT ![1] = rest] \in Seq(Lists \ {<<>>})
    <3>1. Len(q_spent) \in Nat /\ q_spent \in [1 .. Len(q_spent) -> Lists \ {<<>>}]
      BY DEF SeqTypeOK
    <3>2. [q_spent EXCEPT ![1] = rest] \in [1 .. Len(q_spent) -> Lists \ {<<>>}]
      BY <1>2, <2>2, <3>1, Zenon
    <3> QED BY <3>1, <3>2, ListOf
  <2> QED BY <1>1, <2>1, <2>2
<1>5. status' \in Statuses /\ q_head' \in Seq(Lists)
  <2> HIDE DEF e
  <2>0. status \in Statuses /\ q_head \in Seq(Lists) /\ status.n[e.flow] \in Nat
    BY <1>3, StatusFields DEF SeqTypeOK
  <2>1. CASE status.n[e.flow] = 0
    <3>1. status' = retired(status, e) /\ q_head' = q_head
      BY <2>1, Zenon DEF seq_handle_spent, e
    <3>2. retired(status, e) \in Statuses
      BY <1>3, <2>0, StatusChanged, Zenon DEF retired
    <3> QED BY <2>0, <3>1, <3>2, Zenon
  <2>2. CASE status.n[e.flow] # 0
    <3>1. enqueue_new_demand([status EXCEPT !.n[e.flow] = 0], e.flow, status.n[e.flow])
      BY <2>2, Zenon DEF seq_handle_spent, e
    <3>2. [status EXCEPT !.n[e.flow] = 0] \in Statuses
      BY <1>3, <2>0, StatusChanged, Zenon
    <3> QED BY <1>3, <2>0, <3>1, <3>2, Enqueued, Zenon
  <2> QED BY <2>1, <2>2
<1>6. UNCHANGED <<q_bin, core, latest, mislabelled, pending, resets>>
  BY Zenon DEF seq_handle_spent
<1> QED BY <1>4, <1>5, <1>6, Zenon DEF SeqTypeOK

LEMMA ResetSenderType ==
  ASSUME SeqTypeOK, NEW s, seq_reset_sender(s)
  PROVE  SeqTypeOK'
<1> DEFINE n == [f \in Flows |-> IF src(f) = s THEN 0 ELSE status.n[f]]
<1>1. n \in [Flows -> Nat] /\ status \in Statuses
  BY StatusFields DEF SeqTypeOK
<1>2. status' = [status EXCEPT !.n = n]
  BY Zenon DEF seq_reset_sender, after_reset
<1> HIDE DEF n
<1>3. status' \in Statuses
  BY <1>1, <1>2, Zenon DEF Statuses
<1>4. pending' \in [Flows -> Int]
  <2>1. \A f \in Flows : pending[f] \in Int /\ status.n[f] \in Nat
    BY <1>1, StatusFields DEF SeqTypeOK
  <2> QED BY <2>1 DEF seq_reset_sender
<1>5. resets' \in Nat
  BY DEF seq_reset_sender, SeqTypeOK
<1>6. UNCHANGED <<q_head, q_spent, q_bin, core, latest, mislabelled>>
  BY Zenon DEF seq_reset_sender
<1> QED BY <1>3, <1>4, <1>5, <1>6, Zenon DEF SeqTypeOK

-----------------------------------------------------------------------------
(* The steps of an admission core.                                         *)

LEMMA NextCore ==
  ASSUME NEW c \in Cores
  PROVE  next_core(c) \in Cores
  BY Sizes DEF next_core, Cores

LEMMA CoreAt ==
  ASSUME SeqTypeOK, NEW c \in Cores
  PROVE  core[c] \in AdmissionCores
  BY DEF SeqTypeOK

LEMMA Rings ==
  ASSUME SeqTypeOK, NEW c \in Cores, NEW ring \in Seq(Lists)
  PROVE  [q_bin EXCEPT ![c] = ring] \in [Cores -> Seq(Lists)]
  BY DEF SeqTypeOK

LEMMA BurstOf ==
  ASSUME NEW n \in Nat, NEW b \in Nat
  PROVE  Min({b, n}) \in Nat /\ Min({b, n}) <= n
  BY MinOfTwo

LEMMA PassBins ==
  ASSUME SeqTypeOK, NEW c \in Cores, NEW more \in Seq(Lists)
  PROVE  pass_bins(c, more) \in [Cores -> Seq(Lists)]
<1> DEFINE burst == Min({BURST, Len(q_bin[c])})
           kept == SubSeq(q_bin[c], burst + 1, Len(q_bin[c]))
           gone == SubSeq(q_bin[c], 1, burst)
           q1 == [q_bin EXCEPT ![c] = kept]
           to == q_bin[next_core(c)] \o more \o gone
<1>1. q_bin[c] \in Seq(Lists) /\ Len(q_bin[c]) \in Nat
  BY ListFacts DEF SeqTypeOK
<1>2. burst \in Nat /\ burst <= Len(q_bin[c])
  BY <1>1, BurstOf, Sizes
<1> HIDE DEF burst
<1>3. kept \in Seq(Lists) /\ gone \in Seq(Lists)
  BY <1>1, <1>2, SubList
<1> HIDE DEF kept, gone
<1>4. q1 \in [Cores -> Seq(Lists)]
  BY <1>3, Rings
<1> HIDE DEF q1
<1>5. q_bin[next_core(c)] \in Seq(Lists)
  BY NextCore DEF SeqTypeOK
<1>6. q_bin[next_core(c)] \o more \in Seq(Lists)
  BY <1>5, Joined
<1>7. to \in Seq(Lists)
  BY <1>3, <1>6, Joined
<1>8. pass_bins(c, more) = [q1 EXCEPT ![next_core(c)] = to]
  BY Zenon DEF pass_bins, q1, kept, gone, burst
<1> HIDE DEF to
<1> QED BY <1>4, <1>7, <1>8, NextCore

\* A step of core c that sends nothing out: at most a timeslot that the nodes of a flow both have is given to it.
Moves(c) ==
  /\ \A d \in Cores \ {c} : core'[d] = core[d]
  /\ \/ Quiet(core'[c], core[c])
     \/ \E f \in Flows : \E t \in core[c].batch.src_endnodes[src(f)] \cap core[c].batch.dst_endnodes[dst(f)] :
          Given(core'[c], core[c], f, t)
  /\ UNCHANGED <<latest, mislabelled>>

LEMMA CoreChanged ==
  ASSUME SeqTypeOK, NEW c \in Cores, NEW u, Quiet(u, core[c]), core' = [core EXCEPT ![c] = u],
         UNCHANGED <<latest, mislabelled>>
  PROVE  core' \in [Cores -> AdmissionCores] /\ Moves(c)
<1>1. u \in AdmissionCores
  BY Zenon DEF Quiet, Steady
<1>2. core' \in [Cores -> AdmissionCores] /\ core'[c] = u /\ \A d \in Cores \ {c} : core'[d] = core[d]
  BY <1>1 DEF SeqTypeOK
<1> QED BY <1>2, Zenon DEF Moves

LEMMA PassOnStep ==
  ASSUME SeqTypeOK, NEW c \in Cores, pass_on(c)
  PROVE  SeqTypeOK' /\ Moves(c)
<1>1. q_bin' \in [Cores -> Seq(Lists)]
  <2>1. <<>> \in Seq(Lists)
    OBVIOUS
  <2> QED BY <2>1, PassBins, Zenon DEF pass_on
<1>2. UNCHANGED <<status, q_head, q_spent, core, latest, mislabelled, pending, resets>>
  BY Zenon DEF pass_on
<1>3. Quiet(core'[c], core[c])
  BY <1>2, CoreAt, Zenon DEF Quiet, Steady
<1> QED BY <1>1, <1>2, <1>3, Zenon DEF SeqTypeOK, Moves

LEMMA HandleInputsStep ==
  ASSUME SeqTypeOK, NEW c \in Cores, handle_inputs(c)
  PROVE  SeqTypeOK' /\ Moves(c)
<1> DEFINE k == core[c]
           n_new == IF k.should_process_new_req THEN Min({BURST, Len(q_head)}) ELSE 0
           n_in == Min({1, Len(q_bin[c])})
           first == SubSeq(q_head, 1, n_new) \o SubSeq(q_bin[c], 1, n_in)
           edges == edges_of(first)
           bins == incoming_bin_to_core(k, edges)
           n == Min({k.n_processed + Len(edges), MAX_DEMANDS_PER_BATCH})
           ring == SubSeq(q_bin[c], n_in + 1, Len(q_bin[c]))
<1>1. /\ k \in AdmissionCores /\ q_head \in Seq(Lists) /\ q_bin[c] \in Seq(Lists)
      /\ Len(q_head) \in Nat /\ Len(q_bin[c]) \in Nat
  BY CoreAt, ListFacts DEF SeqTypeOK
<1> HIDE DEF k
<1>2. n_new \in Nat /\ n_new <= Len(q_head)
  BY <1>1, BurstOf, Sizes
<1>3. n_in \in Nat /\ n_in <= Len(q_bin[c])
  BY <1>1, BurstOf
<1> HIDE DEF n_new, n_in
<1>4. /\ SubSeq(q_head, 1, n_new) \in Seq(Lists) /\ SubSeq(q_bin[c], 1, n_in) \in Seq(Lists)
      /\ SubSeq(q_head, n_new + 1, Len(q_head)) \in Seq(Lists) /\ ring \in Seq(Lists)
  BY <1>1, <1>2, <1>3, SubList
<1>5. first \in Seq(Lists)
  BY <1>4, Joined
<1> HIDE DEF first, ring
<1>6. edges \in Lists
  BY <1>5, EdgesOf, Zenon DEF Lists
<1> HIDE DEF edges
<1>7. bins \in [Bin -> Lists]
  BY <1>1, <1>6, CoreFields, Incoming, Zenon
<1>8. n \in Nat
  <2>1. Len(edges) \in Nat /\ k.n_processed \in Nat
    BY <1>1, <1>6, Lengths, CoreFields
  <2>2. k.n_processed + Len(edges) \in Nat
    BY <2>1
  <2> QED BY <2>2, MinOfTwo, Sizes
<1> HIDE DEF bins, n
<1>9. core' = [core EXCEPT ![c] = [k EXCEPT !.bins = bins, !.n_processed = n]]
  BY Zenon DEF handle_inputs, process_new_requests, k, bins, n, n_new, n_in, edges, first
<1>12. /\ q_head' = SubSeq(q_head, n_new + 1, Len(q_head)) /\ q_bin' = [q_bin EXCEPT ![c] = ring]
       /\ UNCHANGED <<status, q_spent, latest, mislabelled, pending, resets>>
  BY Zenon DEF handle_inputs, process_new_requests, k, n_new, n_in, ring
<1>10. core' \in [Cores -> AdmissionCores] /\ Moves(c)
  <2>1. Quiet([k EXCEPT !.bins = bins, !.n_processed = n], core[c])
    BY <1>1, <1>7, <1>8, Filled, Zenon DEF k
  <2> QED BY <1>9, <1>12, <2>1, CoreChanged, Zenon
<1>11. q_bin' \in [Cores -> Seq(Lists)]
  BY <1>4, <1>12, Rings, Zenon
<1> QED BY <1>4, <1>10, <1>11, <1>12, Zenon DEF SeqTypeOK

LEMMA TakeBinStep ==
  ASSUME SeqTypeOK, NEW c \in Cores, take_bin(c)
  PROVE  SeqTypeOK' /\ Moves(c)
<1> DEFINE k == core[c]
           i == Min(non_empty_bins(k) \cap allowed_bins(k))
           u == [k EXCEPT !.bin = i, !.todo = k.bins[i], !.bins[i] = <<>>]
<1>1. non_empty_bins(k) \cap allowed_bins(k) # {}
  BY Zenon DEF take_bin, at_loop_head
<1>2. non_empty_bins(k) \subseteq Bin /\ Bin \subseteq Nat
  BY Sizes DEF non_empty_bins, Bin
<1>3. i \in Bin
  BY <1>1, <1>2, MinOfSome
<1> HIDE DEF i
<1>4. Quiet(u, core[c])
  BY <1>3, CoreAt, Taken, Zenon
<1>5. core' = [core EXCEPT ![c] = u] /\ UNCHANGED <<status, q_head, q_spent, q_bin, latest, mislabelled, pending, resets>>
  BY Zenon DEF take_bin, i
<1> HIDE DEF u
<1>6. core' \in [Cores -> AdmissionCores] /\ Moves(c)
  BY <1>4, <1>5, CoreChanged, Zenon
<1> QED BY <1>5, <1>6, Zenon DEF SeqTypeOK

LEMMA NoTimeslotsStep ==
  ASSUME SeqTypeOK, NEW c \in Cores, no_available_timeslots(c)
  PROVE  SeqTypeOK' /\ Moves(c)
<1> DEFINE k == core[c]
           out == Append(k.out_bin, Head(k.todo))
           full == Len(out) = SMALL_BIN_SIZE
           left == IF full THEN <<>> ELSE out
           v == [k EXCEPT !.out_bin = left]
           n == next_core(c)
<1>1. k \in AdmissionCores /\ k.todo \in Lists /\ k.todo # <<>> /\ k.out_bin \in Lists /\ <<>> \in Lists
  BY CoreAt, CoreFields DEF no_available_timeslots, Lists
<1>2. out \in Lists
  BY <1>1, HeadAndTail, Appended DEF Lists
<1>3. left \in Lists
  BY <1>1, <1>2, Zenon
<1>4. Quiet(v, k) /\ v.todo = k.todo
  BY <1>1, <1>3, PutOut, Zenon
<1>5. core' = [core EXCEPT ![c] = next_edge(v)]
  BY Zenon DEF no_available_timeslots
<1>6. q_bin' = q_bin \/ q_bin' = [q_bin EXCEPT ![n] = Append(q_bin[n], out)]
  BY Zenon DEF no_available_timeslots
<1>7. UNCHANGED <<status, q_head, q_spent, latest, mislabelled, pending, resets>>
  BY Zenon DEF no_available_timeslots
<1> HIDE DEF k, out, full, left, v, n
<1>8. Quiet(next_edge(v), v)
  BY <1>1, <1>4, NextEdge, Zenon DEF Quiet, Steady
<1>9. Quiet(next_edge(v), core[c])
  BY <1>4, <1>8, Zenon DEF Quiet, Steady, k
<1>10. core' \in [Cores -> AdmissionCores] /\ Moves(c)
  BY <1>5, <1>7, <1>9, CoreChanged, Zenon
<1>11. q_bin' \in [Cores -> Seq(Lists)]
  <2>1. n \in Cores /\ q_bin[n] \in Seq(Lists)
    BY NextCore DEF SeqTypeOK, n
  <2>2. Append(q_bin[n], out) \in Seq(Lists)
    BY <1>2, <2>1, Appended
  <2>3. [q_bin EXCEPT ![n] = Append(q_bin[n], out)] \in [Cores -> Seq(Lists)]
    BY <2>1, <2>2, Rings, Zenon
  <2> QED BY <1>6, <2>3, Zenon DEF SeqTypeOK
<1> QED BY <1>7, <1>10, <1>11, Zenon DEF SeqTypeOK

LEMMA AllocationStep ==
  ASSUME SeqTypeOK, NEW c \in Cores, try_allocation(c)
  PROVE  SeqTypeOK' /\ Moves(c)
<1> DEFINE k == core[c]
           e == Head(k.todo)
           t == Min(avail_bitmap(k, e.flow))
           metric == (k.ahead + t) % TIME
           occupied == admit(k, e.flow, t)
           bins == [k.bins EXCEPT ![bin_after_alloc(t)] = Append(@, Edge(e.flow, e.backlog - 1, metric))]
           spent == Append(k.spent_bin, Edge(e.flow, 0, metric))
           full == Len(spent) = SMALL_BIN_SIZE
           left == IF full THEN <<>> ELSE spent
           u == put_back(occupied, bins)
           v == put_spent(occupied, left)
<1>0. k.todo # <<>> /\ avail_bitmap(k, e.flow) # {}
  BY Zenon DEF try_allocation
<1>1. k \in AdmissionCores /\ k.todo \in Lists /\ k.todo # <<>> /\ avail_bitmap(k, e.flow) # {} /\ <<>> \in Lists
  BY <1>0, CoreAt, CoreFields, ListFacts DEF Lists
<1>2. e \in Edges /\ e.flow \in Flows /\ e.backlog \in Nat
  BY <1>1, HeadAndTail, EdgeFields DEF Lists
<1>3. \/ core' = [core EXCEPT ![c] = next_edge(u)] /\ q_spent' = q_spent
      \/ core' = [core EXCEPT ![c] = next_edge(v)] /\ (q_spent' = Append(q_spent, spent) \/ q_spent' = q_spent)
  BY Zenon DEF try_allocation, put_back, put_spent
<1>4. UNCHANGED <<status, q_head, q_bin, latest, mislabelled, pending, resets>>
  BY Zenon DEF try_allocation
<1> HIDE DEF k, e
<1>5. t \in k.batch.src_endnodes[src(e.flow)] \cap k.batch.dst_endnodes[dst(e.flow)] /\ t \in Slots
  <2>1. k.batch.src_endnodes[src(e.flow)] \subseteq Slots
    <3>1. src(e.flow) \in Sources
      BY <1>2 DEF Sources
    <3> QED BY <1>1, <3>1, CoreFields, BatchFields
  <2>2. avail_bitmap(k, e.flow) \subseteq k.batch.src_endnodes[src(e.flow)] \cap k.batch.dst_endnodes[dst(e.flow)]
    BY Zenon DEF avail_bitmap
  <2>3. Slots \subseteq Nat
    BY Sizes DEF Slots
  <2>4. t \in avail_bitmap(k, e.flow)
    BY <1>1, <2>1, <2>2, <2>3, MinOfSome, Zenon
  <2> QED BY <2>1, <2>2, <2>4
<1> HIDE DEF t
<1>6. metric \in Metrics /\ bin_after_alloc(t) \in Bin
  <2>1. t \in Nat /\ t < BATCH_SIZE /\ k.ahead + t \in Int
    BY <1>1, <1>5, CoreFields, Sizes DEF Slots
  <2> QED BY <2>1, Wrapped, Sizes DEF bin_after_alloc, Bin
<1> HIDE DEF metric
<1>7. spent \in Lists /\ spent # <<>>
  <2>0. 0 \in Int
    OBVIOUS
  <2>1. k.spent_bin \in Seq(Edges) /\ Edge(e.flow, 0, metric) \in Edges
    BY <1>1, <1>2, <1>6, <2>0, CoreFields, EdgeFacts, Zenon DEF Lists
  <2> QED BY <2>1, Appended DEF Lists
<1>8. bins \in [Bin -> Lists]
  <2>1. e.backlog - 1 \in Int
    BY <1>2
  <2>2. k.bins \in [Bin -> Seq(Edges)] /\ Edge(e.flow, e.backlog - 1, metric) \in Edges
    BY <1>1, <1>2, <1>6, <2>1, CoreFields, EdgeFacts DEF Lists
  <2>3. \A s \in Seq(Edges) : Append(s, Edge(e.flow, e.backlog - 1, metric)) \in Seq(Edges)
    BY <2>2, Appended
  <2> QED BY <1>6, <2>2, <2>3 DEF Lists
<1> HIDE DEF bins, spent
<1>9. left \in Lists
  BY <1>1, <1>7, Zenon
<1> HIDE DEF left
<1>10. ASSUME NEW w, Given(w, k, e.flow, t), w.todo = k.todo PROVE Given(next_edge(w), k, e.flow, t)
  <2>1. w \in AdmissionCores /\ w.todo # <<>>
    BY <1>1, <1>10, Zenon DEF Given, Steady
  <2>2. Quiet(next_edge(w), w)
    BY <2>1, NextEdge, Zenon
  <2> QED BY <1>10, <2>2, Zenon DEF Given, Quiet, Steady
<1>11. \E w : Given(w, k, e.flow, t) /\ core' = [core EXCEPT ![c] = w]
  <2>1. CASE core' = [core EXCEPT ![c] = next_edge(u)]
    <3>0. k \in AdmissionCores /\ e.flow \in Flows /\ t \in Slots /\ bins \in [Bin -> Lists] /\ left \in Lists
      BY <1>1, <1>2, <1>5, <1>8, <1>9, Zenon
    <3>1. Given(u, k, e.flow, t) /\ u.todo = k.todo
      BY <3>0, GivenAgain, Zenon
    <3> HIDE DEF u
    <3> QED BY <1>10, <2>1, <3>1, Zenon
  <2>2. CASE core' = [core EXCEPT ![c] = next_edge(v)]
    <3>1. k \in AdmissionCores /\ e.flow \in Flows /\ t \in Slots /\ k.bins \in [Bin -> Lists] /\ left \in Lists
      BY <1>1, <1>2, <1>5, <1>9, CoreFields, Zenon
    <3>2. Given(v, k, e.flow, t) /\ v.todo = k.todo
      BY <3>1, GivenAgain, Zenon
    <3> HIDE DEF v
    <3> QED BY <1>10, <2>2, <3>2, Zenon
  <2> HIDE DEF u, v
  <2> QED BY <1>3, <2>1, <2>2, Zenon
<1>12. PICK w : Given(w, k, e.flow, t) /\ core' = [core EXCEPT ![c] = w]
  BY <1>11, Zenon
<1>13. w \in AdmissionCores
  BY <1>12, Zenon DEF Given, Steady
<1>14. core' \in [Cores -> AdmissionCores] /\ core'[c] = w /\ \A d \in Cores \ {c} : core'[d] = core[d]
  BY <1>12, <1>13 DEF SeqTypeOK
<1>15. Moves(c)
  BY <1>2, <1>4, <1>5, <1>12, <1>14, Zenon DEF Moves, k
<1>16. q_spent' \in Seq(Lists \ {<<>>})
  <2>1. spent \in Lists \ {<<>>} /\ q_spent \in Seq(Lists \ {<<>>})
    BY <1>7 DEF SeqTypeOK
  <2>2. Append(q_spent, spent) \in Seq(Lists \ {<<>>})
    BY <2>1, Appended
  <2> QED BY <1>3, <2>1, <2>2, Zenon
<1> QED BY <1>4, <1>14, <1>15, <1>16, Zenon DEF SeqTypeOK

LEMMA SlotsDue ==
  ASSUME NEW k \in AdmissionCores
  PROVE  /\ slots_due(k) \in 0 .. BATCH_SIZE
         /\ slots_due(k) = IF k.ahead > 0 THEN k.admitted_bins
                           ELSE IF BATCH_SIZE <= 1 - k.ahead THEN BATCH_SIZE ELSE 1 - k.ahead
<1>1. k.ahead \in Int /\ k.admitted_bins \in 0 .. BATCH_SIZE /\ 1 - k.ahead \in Int
  BY CoreFields
<1>2. Min({BATCH_SIZE, 1 - k.ahead}) = IF BATCH_SIZE <= 1 - k.ahead THEN BATCH_SIZE ELSE 1 - k.ahead
  BY <1>1, Sizes, MinOfTwo
<1> QED BY <1>1, <1>2, Sizes DEF slots_due

LEMMA SendOut ==
  ASSUME SeqTypeOK, NEW k \in AdmissionCores, send_out(k)
  PROVE  /\ latest' \in Int /\ mislabelled' \in BOOLEAN /\ pending' \in [Flows -> Int]
         /\ latest' = latest + (IF k.admitted_bins <= slots_due(k) THEN slots_due(k) - k.admitted_bins ELSE 0)
         /\ mislabelled' = TRUE => mislabelled = TRUE \/ (k.admitted_bins < slots_due(k) /\ latest + 1 # k.ahead + k.admitted_bins)
<1> DEFINE due == k.admitted_bins .. slots_due(k) - 1
           here(f) == {t \in due : f \in k.admitted[t]}
<1>1. k.admitted_bins \in Nat /\ slots_due(k) \in Nat /\ latest \in Int /\ k.ahead \in Int
  BY CoreFields, SlotsDue DEF SeqTypeOK
<1>2. IsFiniteSet(due) /\ Cardinality(due) = IF k.admitted_bins <= slots_due(k) THEN slots_due(k) - k.admitted_bins ELSE 0
  <2>1. slots_due(k) - 1 \in Int /\ k.admitted_bins \in Int
    BY <1>1
  <2>2. IsFiniteSet(due) /\ Cardinality(due) = IF k.admitted_bins > slots_due(k) - 1 THEN 0
                                               ELSE (slots_due(k) - 1) - k.admitted_bins + 1
    BY <2>1, FS_Interval
  <2> QED BY <1>1, <2>2
<1>3. due # {} => k.admitted_bins < slots_due(k)
  BY <1>1
<1> HIDE DEF due
<1>4. \A f \in Flows : Cardinality(here(f)) \in Nat
  <2>1. ASSUME NEW f \in Flows PROVE Cardinality(here(f)) \in Nat
    <3>1. here(f) \in SUBSET due
      OBVIOUS
    <3> HIDE DEF here
    <3>2. IsFiniteSet(here(f))
      BY <1>2, <3>1, FS_Subset, Zenon
    <3> QED BY <3>2, FS_CardinalityType, Zenon
  <2> QED BY <2>1
<1>5. pending' = [f \in Flows |-> pending[f] - Cardinality(here(f))]
  BY Zenon DEF send_out, due
<1> HIDE DEF here
<1>6. pending' \in [Flows -> Int]
  BY <1>4, <1>5 DEF SeqTypeOK
<1>7. latest' = latest + Cardinality(due)
  BY Zenon DEF send_out, due
<1>8. mislabelled' = (mislabelled \/ (due # {} /\ latest + 1 # k.ahead + k.admitted_bins))
  BY Zenon DEF send_out, due
<1>9. mislabelled \in BOOLEAN
  BY DEF SeqTypeOK
<1>10. mislabelled' \in BOOLEAN /\ (mislabelled' = TRUE => mislabelled = TRUE \/ (due # {} /\ latest + 1 # k.ahead + k.admitted_bins))
  BY <1>8, <1>9, Zenon
<1>11. latest' \in Int /\ latest' = latest + (IF k.admitted_bins <= slots_due(k) THEN slots_due(k) - k.admitted_bins ELSE 0)
  BY <1>1, <1>2, <1>7
<1> QED BY <1>3, <1>6, <1>10, <1>11, Zenon

LEMMA PollStep ==
  ASSUME SeqTypeOK, NEW c \in Cores, poll(c)
  PROVE  /\ SeqTypeOK' /\ send_out(core[c]) /\ slots_due(core[c]) < BATCH_SIZE
         /\ core'[c].ahead = core[c].ahead /\ core'[c].seen = TRUE /\ core'[c].admitted_bins = slots_due(core[c])
         /\ core'[c].batch = core[c].batch /\ core'[c].admitted = core[c].admitted
         /\ \A d \in Cores \ {c} : core'[d] = core[d]
<1> DEFINE k == core[c]
           b == k.ahead > 1 /\ k.ahead <= BATCH_SIZE
           p == bins_allowed(k)
           u == polled(k, b, slots_due(k), p)
<1>1. k \in AdmissionCores /\ k.ahead \in Int /\ k.processed_bins \in Int
  BY CoreAt, CoreFields
<1>2. core' = [core EXCEPT ![c] = u]
  BY Zenon DEF poll, polled
<1>3. send_out(k) /\ slots_due(k) < BATCH_SIZE /\ UNCHANGED <<status, q_head, q_spent, q_bin, resets>>
  BY Zenon DEF poll
<1>4. b \in BOOLEAN /\ slots_due(k) \in 0 .. BATCH_SIZE
  BY <1>1, SlotsDue
<1>5. p \in Int
  BY <1>1, Sizes DEF bins_allowed, TIMESLOTS_START_BEFORE
<1> HIDE DEF k, b, p
<1>6. /\ u \in AdmissionCores /\ u.ahead = k.ahead /\ u.seen = TRUE /\ u.admitted_bins = slots_due(k)
      /\ u.batch = k.batch /\ u.admitted = k.admitted
  <2>1. SeenUpTo(polled(k, b, slots_due(k), p), k, slots_due(k))
    BY <1>1, <1>4, <1>5, Polled
  <2> QED BY <2>1, Zenon DEF SeenUpTo
<1> HIDE DEF u
<1>7. core' \in [Cores -> AdmissionCores] /\ core'[c] = u /\ \A d \in Cores \ {c} : core'[d] = core[d]
  BY <1>2, <1>6 DEF SeqTypeOK
<1>8. latest' \in Int /\ mislabelled' \in BOOLEAN /\ pending' \in [Flows -> Int]
  BY <1>1, <1>3, SendOut, Zenon
<1>9. SeqTypeOK'
  BY <1>3, <1>7, <1>8, Zenon DEF SeqTypeOK
<1> QED BY <1>3, <1>6, <1>7, <1>9, Zenon DEF k

LEMMA WrapUpStep ==
  ASSUME SeqTypeOK, NEW c \in Cores, wrap_up(c)
  PROVE  /\ SeqTypeOK' /\ send_out(core[c]) /\ slots_due(core[c]) = BATCH_SIZE
         /\ core'[c].ahead = core[c].ahead + N_CORES * BATCH_SIZE /\ core'[c].seen = FALSE /\ core'[c].admitted_bins = 0
         /\ core'[c].batch = batch_state_init /\ core'[c].admitted = [t \in Slots |-> {}]
         /\ \A d \in Cores \ {c} : core'[d] = core[d]
<1> DEFINE k == core[c]
           all == [i \in 1 .. NUM_BINS + BATCH_SIZE |-> k.bins[i - 1]]
<1>1. k \in AdmissionCores /\ k.ahead \in Int /\ k.bins \in [Bin -> Lists] /\ k.out_bin \in Lists /\ k.spent_bin \in Lists
  BY CoreAt, CoreFields
<1>2. /\ core' = [core EXCEPT ![c] = core_reset(next_batch(k))]
      /\ q_bin' = pass_bins(c, chunks(left_over(k)))
      /\ send_out(k) /\ slots_due(k) = BATCH_SIZE /\ UNCHANGED <<status, q_head, resets>>
  BY Zenon DEF wrap_up
<1>3. q_spent' = q_spent \/ (k.spent_bin # <<>> /\ q_spent' = Append(q_spent, k.spent_bin))
  BY Zenon DEF wrap_up
<1> HIDE DEF k
<1>4. next_batch(k) \in Int /\ next_batch(k) = k.ahead + N_CORES * BATCH_SIZE
  BY <1>1, Sizes DEF next_batch
<1>5. left_over(k) \in Lists
  <2>1. NUM_BINS + BATCH_SIZE \in Nat /\ \A i \in 1 .. NUM_BINS + BATCH_SIZE : i - 1 \in Bin
    BY Sizes DEF Bin
  <2>2. all \in [1 .. NUM_BINS + BATCH_SIZE -> Lists]
    BY <1>1, <2>1
  <2> HIDE DEF all
  <2>3. all \in Seq(Lists)
    BY <2>1, <2>2, ListOf, Zenon
  <2>4. edges_of(all) \in Lists
    BY <2>3, EdgesOf, Zenon DEF Lists
  <2>5. left_over(k) = joined(k.out_bin, edges_of(all))
    BY Zenon DEF left_over, joined, all
  <2> QED BY <1>1, <2>4, <2>5, Joined, Zenon DEF Lists
<1>6. q_bin' \in [Cores -> Seq(Lists)]
  BY <1>2, <1>5, Chunks, PassBins, Zenon
<1>7. q_spent' \in Seq(Lists \ {<<>>})
  <2>1. q_spent \in Seq(Lists \ {<<>>})
    BY DEF SeqTypeOK
  <2>2. k.spent_bin # <<>> => Append(q_spent, k.spent_bin) \in Seq(Lists \ {<<>>})
    BY <1>1, <2>1, Appended
  <2> QED BY <1>3, <2>1, <2>2, Zenon
<1>8. core' \in [Cores -> AdmissionCores] /\ core'[c] = core_reset(next_batch(k)) /\ \A d \in Cores \ {c} : core'[d] = core[d]
  <2>1. core_reset(next_batch(k)) \in AdmissionCores
    BY <1>4, CoreReset, Zenon
  <2> QED BY <1>2, <2>1 DEF SeqTypeOK
<1>9. latest' \in Int /\ mislabelled' \in BOOLEAN /\ pending' \in [Flows -> Int]
  BY <1>1, <1>2, SendOut, Zenon
<1>10. SeqTypeOK'
  BY <1>2, <1>6, <1>7, <1>8, <1>9, Zenon DEF SeqTypeOK
<1>11. /\ core'[c].ahead = k.ahead + N_CORES * BATCH_SIZE /\ core'[c].seen = FALSE /\ core'[c].admitted_bins = 0
       /\ core'[c].batch = batch_state_init /\ core'[c].admitted = [t \in Slots |-> {}]
  <2> DEFINE n == next_batch(k)
             r == core_reset(n)
  <2>1. n \in Int /\ n = k.ahead + N_CORES * BATCH_SIZE /\ core'[c] = r
    BY <1>4, <1>8, Zenon
  <2> HIDE DEF n
  <2>2. /\ r.ahead = n /\ r.seen = FALSE /\ r.admitted_bins = 0
        /\ r.batch = batch_state_init /\ r.admitted = [t \in Slots |-> {}]
    BY <2>1, CoreReset, Zenon
  <2> HIDE DEF r
  <2> QED BY <2>1, <2>2, Zenon
<1> QED BY <1>2, <1>8, <1>10, <1>11, Zenon DEF k

LEMMA TickStep ==
  ASSUME SeqTypeOK, Tick
  PROVE  /\ SeqTypeOK' /\ latest' = latest - 1 /\ mislabelled' = mislabelled
         /\ \A c \in Cores : /\ core[c].seen = TRUE \/ core[c].ahead + LATE > 0
                            /\ core'[c].ahead = core[c].ahead - 1 /\ core'[c].seen = FALSE
                            /\ core'[c].admitted_bins = core[c].admitted_bins
                            /\ core'[c].batch = core[c].batch /\ core'[c].admitted = core[c].admitted
<1> DEFINE next(k) == [k EXCEPT !.ahead = @ - 1, !.seen = FALSE, !.bins = aged_ring(@), !.todo = aged_bin(@),
                                !.out_bin = aged_bin(@), !.spent_bin = aged_bin(@)]
           last == [f \in Flows |-> aged(status.last_alloc[f])]
           new == aged_bin(status.new_demands)
<1>1. status' \in Statuses
  <2>1. status \in Statuses
    BY DEF SeqTypeOK
  <2>2. last \in [Flows -> Metrics]
    BY <2>1, StatusFields, Aged
  <2>3. new \in Lists
    BY <2>1, StatusFields, AgedBin
  <2>4. status' = [status EXCEPT !.last_alloc = last, !.new_demands = new]
    BY Zenon DEF Tick
  <2> HIDE DEF last, new
  <2> QED BY <2>1, <2>2, <2>3, <2>4, Zenon DEF Statuses
<1>2. q_head' \in Seq(Lists)
  BY AgedRing, Zenon DEF SeqTypeOK, Tick
<1>3. q_spent' \in Seq(Lists \ {<<>>})
  <2>1. q_spent \in Seq(Lists)
    <3>1. Len(q_spent) \in Nat /\ q_spent \in [1 .. Len(q_spent) -> Lists \ {<<>>}]
      BY DEF SeqTypeOK
    <3>2. q_spent \in [1 .. Len(q_spent) -> Lists]
      BY <3>1
    <3> QED BY <3>1, <3>2, ListOf, Zenon
  <2> QED BY <2>1, AgedRing, Zenon DEF SeqTypeOK, Tick
<1>4. q_bin' \in [Cores -> Seq(Lists)]
  <2>1. \A c \in Cores : aged_ring(q_bin[c]) \in Seq(Lists)
    BY AgedRing DEF SeqTypeOK
  <2> QED BY <2>1, Zenon DEF Tick
<1>5. core' = [c \in Cores |-> next(core[c])]
  BY Zenon DEF Tick
<1>6. \A k \in AdmissionCores : /\ next(k) \in AdmissionCores /\ next(k).ahead = k.ahead - 1 /\ next(k).seen = FALSE
                               /\ next(k).admitted_bins = k.admitted_bins
                               /\ next(k).batch = k.batch /\ next(k).admitted = k.admitted
  BY AgedCore, Zenon
<1> HIDE DEF next
<1>7. core' \in [Cores -> AdmissionCores]
  BY <1>5, <1>6, CoreAt, Zenon
<1>8. \A c \in Cores : /\ core'[c].ahead = core[c].ahead - 1 /\ core'[c].seen = FALSE
                        /\ core'[c].admitted_bins = core[c].admitted_bins
                        /\ core'[c].batch = core[c].batch /\ core'[c].admitted = core[c].admitted
  BY <1>5, <1>6, CoreAt, Zenon
<1>9. latest' = latest - 1 /\ mislabelled' = mislabelled /\ pending' = pending /\ resets' = resets
  BY Zenon DEF Tick
<1>10. latest' \in Int
  BY <1>9 DEF SeqTypeOK
<1>11. \A c \in Cores : core[c].seen = TRUE \/ core[c].ahead + LATE > 0
  <2>1. \A c \in Cores : core[c].seen \in BOOLEAN
    BY CoreAt, CoreFields
  <2>2. \A c \in Cores : core[c].seen \/ core[c].ahead + LATE > 0
    BY Zenon DEF Tick
  <2> QED BY <2>1, <2>2, Zenon
<1>12. SeqTypeOK'
  BY <1>1, <1>2, <1>3, <1>4, <1>7, <1>9, <1>10, Zenon DEF SeqTypeOK
<1> QED BY <1>8, <1>9, <1>11, <1>12, Zenon

-----------------------------------------------------------------------------
(* Types.                                                                  *)

LEMMA InitType ==
  ASSUME Init
  PROVE  SeqTypeOK
<1>1. <<>> \in Seq(Lists) /\ <<>> \in Seq(Lists \ {<<>>}) /\ <<>> \in Lists
  BY DEF Lists
<1>2. status \in Statuses
  <2> DEFINE n == [f \in Flows |-> 0]
             a == [f \in Flows |-> FALSE]
             l == [f \in Flows |-> (START - NUM_BINS) % TIME]
  <2>1. START - NUM_BINS \in Int
    BY Sizes
  <2>2. (START - NUM_BINS) % TIME \in Metrics
    BY <2>1, Wrapped
  <2>3. n \in [Flows -> Nat] /\ a \in [Flows -> BOOLEAN] /\ l \in [Flows -> Metrics]
    BY <2>2
  <2>4. status = [n |-> n, is_active |-> a, last_alloc |-> l, new_demands |-> <<>>]
    BY Zenon DEF Init
  <2> HIDE DEF n, a, l
  <2> QED BY <1>1, <2>3, <2>4, Zenon DEF Statuses
<1>3. core \in [Cores -> AdmissionCores]
  <2>1. \A c \in Cores : START + c * BATCH_SIZE \in Int
    BY Sizes DEF Cores
  <2>2. \A c \in Cores : core_reset(START + c * BATCH_SIZE) \in AdmissionCores
    BY <2>1, CoreReset, Zenon
  <2> QED BY <2>2, Zenon DEF Init
<1>4. latest \in Int /\ mislabelled \in BOOLEAN /\ pending \in [Flows -> Int] /\ resets \in Nat
  <2>1. latest = START - 1 /\ mislabelled = FALSE /\ pending = [f \in Flows |-> 0] /\ resets = 0
    BY Zenon DEF Init
  <2>2. latest \in Int /\ resets \in Nat
    BY <2>1, Sizes
  <2>3. mislabelled \in BOOLEAN
    BY <2>1, Zenon
  <2>4. pending \in [Flows -> Int]
    BY <2>1
  <2> QED BY <2>2, <2>3, <2>4, Zenon
<1>5. q_bin \in [Cores -> Seq(Lists)]
  BY <1>1, Zenon DEF Init
<1> QED BY <1>1, <1>2, <1>3, <1>4, <1>5, Zenon DEF SeqTypeOK, Init

\* A step keeps the types, and is one of four kinds for the cores' batches.
LEMMA Kinds ==
  ASSUME SeqTypeOK, [Next]_vars
  PROVE  /\ SeqTypeOK'
         /\ \/ UNCHANGED <<core, latest, mislabelled>>
            \/ Tick
            \/ \E c \in Cores : poll(c) \/ wrap_up(c) \/ Moves(c)
<1>1. CASE UNCHANGED vars
  BY <1>1, Zenon DEF vars, SeqTypeOK
<1>2. CASE \E f \in Flows, amount \in 1 .. MAX_DEMAND : seq_add_backlog(f, amount)
  BY <1>2, AddBacklogType, Zenon DEF seq_add_backlog
<1>3. CASE seq_flush_backlog
  BY <1>3, FlushType, Zenon DEF seq_flush_backlog
<1>4. CASE seq_handle_spent
  BY <1>4, HandleSpentType, Zenon DEF seq_handle_spent
<1>5. CASE \E f \in Flows : seq_reset_sender(src(f))
  BY <1>5, ResetSenderType, Zenon DEF seq_reset_sender
<1>6. CASE Tick
  BY <1>6, TickStep, Zenon
<1>7. ASSUME NEW c \in Cores, admission_core(c)
      PROVE  SeqTypeOK' /\ (poll(c) \/ wrap_up(c) \/ Moves(c))
  <2>1. CASE poll(c)
    BY <2>1, PollStep, Zenon
  <2>2. CASE wrap_up(c)
    BY <2>2, WrapUpStep, Zenon
  <2>3. CASE pass_on(c)
    BY <2>3, PassOnStep, Zenon
  <2>4. CASE handle_inputs(c)
    BY <2>4, HandleInputsStep, Zenon
  <2>5. CASE take_bin(c)
    BY <2>5, TakeBinStep, Zenon
  <2>6. CASE no_available_timeslots(c)
    BY <2>6, NoTimeslotsStep, Zenon
  <2>7. CASE try_allocation(c)
    BY <2>7, AllocationStep, Zenon
  <2> QED BY <1>7, <2>1, <2>2, <2>3, <2>4, <2>5, <2>6, <2>7, Zenon DEF admission_core
<1> QED BY <1>1, <1>2, <1>3, <1>4, <1>5, <1>6, <1>7, Zenon DEF Next, comm_core

-----------------------------------------------------------------------------
(* The order of the batches.                                               *)

LEMMA TurnFacts ==
  ASSUME NEW first \in Cores, NEW c \in Cores
  PROVE  /\ turn(first, c) \in Nat /\ turn(first, first) = 0
         /\ BATCH_SIZE * turn(first, c) \in Nat
         /\ c # first => turn(first, c) >= 1 /\ BATCH_SIZE * turn(first, c) >= BATCH_SIZE
<1>1. turn(first, c) \in Nat /\ turn(first, first) = 0 /\ (c # first => turn(first, c) >= 1)
  BY Sizes DEF turn, Cores
<1> DEFINE n == turn(first, c)
<1> HIDE DEF n
<1>2. n \in Nat
  BY <1>1 DEF n
<1>3. BATCH_SIZE * n \in Nat /\ (n >= 1 => BATCH_SIZE * n >= BATCH_SIZE)
  <2>1. n = 0 \/ \E m \in Nat : n = m + 1
    <3>1. n # 0 => n - 1 \in Nat /\ n = (n - 1) + 1
      BY <1>2
    <3> QED BY <3>1
  <2>2. \A m \in Nat : BATCH_SIZE * m \in Nat /\ BATCH_SIZE * (m + 1) = BATCH_SIZE * m + BATCH_SIZE
    BY Sizes
  <2> QED BY <1>2, <2>1, <2>2, Sizes
<1> QED BY <1>1, <1>3 DEF n

LEMMA TurnNext ==
  ASSUME NEW first \in Cores, NEW c \in Cores
  PROVE  LET n == next_core(first)
         IN  /\ n \in Cores /\ n # first /\ turn(first, n) = 1
             /\ BATCH_SIZE * turn(n, c) = IF c = first THEN N_CORES * BATCH_SIZE - BATCH_SIZE
                                          ELSE BATCH_SIZE * turn(first, c) - BATCH_SIZE
<1> DEFINE n == next_core(first)
<1>1. n = IF first = N_CORES - 1 THEN 0 ELSE first + 1
  BY Sizes DEF next_core, Cores
<1> HIDE DEF n
<1>2. n \in Cores /\ n # first /\ turn(first, n) = 1
  BY <1>1, Sizes DEF Cores, turn
<1>3. turn(n, c) = IF c = first THEN N_CORES - 1 ELSE turn(first, c) - 1
  BY <1>1, Sizes DEF Cores, turn
<1>4. \A m \in Int : BATCH_SIZE * (m - 1) = BATCH_SIZE * m - BATCH_SIZE /\ BATCH_SIZE * m = m * BATCH_SIZE
  BY Sizes
<1>5. turn(first, c) \in Int /\ N_CORES \in Int
  BY TurnFacts, Sizes
<1>6. BATCH_SIZE * turn(n, c) = IF c = first THEN N_CORES * BATCH_SIZE - BATCH_SIZE
                               ELSE BATCH_SIZE * turn(first, c) - BATCH_SIZE
  BY <1>3, <1>4, <1>5
<1> QED BY <1>2, <1>6 DEF n

LEMMA OrderInit ==
  ASSUME Init
  PROVE  OrderInv
<1>1. /\ mislabelled = FALSE /\ latest = START - 1
      /\ \A c \in Cores : core[c] = core_reset(START + c * BATCH_SIZE)
  BY Zenon DEF Init
<1>2. \A c \in Cores : START + c * BATCH_SIZE \in Int
  BY Sizes DEF Cores
<1>3. \A c \in Cores : core[c].ahead = START + c * BATCH_SIZE /\ core[c].seen = FALSE /\ core[c].admitted_bins = 0
  <2>1. ASSUME NEW c \in Cores
        PROVE  core[c].ahead = START + c * BATCH_SIZE /\ core[c].seen = FALSE /\ core[c].admitted_bins = 0
    <3> DEFINE a == START + c * BATCH_SIZE
    <3>1. a \in Int /\ core[c] = core_reset(a)
      BY <1>1, <1>2, Zenon
    <3> HIDE DEF a
    <3>2. core_reset(a).ahead = a /\ core_reset(a).seen = FALSE /\ core_reset(a).admitted_bins = 0
      BY <3>1, CoreReset, Zenon
    <3> QED BY <3>1, <3>2, Zenon DEF a
  <2> QED BY <2>1, Zenon
<1>4. 0 \in Cores /\ core[0].ahead = START /\ \A c \in Cores : turn(0, c) = c /\ BATCH_SIZE * c = c * BATCH_SIZE
  BY <1>3, Sizes DEF Cores, turn
<1>5. InTurn(0)
  BY <1>1, <1>3, <1>4, Sizes DEF InTurn
<1> QED BY <1>1, <1>3, <1>4, <1>5, Zenon DEF OrderInv

\* What OrderInv says of the cores is kept when these fields are.
LEMMA OrderKept ==
  ASSUME OrderInv, UNCHANGED <<latest, mislabelled>>,
         \A c \in Cores : /\ core'[c].ahead = core[c].ahead /\ core'[c].seen = core[c].seen
                         /\ core'[c].admitted_bins = core[c].admitted_bins
  PROVE  OrderInv'
<1>1. PICK first \in Cores : InTurn(first)
  BY DEF OrderInv
<1>2. InTurn(first)'
  BY <1>1, Zenon DEF InTurn
<1> QED BY <1>2, Zenon DEF OrderInv

LEMMA OrderMoves ==
  ASSUME OrderInv, NEW c \in Cores, Moves(c)
  PROVE  OrderInv'
<1>1. /\ core'[c].ahead = core[c].ahead /\ core'[c].seen = core[c].seen
      /\ core'[c].admitted_bins = core[c].admitted_bins
  BY Zenon DEF Moves, Quiet, Given, Steady
<1>2. \A d \in Cores : /\ core'[d].ahead = core[d].ahead /\ core'[d].seen = core[d].seen
                        /\ core'[d].admitted_bins = core[d].admitted_bins
  BY <1>1, Zenon DEF Moves
<1> QED BY <1>2, OrderKept, Zenon DEF Moves

\* The numbers that OrderInv compares
LEMMA OrderTypes ==
  ASSUME SeqTypeOK
  PROVE  /\ latest \in Int
         /\ \A c \in Cores : core[c].ahead \in Int /\ core[c].seen \in BOOLEAN /\ core[c].admitted_bins \in 0 .. BATCH_SIZE
  BY CoreAt, CoreFields DEF SeqTypeOK

\* The cores whose turn it is not have timeslots to come only.
LEMMA Waiting ==
  ASSUME SeqTypeOK, NEW first \in Cores, InTurn(first), NEW c \in Cores \ {first}
  PROVE  core[c].ahead > 0 /\ core[c].admitted_bins = 0 /\ slots_due(core[c]) = 0
<1>1. core[c].ahead \in Int /\ core[first].ahead \in Int /\ core[c] \in AdmissionCores
  BY OrderTypes, CoreAt
<1>2. core[c].ahead = core[first].ahead + BATCH_SIZE * turn(first, c) /\ core[c].admitted_bins = 0 /\ core[first].ahead > -BATCH_SIZE
  BY Zenon DEF InTurn
<1>3. BATCH_SIZE * turn(first, c) \in Nat /\ BATCH_SIZE * turn(first, c) >= BATCH_SIZE
  BY TurnFacts
<1>4. core[c].ahead > 0
  BY <1>1, <1>2, <1>3, Sizes
<1> QED BY <1>1, <1>2, <1>4, SlotsDue

LEMMA OrderTick ==
  ASSUME SeqTypeOK, OrderInv, LATE < BATCH_SIZE, Tick
  PROVE  OrderInv'
<1>1. PICK first \in Cores : InTurn(first)
  BY DEF OrderInv
<1>2. /\ latest' = latest - 1 /\ mislabelled' = mislabelled
      /\ \A c \in Cores : /\ core[c].seen = TRUE \/ core[c].ahead + LATE > 0
                         /\ core'[c].ahead = core[c].ahead - 1 /\ core'[c].seen = FALSE
                         /\ core'[c].admitted_bins = core[c].admitted_bins
  BY TickStep, Zenon
<1>3. /\ latest \in Int
      /\ \A c \in Cores : core[c].ahead \in Int /\ core[c].admitted_bins \in Nat
  BY OrderTypes
<1>4. /\ latest + 1 = core[first].ahead + core[first].admitted_bins
      /\ core[first].ahead > -BATCH_SIZE
      /\ core[first].admitted_bins <= IF core[first].ahead > 0 THEN 0 ELSE 1 - core[first].ahead
      /\ \A c \in Cores : core[c].ahead = core[first].ahead + BATCH_SIZE * turn(first, c)
      /\ \A c \in Cores \ {first} : core[c].admitted_bins = 0
  BY <1>1, Zenon DEF InTurn
<1>5. core[first].seen = TRUE => core[first].ahead > 1 - BATCH_SIZE
  BY DEF OrderInv
<1>6. core'[first].ahead > -BATCH_SIZE
  BY <1>2, <1>3, <1>5, Sizes
<1>7. latest' + 1 = core'[first].ahead + core'[first].admitted_bins
  BY <1>2, <1>3, <1>4
<1>8. core'[first].admitted_bins <= IF core'[first].ahead > 0 THEN 0 ELSE 1 - core'[first].ahead
  BY <1>2, <1>3, <1>4
<1>9. \A c \in Cores : core'[c].ahead = core'[first].ahead + BATCH_SIZE * turn(first, c)
  <2>1. \A c \in Cores : BATCH_SIZE * turn(first, c) \in Nat
    BY TurnFacts
  <2> QED BY <1>2, <1>3, <1>4, <2>1
<1>10. InTurn(first)'
  BY <1>2, <1>4, <1>6, <1>7, <1>8, <1>9, Zenon DEF InTurn
<1> QED BY <1>2, <1>10, Zenon DEF OrderInv

LEMMA OrderPoll ==
  ASSUME SeqTypeOK, OrderInv, NEW c \in Cores, poll(c)
  PROVE  OrderInv'
<1> DEFINE k == core[c]
           due == slots_due(core[c])
<1>1. PICK first \in Cores : InTurn(first)
  BY DEF OrderInv
<1>2. /\ send_out(k) /\ due < BATCH_SIZE
      /\ core'[c].ahead = k.ahead /\ core'[c].seen = TRUE /\ core'[c].admitted_bins = due
      /\ \A d \in Cores \ {c} : core'[d] = core[d]
  BY PollStep, Zenon
<1>3. /\ latest' = latest + (IF k.admitted_bins <= due THEN due - k.admitted_bins ELSE 0)
      /\ mislabelled' \in BOOLEAN
      /\ mislabelled' = TRUE => mislabelled = TRUE \/ (k.admitted_bins < due /\ latest + 1 # k.ahead + k.admitted_bins)
  BY <1>2, CoreAt, SendOut, Zenon
<1>4. latest \in Int /\ k.ahead \in Int /\ k.admitted_bins \in Nat /\ due \in Nat
  BY OrderTypes, CoreAt, SlotsDue
<1>5. due = IF k.ahead > 0 THEN k.admitted_bins ELSE IF BATCH_SIZE <= 1 - k.ahead THEN BATCH_SIZE ELSE 1 - k.ahead
  BY CoreAt, SlotsDue
<1>6. mislabelled = FALSE /\ \A d \in Cores : core[d].seen = TRUE => core[d].ahead > 1 - BATCH_SIZE
  BY Zenon DEF OrderInv
<1>7. \A d \in Cores : core'[d].seen = TRUE => core'[d].ahead > 1 - BATCH_SIZE
  <2>1. k.ahead > 1 - BATCH_SIZE
    BY <1>2, <1>4, <1>5, Sizes
  <2> QED BY <1>2, <1>6, <2>1, Zenon
<1>8. /\ latest + 1 = core[first].ahead + core[first].admitted_bins
      /\ core[first].ahead > -BATCH_SIZE
      /\ core[first].admitted_bins <= IF core[first].ahead > 0 THEN 0 ELSE 1 - core[first].ahead
      /\ \A d \in Cores : core[d].ahead = core[first].ahead + BATCH_SIZE * turn(first, d)
      /\ \A d \in Cores \ {first} : core[d].admitted_bins = 0
  BY <1>1, Zenon DEF InTurn
<1>9. \A d \in Cores : core'[d].ahead = core[d].ahead
  BY <1>2, Zenon
<1>10. CASE c = first
  <2>1. mislabelled' = FALSE
    BY <1>3, <1>6, <1>8, <1>10
  <2>2. k.admitted_bins <= due
    BY <1>2, <1>4, <1>5, <1>8, <1>10, SMTT(30)
  <2>3. latest' + 1 = core'[first].ahead + core'[first].admitted_bins
    BY <1>2, <1>3, <1>4, <1>8, <1>10, <2>2, SMTT(30)
  <2>4. core'[first].admitted_bins <= IF core'[first].ahead > 0 THEN 0 ELSE 1 - core'[first].ahead
    BY <1>2, <1>4, <1>5, <1>8, <1>10, SMTT(30)
  <2>5. \A d \in Cores \ {first} : core'[d].admitted_bins = 0
    BY <1>2, <1>8, <1>10, Zenon
  <2>6. InTurn(first)'
    BY <1>8, <1>9, <2>3, <2>4, <2>5, Zenon DEF InTurn
  <2> QED BY <1>7, <2>1, <2>6, Zenon DEF OrderInv
<1>11. CASE c # first
  <2>1. k.admitted_bins = 0 /\ due = 0
    BY <1>1, <1>11, Waiting
  <2>2. latest' = latest /\ mislabelled' = FALSE
    BY <1>3, <1>4, <1>6, <2>1
  <2>3. core'[first] = core[first] /\ \A d \in Cores \ {first} : core'[d].admitted_bins = 0
    BY <1>2, <1>8, <1>11, <2>1, Zenon
  <2>4. InTurn(first)'
    BY <1>8, <1>9, <2>2, <2>3, Zenon DEF InTurn
  <2> QED BY <1>7, <2>2, <2>4, Zenon DEF OrderInv
<1> QED BY <1>10, <1>11

LEMMA OrderWrapUp ==
  ASSUME SeqTypeOK, OrderInv, NEW c \in Cores, wrap_up(c)
  PROVE  OrderInv'
<1> DEFINE k == core[c]
           due == slots_due(core[c])
           n == next_core(c)
<1>1. PICK first \in Cores : InTurn(first)
  BY DEF OrderInv
<1>2. /\ send_out(k) /\ due = BATCH_SIZE
      /\ core'[c].ahead = k.ahead + N_CORES * BATCH_SIZE /\ core'[c].seen = FALSE /\ core'[c].admitted_bins = 0
      /\ \A d \in Cores \ {c} : core'[d] = core[d]
  BY WrapUpStep, Zenon
<1>3. c = first
  <2>1. ASSUME c # first PROVE due = 0
    BY <1>1, <2>1, Waiting
  <2> QED BY <1>2, <2>1, Sizes
<1>4. /\ latest' = latest + (IF k.admitted_bins <= due THEN due - k.admitted_bins ELSE 0)
      /\ mislabelled' \in BOOLEAN
      /\ mislabelled' = TRUE => mislabelled = TRUE \/ (k.admitted_bins < due /\ latest + 1 # k.ahead + k.admitted_bins)
  BY <1>2, CoreAt, SendOut, Zenon
<1>5. latest \in Int /\ k.ahead \in Int /\ k.admitted_bins \in 0 .. BATCH_SIZE
  BY OrderTypes
<1>6. mislabelled = FALSE /\ \A d \in Cores : core[d].seen = TRUE => core[d].ahead > 1 - BATCH_SIZE
  BY Zenon DEF OrderInv
<1>7. /\ latest + 1 = k.ahead + k.admitted_bins
      /\ k.ahead > -BATCH_SIZE
      /\ \A d \in Cores : core[d].ahead = k.ahead + BATCH_SIZE * turn(c, d)
      /\ \A d \in Cores \ {c} : core[d].admitted_bins = 0
  BY <1>1, <1>3, Zenon DEF InTurn
<1>8. mislabelled' = FALSE
  BY <1>4, <1>6, <1>7
<1>9. latest' + 1 = k.ahead + BATCH_SIZE
  BY <1>2, <1>4, <1>5, <1>7, Sizes
<1>10. n \in Cores /\ n # c /\ turn(c, n) = 1
  BY TurnNext
<1>11. core'[n] = core[n] /\ core[n].ahead = k.ahead + BATCH_SIZE /\ core[n].admitted_bins = 0
  <2>1. core[n].ahead = k.ahead + BATCH_SIZE * 1
    BY <1>7, <1>10, Zenon
  <2>2. BATCH_SIZE * 1 = BATCH_SIZE
    BY Sizes
  <2> QED BY <1>2, <1>7, <1>10, <2>1, <2>2, Zenon
<1>12. \A d \in Cores : core'[d].ahead = core'[n].ahead + BATCH_SIZE * turn(n, d)
  <2>1. ASSUME NEW d \in Cores PROVE core'[d].ahead = core'[n].ahead + BATCH_SIZE * turn(n, d)
    <3>1. BATCH_SIZE * turn(n, d) = IF d = c THEN N_CORES * BATCH_SIZE - BATCH_SIZE ELSE BATCH_SIZE * turn(c, d) - BATCH_SIZE
      BY TurnNext
    <3>2. BATCH_SIZE * turn(c, d) \in Nat /\ N_CORES * BATCH_SIZE \in Int
      BY TurnFacts, Sizes
    <3>3. core'[d].ahead = IF d = c THEN k.ahead + N_CORES * BATCH_SIZE ELSE k.ahead + BATCH_SIZE * turn(c, d)
      BY <1>2, <1>7
    <3> HIDE DEF n, k
    <3> QED BY <1>5, <1>11, <3>1, <3>2, <3>3, Sizes
  <2> QED BY <2>1
<1>13. \A d \in Cores \ {n} : core'[d].admitted_bins = 0
  BY <1>2, <1>7, Zenon
<1>14. \A d \in Cores : core'[d].seen = TRUE => core'[d].ahead > 1 - BATCH_SIZE
  BY <1>2, <1>6, Zenon
<1>15. core'[n].ahead > -BATCH_SIZE /\ 0 <= IF core'[n].ahead > 0 THEN 0 ELSE 1 - core'[n].ahead
  BY <1>5, <1>7, <1>11, Sizes
<1>16. latest' + 1 = core'[n].ahead + core'[n].admitted_bins
  BY <1>5, <1>9, <1>11, Sizes
<1>17. InTurn(n)'
  BY <1>11, <1>12, <1>13, <1>15, <1>16, Zenon DEF InTurn
<1> QED BY <1>8, <1>10, <1>14, <1>17, Zenon DEF OrderInv

\* The inductive invariant of the order in which the batches of admissible_traffic.c are sent out: the cores take turns,
\* the one whose turn it is has sent exactly what comm_core has counted, and the others wait for timeslots to come.  It
\* holds if no core is as late as a batch is long.
THEOREM OrderInductive ==
  ASSUME LATE < BATCH_SIZE
  PROVE  Spec => [](SeqTypeOK /\ OrderInv)
<1>1. Init => SeqTypeOK /\ OrderInv
  BY InitType, OrderInit, Zenon
<1>2. SeqTypeOK /\ OrderInv /\ [Next]_vars => (SeqTypeOK /\ OrderInv)'
  <2> SUFFICES ASSUME SeqTypeOK, OrderInv, [Next]_vars PROVE SeqTypeOK' /\ OrderInv'
    BY Zenon
  <2>1. SeqTypeOK'
    BY Kinds, Zenon
  <2>2. ASSUME UNCHANGED <<core, latest, mislabelled>> PROVE OrderInv'
    BY <2>2, OrderKept, Zenon
  <2>3. ASSUME Tick PROVE OrderInv'
    BY <2>3, OrderTick, Zenon
  <2>4. ASSUME NEW c \in Cores, poll(c) PROVE OrderInv'
    BY <2>4, OrderPoll, Zenon
  <2>5. ASSUME NEW c \in Cores, wrap_up(c) PROVE OrderInv'
    BY <2>5, OrderWrapUp, Zenon
  <2>6. ASSUME NEW c \in Cores, Moves(c) PROVE OrderInv'
    BY <2>6, OrderMoves, Zenon
  <2> QED BY <2>1, <2>2, <2>3, <2>4, <2>5, <2>6, Kinds, Zenon
<1> QED BY <1>1, <1>2, PTL DEF Spec

\* comm_core, which only counts what it takes from q_admitted_out, gives each timeslot its own number (handle_admitted):
\* the batches of any number of cores are put into the ring in the order of the timeslots, if no core is as late in its
\* own batch as a batch is long.
THEOREM BatchesInOrder ==
  ASSUME LATE < BATCH_SIZE
  PROVE  Spec => []InOrder
<1>1. SeqTypeOK /\ OrderInv => InOrder
  BY Zenon DEF OrderInv, InOrder
<1> QED BY <1>1, OrderInductive, PTL

-----------------------------------------------------------------------------
(* Who is given a timeslot.                                                *)

LEMMA SourceGiven ==
  ASSUME NEW k \in AdmissionCores, SourceOnce(k), NEW u, NEW f \in Flows, NEW t \in Slots,
         t \in k.batch.src_endnodes[src(f)], Given(u, k, f, t)
  PROVE  SourceOnce(u)
<1> DEFINE old == k.batch.src_endnodes
           now == u.batch.src_endnodes
<1>1. \A g \in Flows : src(g) \in Sources
  BY DEF Sources
<1>2. old \in [Sources -> SUBSET Slots] /\ k.admitted \in [Slots -> SUBSET Flows] /\ k.batch \in Batches
  BY CoreFields, BatchFields
<1>3. now = src_after(k.batch, f, t)
  <2>1. set_occupied(k.batch, f, t).src_endnodes = src_after(k.batch, f, t)
    BY <1>2, Occupied
  <2> QED BY <2>1, Zenon DEF Given
<1>4. u.admitted = [k.admitted EXCEPT ![t] = @ \cup {f}]
  BY Zenon DEF Given
<1> HIDE DEF old, now
<1>5. t \notin now[src(f)] /\ \A s \in Sources : now[s] \subseteq old[s]
  <2>1. src_after(k.batch, f, t) = [old EXCEPT ![src(f)] = @ \ {t}]
    BY Zenon DEF src_after, old
  <2> QED BY <1>1, <1>2, <1>3, <2>1
<1>6. /\ \A x \in Slots \ {t} : u.admitted[x] = k.admitted[x]
      /\ u.admitted[t] = k.admitted[t] \cup {f}
  BY <1>2, <1>4
<1>7. \A x \in Slots : \A g \in k.admitted[x] :
        /\ g \in Flows /\ x \notin old[src(g)]
        /\ \A h \in k.admitted[x] : src(h) = src(g) => h = g
  BY <1>2 DEF SourceOnce, old
<1>8. \A x \in Slots : \A g \in k.admitted[x] : x \notin now[src(g)]
  BY <1>1, <1>5, <1>7
<1>9. t \in old[src(f)]
  BY DEF old
<1>10. ASSUME NEW x \in Slots, NEW g \in u.admitted[x]
       PROVE  x \notin now[src(g)] /\ \A h \in u.admitted[x] : src(h) = src(g) => h = g
  <2>1. CASE x # t
    <3>1. u.admitted[x] = k.admitted[x]
      BY <1>6, <2>1
    <3> QED BY <1>7, <1>8, <1>10, <3>1, Zenon
  <2>2. CASE x = t
    <3>1. \A h \in k.admitted[t] : src(h) # src(f)
      BY <1>7, <1>9, Zenon
    <3> QED BY <1>5, <1>6, <1>7, <1>8, <1>10, <2>2, <3>1
  <2> QED BY <2>1, <2>2
<1> QED BY <1>10, Zenon DEF SourceOnce, now

LEMMA DestinationGiven ==
  ASSUME NEW k \in AdmissionCores, DestinationOnce(k), NEW u, NEW f \in Flows, NEW t \in Slots,
         dst(f) # OUT_OF_BOUNDARY, t \in k.batch.dst_endnodes[dst(f)], Given(u, k, f, t)
  PROVE  DestinationOnce(u)
<1> DEFINE old == k.batch.dst_endnodes
           now == u.batch.dst_endnodes
<1>1. \A g \in Flows : dst(g) \in Destinations
  BY DEF Destinations
<1>2. old \in [Destinations -> SUBSET Slots] /\ k.admitted \in [Slots -> SUBSET Flows] /\ k.batch \in Batches
  BY CoreFields, BatchFields
<1>3. \A x \in Slots : k.batch.out_of_boundary_counts[x] = 0
  BY Zenon DEF DestinationOnce
<1>4. /\ now = dst_taken(k.batch, f, t)
      /\ u.batch.out_of_boundary_counts = k.batch.out_of_boundary_counts
      /\ u.admitted = [k.admitted EXCEPT ![t] = @ \cup {f}]
  <2>1. /\ set_occupied(k.batch, f, t).dst_endnodes = dst_taken(k.batch, f, t)
        /\ set_occupied(k.batch, f, t).out_of_boundary_counts = k.batch.out_of_boundary_counts
    BY <1>2, <1>3, Occupied
  <2> QED BY <2>1, Zenon DEF Given
<1> HIDE DEF old, now
<1>5. t \notin now[dst(f)] /\ \A s \in Destinations : now[s] \subseteq old[s]
  <2>1. dst_taken(k.batch, f, t) = [old EXCEPT ![dst(f)] = @ \ {t}]
    BY Zenon DEF dst_taken, old
  <2> QED BY <1>1, <1>2, <1>4, <2>1
<1>6. /\ \A x \in Slots \ {t} : u.admitted[x] = k.admitted[x]
      /\ u.admitted[t] = k.admitted[t] \cup {f}
  BY <1>2, <1>4
<1>7. \A x \in Slots : \A g \in k.admitted[x] :
        /\ g \in Flows /\ x \notin old[dst(g)]
        /\ \A h \in k.admitted[x] : dst(h) = dst(g) => h = g
  BY <1>2 DEF DestinationOnce, old
<1>8. \A x \in Slots : \A g \in k.admitted[x] : x \notin now[dst(g)]
  BY <1>1, <1>5, <1>7
<1>9. t \in old[dst(f)]
  BY DEF old
<1>10. ASSUME NEW x \in Slots, NEW g \in u.admitted[x]
       PROVE  x \notin now[dst(g)] /\ \A h \in u.admitted[x] : dst(h) = dst(g) => h = g
  <2>1. CASE x # t
    <3>1. u.admitted[x] = k.admitted[x]
      BY <1>6, <2>1
    <3> QED BY <1>7, <1>8, <1>10, <3>1, Zenon
  <2>2. CASE x = t
    <3>1. \A h \in k.admitted[t] : dst(h) # dst(f)
      BY <1>7, <1>9, Zenon
    <3> QED BY <1>5, <1>6, <1>7, <1>8, <1>10, <2>2, <3>1
  <2> QED BY <2>1, <2>2
<1> QED BY <1>3, <1>4, <1>10, Zenon DEF DestinationOnce, now

MatchInv == \A c \in Cores : SourceOnce(core[c])

InsideInv == \A c \in Cores : DestinationOnce(core[c])

\* Only the batch and what is admitted matter to them.
LEMMA OnceKept ==
  ASSUME NEW u, NEW k, u.batch = k.batch, u.admitted = k.admitted
  PROVE  (SourceOnce(k) => SourceOnce(u)) /\ (DestinationOnce(k) => DestinationOnce(u))
  BY Zenon DEF SourceOnce, DestinationOnce

LEMMA OnceReset ==
  ASSUME NEW u, u.batch = batch_state_init, u.admitted = [t \in Slots |-> {}]
  PROVE  SourceOnce(u) /\ (OUT_OF_BOUNDARY_CAPACITY = 0 => DestinationOnce(u))
<1>1. \A t \in Slots : u.admitted[t] = {}
  OBVIOUS
<1>2. \A t \in Slots : u.batch.out_of_boundary_counts[t] = OUT_OF_BOUNDARY_CAPACITY
  BY EmptyBatch, Zenon
<1> QED BY <1>1, <1>2, Zenon DEF SourceOnce, DestinationOnce

LEMMA OnceInit ==
  ASSUME Init
  PROVE  MatchInv /\ (OUT_OF_BOUNDARY_CAPACITY = 0 => InsideInv)
<1>1. ASSUME NEW c \in Cores
      PROVE  SourceOnce(core[c]) /\ (OUT_OF_BOUNDARY_CAPACITY = 0 => DestinationOnce(core[c]))
  <2> DEFINE a == START + c * BATCH_SIZE
  <2>1. a \in Int
    BY Sizes DEF Cores
  <2>2. core[c] = core_reset(a)
    BY Zenon DEF Init
  <2> HIDE DEF a
  <2>3. core[c].batch = batch_state_init /\ core[c].admitted = [t \in Slots |-> {}]
    BY <2>1, <2>2, CoreReset, Zenon
  <2> QED BY <2>3, OnceReset, Zenon
<1> QED BY <1>1, Zenon DEF MatchInv, InsideInv

\* A core's batch and what it admitted change in an allocation and with the next batch only.
LEMMA OnceKinds ==
  ASSUME SeqTypeOK, [Next]_vars, NEW c \in Cores
  PROVE  \/ core'[c].batch = core[c].batch /\ core'[c].admitted = core[c].admitted
         \/ core'[c].batch = batch_state_init /\ core'[c].admitted = [t \in Slots |-> {}]
         \/ \E f \in Flows : \E t \in core[c].batch.src_endnodes[src(f)] \cap core[c].batch.dst_endnodes[dst(f)] :
              Given(core'[c], core[c], f, t)
<1> DEFINE Goal == \/ core'[c].batch = core[c].batch /\ core'[c].admitted = core[c].admitted
                   \/ core'[c].batch = batch_state_init /\ core'[c].admitted = [t \in Slots |-> {}]
                   \/ \E f \in Flows : \E t \in core[c].batch.src_endnodes[src(f)] \cap core[c].batch.dst_endnodes[dst(f)] :
                        Given(core'[c], core[c], f, t)
<1>1. ASSUME UNCHANGED core PROVE Goal
  BY <1>1, Zenon
<1>2. ASSUME Tick PROVE Goal
  BY <1>2, TickStep, Zenon
<1>3. ASSUME NEW d \in Cores, poll(d) PROVE Goal
  BY <1>3, PollStep, Zenon
<1>4. ASSUME NEW d \in Cores, wrap_up(d) PROVE Goal
  <2>1. CASE c = d
    BY <1>4, <2>1, WrapUpStep, Zenon
  <2>2. CASE c # d
    BY <1>4, <2>2, WrapUpStep, Zenon
  <2> QED BY <2>1, <2>2
<1>5. ASSUME NEW d \in Cores, Moves(d) PROVE Goal
  BY <1>5, Zenon DEF Moves, Quiet
<1> HIDE DEF Goal
<1>6. Goal
  BY <1>1, <1>2, <1>3, <1>4, <1>5, Kinds, Zenon
<1> QED BY <1>6, Zenon DEF Goal

LEMMA SlotOfSource ==
  ASSUME SeqTypeOK, NEW c \in Cores, NEW f \in Flows, NEW t \in core[c].batch.src_endnodes[src(f)]
  PROVE  t \in Slots
<1>1. src(f) \in Sources
  BY DEF Sources
<1>2. core[c].batch.src_endnodes \in [Sources -> SUBSET Slots]
  BY CoreAt, CoreFields, BatchFields
<1> QED BY <1>1, <1>2

\* The inductive invariant of the batch state (batch.h): a timeslot in which a source is to send is no longer available
\* to it, whatever the capacity of the boundary.
THEOREM SourcesInductive == Spec => [](SeqTypeOK /\ MatchInv)
<1>1. Init => SeqTypeOK /\ MatchInv
  BY InitType, OnceInit, Zenon
<1>2. SeqTypeOK /\ MatchInv /\ [Next]_vars => (SeqTypeOK /\ MatchInv)'
  <2> SUFFICES ASSUME SeqTypeOK, MatchInv, [Next]_vars PROVE SeqTypeOK' /\ MatchInv'
    BY Zenon
  <2>1. SeqTypeOK'
    BY Kinds, Zenon
  <2>2. ASSUME NEW c \in Cores PROVE SourceOnce(core'[c])
    <3>1. core[c] \in AdmissionCores /\ SourceOnce(core[c])
      BY CoreAt, Zenon DEF MatchInv
    <3>2. ASSUME core'[c].batch = core[c].batch, core'[c].admitted = core[c].admitted PROVE SourceOnce(core'[c])
      BY <3>1, <3>2, OnceKept, Zenon
    <3>3. ASSUME core'[c].batch = batch_state_init, core'[c].admitted = [t \in Slots |-> {}] PROVE SourceOnce(core'[c])
      BY <3>3, OnceReset, Zenon
    <3>4. ASSUME NEW f \in Flows, NEW t \in core[c].batch.src_endnodes[src(f)] \cap core[c].batch.dst_endnodes[dst(f)],
                 Given(core'[c], core[c], f, t)
          PROVE  SourceOnce(core'[c])
      <4>1. t \in core[c].batch.src_endnodes[src(f)] /\ t \in Slots
        BY SlotOfSource, Zenon
      <4> QED BY <3>1, <3>4, <4>1, SourceGiven, Zenon
    <3> QED BY <3>2, <3>3, <3>4, OnceKinds, Zenon
  <2> QED BY <2>1, <2>2, Zenon DEF MatchInv, SourceOnce
<1> QED BY <1>1, <1>2, PTL DEF Spec

\* No core of admissible_traffic.c tells a source to send two packets in one timeslot, for every capacity of the boundary,
\* with which the matching of the destinations does not hold.
THEOREM SourcesSendOnce ==
  Spec => [](\A c \in Cores, t \in Slots : \A f, g \in core[c].admitted[t] : src(f) = src(g) => f = g)
<1>1. SeqTypeOK /\ MatchInv =>
        \A c \in Cores, t \in Slots : \A f, g \in core[c].admitted[t] : src(f) = src(g) => f = g
  BY Zenon DEF MatchInv, SourceOnce
<1> QED BY <1>1, SourcesInductive, PTL

\* Without flows out of the boundary, and with its capacity 0 as benchmark_graph_algo.c sets it, what the cores of
\* admissible_traffic.c admit in a timeslot is a matching of the sources and the destinations.
THEOREM InsideMatching ==
  ASSUME OUT_OF_BOUNDARY_CAPACITY = 0, \A f \in Flows : dst(f) # OUT_OF_BOUNDARY
  PROVE  Spec => []NodeOnce
<1>1. Init => SeqTypeOK /\ InsideInv
  BY InitType, OnceInit, Zenon
<1>2. SeqTypeOK /\ InsideInv /\ [Next]_vars => (SeqTypeOK /\ InsideInv)'
  <2> SUFFICES ASSUME SeqTypeOK, InsideInv, [Next]_vars PROVE SeqTypeOK' /\ InsideInv'
    BY Zenon
  <2>1. SeqTypeOK'
    BY Kinds, Zenon
  <2>2. ASSUME NEW c \in Cores PROVE DestinationOnce(core'[c])
    <3>1. core[c] \in AdmissionCores /\ DestinationOnce(core[c])
      BY CoreAt, Zenon DEF InsideInv
    <3>2. ASSUME core'[c].batch = core[c].batch, core'[c].admitted = core[c].admitted PROVE DestinationOnce(core'[c])
      BY <3>1, <3>2, OnceKept, Zenon
    <3>3. ASSUME core'[c].batch = batch_state_init, core'[c].admitted = [t \in Slots |-> {}] PROVE DestinationOnce(core'[c])
      BY <3>3, OnceReset, Zenon
    <3>4. ASSUME NEW f \in Flows, NEW t \in core[c].batch.src_endnodes[src(f)] \cap core[c].batch.dst_endnodes[dst(f)],
                 Given(core'[c], core[c], f, t)
          PROVE  DestinationOnce(core'[c])
      <4>1. t \in core[c].batch.dst_endnodes[dst(f)] /\ t \in Slots
        BY SlotOfSource, Zenon
      <4> QED BY <3>1, <3>4, <4>1, DestinationGiven, Zenon
    <3> QED BY <3>2, <3>3, <3>4, OnceKinds, Zenon
  <2> QED BY <2>1, <2>2, Zenon DEF InsideInv, DestinationOnce
<1>3. SeqTypeOK /\ MatchInv /\ InsideInv => NodeOnce
  <2> SUFFICES ASSUME SeqTypeOK, MatchInv, InsideInv, NEW c \in Cores, NEW t \in Slots, NEW f \in core[c].admitted[t]
               PROVE  /\ Cardinality({g \in core[c].admitted[t] : src(g) = src(f)}) = 1
                      /\ Cardinality({g \in core[c].admitted[t] : dst(g) = dst(f)})
                           <= IF dst(f) = OUT_OF_BOUNDARY THEN OUT_OF_BOUNDARY_CAPACITY ELSE 1
    BY Zenon DEF NodeOnce
  <2>1. \A g \in core[c].admitted[t] : src(g) = src(f) => g = f
    BY Zenon DEF MatchInv, SourceOnce
  <2>6. \A g \in core[c].admitted[t] : dst(g) = dst(f) => g = f
    BY Zenon DEF InsideInv, DestinationOnce
  <2>2. {g \in core[c].admitted[t] : src(g) = src(f)} = {f} /\ {g \in core[c].admitted[t] : dst(g) = dst(f)} = {f}
    BY <2>1, <2>6
  <2>3. Cardinality({f}) = 1
    BY FS_Singleton, Zenon
  <2>4. f \in Flows
    BY CoreAt, CoreFields
  <2>5. dst(f) # OUT_OF_BOUNDARY
    BY <2>4
  <2> QED BY <2>2, <2>3, <2>5
<1> QED BY <1>1, <1>2, <1>3, SourcesInductive, PTL DEF Spec
=============================================================================
