--------------------------- MODULE PimPlaceProofs ---------------------------
(***************************************************************************)
(* A flow waits in one place while it has backlog, and the cores of        *)
(* parallel iterative matching together implement the allocator of         *)
(* AllocatorAbs, for every number of partitions, nodes and iterations,     *)
(* every set of flows and every interleaving of the cores and the comm     *)
(* core.                                                                   *)
(***************************************************************************)
EXTENDS PimMatchProofs

Absent(seq, x) == \A i \in DOMAIN seq : seq[i] # x
Once(seq, x) == \E i \in DOMAIN seq : seq[i] = x /\ \A j \in DOMAIN seq : seq[j] = x => j = i

\* x is in none of the three sequences if n is 0, and else in one of them, once.
InPlace(n, a, b, c, x, y) ==
    /\ n = 0 => Absent(a, x) /\ Absent(b, x) /\ Absent(c, y)
    /\ n # 0 => \/ Once(a, x) /\ Absent(b, x) /\ Absent(c, y)
                \/ Absent(a, x) /\ Once(b, x) /\ Absent(c, y)
                \/ Absent(a, x) /\ Absent(b, x) /\ Once(c, y)

PlaceInv ==
    \A f \in Flows :
      backlog[f] \in Nat /\ InPlace(backlog[f], new_demands[SrcP(f)], q_new_demands[SrcP(f)], requests[f[1]], f, f[2])

MatchInv == GrantInv /\ AcceptInv /\ SourceInv /\ MarkInv /\ DestinationInv /\ SlotInv /\ IndexInv /\ PlaceInv

-----------------------------------------------------------------------------
(* Places.                                                                 *)

LEMMA PlaceEmpty == \A x : Absent(<<>>, x)
  BY DEF Absent

LEMMA PlaceAppend ==
  ASSUME NEW S, NEW s \in Seq(S), NEW y \in S, NEW x
  PROVE  /\ x # y /\ Absent(s, x) => Absent(Append(s, y), x)
         /\ x # y /\ Once(s, x) => Once(Append(s, y), x)
         /\ x = y /\ Absent(s, x) => Once(Append(s, y), x)
<1> DEFINE n == Len(s)
           a == Append(s, y)
<1>1. n \in Nat /\ DOMAIN s = 1 .. n /\ DOMAIN a = 1 .. n + 1 /\ a[n + 1] = y /\ \A i \in 1 .. n : a[i] = s[i]
  OBVIOUS
<1> HIDE DEF n, a
<1>2. \A i \in DOMAIN a : i = n + 1 \/ i \in DOMAIN s
  BY <1>1
<1>3. n + 1 \in DOMAIN a /\ n + 1 \notin DOMAIN s /\ \A i \in DOMAIN s : i \in DOMAIN a
  BY <1>1
<1>4. \A i \in DOMAIN s : a[i] = s[i]
  BY <1>1
<1>5. x # y /\ Absent(s, x) => Absent(a, x)
  BY <1>1, <1>2, <1>4, Zenon DEF Absent
<1>6. ASSUME x # y, Once(s, x) PROVE Once(a, x)
  <2>1. PICK k \in DOMAIN s : s[k] = x /\ \A j \in DOMAIN s : s[j] = x => j = k
    BY <1>6, Zenon DEF Once
  <2>2. k \in DOMAIN a /\ a[k] = x /\ \A j \in DOMAIN a : a[j] = x => j = k
    BY <1>1, <1>2, <1>3, <1>4, <1>6, <2>1, SMT
  <2> QED BY <2>2, Zenon DEF Once
<1>7. ASSUME x = y, Absent(s, x) PROVE Once(a, x)
  <2>1. n + 1 \in DOMAIN a /\ a[n + 1] = x /\ \A j \in DOMAIN a : a[j] = x => j = n + 1
    BY <1>1, <1>2, <1>3, <1>4, <1>7, SMT DEF Absent
  <2> QED BY <2>1, Zenon DEF Once
<1> QED BY <1>5, <1>6, <1>7 DEF a

LEMMA PlaceConcat ==
  ASSUME NEW S, NEW s \in Seq(S), NEW u \in Seq(S), NEW x
  PROVE  /\ Absent(s, x) /\ Absent(u, x) => Absent(s \o u, x)
         /\ Once(s, x) /\ Absent(u, x) => Once(s \o u, x)
         /\ Absent(s, x) /\ Once(u, x) => Once(s \o u, x)
<1> DEFINE n == Len(s)
           m == Len(u)
           c == s \o u
<1>1. /\ n \in Nat /\ m \in Nat /\ DOMAIN s = 1 .. n /\ DOMAIN u = 1 .. m /\ DOMAIN c = 1 .. n + m
      /\ \A i \in 1 .. n : c[i] = s[i] /\ i \in 1 .. n + m
      /\ \A i \in 1 .. m : c[n + i] = u[i] /\ n + i \in 1 .. n + m
  OBVIOUS
<1> HIDE DEF n, m, c
<1>2. \A i \in DOMAIN c : i \in DOMAIN s \/ \E j \in DOMAIN u : i = n + j
  <2> TAKE i \in DOMAIN c
  <2>1. i \notin 1 .. n => i - n \in 1 .. m /\ i = n + (i - n)
    BY <1>1
  <2> QED BY <1>1, <2>1, Zenon
<1>3. Absent(s, x) /\ Absent(u, x) => Absent(c, x)
  BY <1>1, <1>2, Zenon DEF Absent
<1>4. ASSUME Once(s, x), Absent(u, x) PROVE Once(c, x)
  <2>1. PICK k \in DOMAIN s : s[k] = x /\ \A j \in DOMAIN s : s[j] = x => j = k
    BY <1>4, Zenon DEF Once
  <2>2. k \in DOMAIN c /\ c[k] = x /\ \A j \in DOMAIN c : c[j] = x => j = k
    BY <1>1, <1>2, <1>4, <2>1, SMT DEF Absent
  <2> QED BY <2>2, Zenon DEF Once
<1>5. ASSUME Absent(s, x), Once(u, x) PROVE Once(c, x)
  <2>1. PICK k \in DOMAIN u : u[k] = x /\ \A j \in DOMAIN u : u[j] = x => j = k
    BY <1>5, Zenon DEF Once
  <2>2. n + k \in DOMAIN c /\ c[n + k] = x
    BY <1>1, <2>1
  <2>3. ASSUME NEW j \in DOMAIN c, c[j] = x PROVE j = n + k
    <3>1. j \notin DOMAIN s
      BY <1>1, <1>5, <2>3, Zenon DEF Absent
    <3>2. PICK i \in DOMAIN u : j = n + i
      BY <1>2, <2>3, <3>1, Zenon
    <3>3. u[i] = x
      BY <1>1, <2>3, <3>2, Zenon
    <3> QED BY <2>1, <3>2, <3>3, Zenon
  <2> QED BY <2>2, <2>3, Zenon DEF Once
<1> QED BY <1>3, <1>4, <1>5 DEF c

\* ga_adj_delete_neigh takes out the request at the index and no other.
LEMMA PlaceWithout ==
  ASSUME NEW c \in Seq(Nodes), NEW i \in DOMAIN c, NEW y
  PROVE  /\ y # c[i] /\ Absent(c, y) => Absent(without_neigh(c, i), y)
         /\ y # c[i] /\ Once(c, y) => Once(without_neigh(c, i), y)
         /\ y = c[i] /\ Once(c, y) => Absent(without_neigh(c, i), y)
<1> DEFINE n == Len(c)
           w == without_neigh(c, i)
           at(j) == IF j = i THEN n ELSE j
           to(j) == IF j = n THEN i ELSE j
<1>1. n \in Nat /\ DOMAIN c = 1 .. n /\ i \in 1 .. n
  OBVIOUS
<1>2. w = [j \in 1 .. n - 1 |-> c[at(j)]]
  BY DEF without_neigh
<1>3. DOMAIN w = 1 .. n - 1 /\ \A j \in 1 .. n - 1 : w[j] = c[at(j)]
  BY <1>2, Zenon
<1> HIDE DEF n, w
<1>4. \A j \in 1 .. n - 1 : at(j) \in 1 .. n /\ at(j) # i /\ to(at(j)) = j
  BY <1>1
<1>5. \A j \in 1 .. n : j # i => to(j) \in 1 .. n - 1 /\ at(to(j)) = j
  BY <1>1
<1> HIDE DEF at, to
<1>6. \A j \in DOMAIN w : at(j) \in DOMAIN c /\ at(j) # i /\ w[j] = c[at(j)] /\ to(at(j)) = j
  BY <1>1, <1>3, <1>4, Zenon
<1>7. \A j \in DOMAIN c : j # i => to(j) \in DOMAIN w /\ at(to(j)) = j /\ w[to(j)] = c[j]
  BY <1>1, <1>3, <1>5, Zenon
<1>8. y # c[i] /\ Absent(c, y) => Absent(w, y)
  BY <1>6, Zenon DEF Absent
<1>9. ASSUME y # c[i], Once(c, y) PROVE Once(w, y)
  <2>1. PICK k \in DOMAIN c : c[k] = y /\ \A j \in DOMAIN c : c[j] = y => j = k
    BY <1>9, Zenon DEF Once
  <2>2. to(k) \in DOMAIN w /\ w[to(k)] = y
    BY <1>7, <1>9, <2>1, Zenon
  <2>3. ASSUME NEW j \in DOMAIN w, w[j] = y PROVE j = to(k)
    <3>1. at(j) \in DOMAIN c /\ c[at(j)] = y /\ to(at(j)) = j
      BY <1>6, <2>3, Zenon
    <3>2. at(j) = k
      BY <2>1, <3>1, Zenon
    <3> QED BY <3>1, <3>2, Zenon
  <2> QED BY <2>2, <2>3, Zenon DEF Once
<1>10. y = c[i] /\ Once(c, y) => Absent(w, y)
  BY <1>6, Zenon DEF Absent, Once
<1> QED BY <1>8, <1>9, <1>10 DEF w

\* A flow that is not in the requests of its source is there once when one bin has brought it.
Fine(r, h, new, k, f) ==
    /\ (\A i \in 1 .. k : new[i] # f) /\ Absent(r[f[1]], f[2]) => Absent(h[f[1]], f[2])
    /\ (\A i \in 1 .. k : new[i] # f) /\ Once(r[f[1]], f[2]) => Once(h[f[1]], f[2])
    /\ (\E i \in 1 .. k : new[i] = f /\ \A j \in 1 .. k : new[j] = f => j = i) /\ Absent(r[f[1]], f[2])
       => Once(h[f[1]], f[2])

LEMMA FineStep ==
  ASSUME NEW r \in Requests, NEW h \in Requests, NEW new \in Seq(Flows), NEW k \in Nat, k + 1 \in 1 .. Len(new),
         NEW f \in Flows, Fine(r, h, new, k, f)
  PROVE  Fine(r, added(h, new[k + 1]), new, k + 1, f)
<1>1. PICK g : g = new[k + 1]
  OBVIOUS
<1>2. PICK a : a = added(h, g)[f[1]]
  OBVIOUS
<1>3. PICK b : b = h[f[1]]
  OBVIOUS
<1>4. PICK c : c = r[f[1]]
  OBVIOUS
<1>5. PICK y : y = f[2]
  OBVIOUS
<1>6. g \in Flows /\ f[1] \in Nodes /\ g[2] \in Nodes /\ b \in Seq(Nodes)
  <2>1. g \in Flows
    BY <1>1
  <2>2. f[1] \in Nodes /\ g[2] \in Nodes
    BY <2>1, FlowFacts, Zenon
  <2> QED BY <1>3, <2>1, <2>2 DEF Requests
<1>7. a = IF f[1] = g[1] THEN Append(b, g[2]) ELSE b
  BY <1>2, <1>3, <1>6, Added, Zenon
<1>8. f = g <=> f[1] = g[1] /\ y = g[2]
  BY <1>5, <1>6, FlowFacts, Zenon
<1>9. /\ f # g /\ Absent(b, y) => Absent(a, y)
      /\ f # g /\ Once(b, y) => Once(a, y)
      /\ f = g /\ Absent(b, y) => Once(a, y)
  <2>1. /\ y # g[2] /\ Absent(b, y) => Absent(Append(b, g[2]), y)
        /\ y # g[2] /\ Once(b, y) => Once(Append(b, g[2]), y)
        /\ y = g[2] /\ Absent(b, y) => Once(Append(b, g[2]), y)
    BY <1>6, PlaceAppend
  <2> QED BY <1>7, <1>8, <2>1, Zenon
<1>10. /\ (\A i \in 1 .. k : new[i] # f) /\ Absent(c, y) => Absent(b, y)
       /\ (\A i \in 1 .. k : new[i] # f) /\ Once(c, y) => Once(b, y)
       /\ (\E i \in 1 .. k : new[i] = f /\ \A j \in 1 .. k : new[j] = f => j = i) /\ Absent(c, y) => Once(b, y)
  BY <1>3, <1>4, <1>5, Zenon DEF Fine
<1>11. \A i : i \in 1 .. k + 1 <=> i \in 1 .. k \/ i = k + 1
  OBVIOUS
<1>12. k + 1 \notin 1 .. k
  OBVIOUS
<1>13. /\ (\A i \in 1 .. k + 1 : new[i] # f) /\ Absent(c, y) => Absent(a, y)
       /\ (\A i \in 1 .. k + 1 : new[i] # f) /\ Once(c, y) => Once(a, y)
  BY <1>1, <1>9, <1>10, <1>11, Zenon
<1>14. ASSUME \E i \in 1 .. k + 1 : new[i] = f /\ \A j \in 1 .. k + 1 : new[j] = f => j = i, Absent(c, y)
       PROVE  Once(a, y)
  <2>1. PICK i \in 1 .. k + 1 : new[i] = f /\ \A j \in 1 .. k + 1 : new[j] = f => j = i
    BY <1>14, Zenon
  <2>2. CASE i = k + 1
    <3>1. \A j \in 1 .. k : new[j] # f
      BY <1>11, <1>12, <2>1, <2>2, Zenon
    <3> QED BY <1>1, <1>9, <1>10, <1>14, <2>1, <2>2, <3>1, Zenon
  <2>3. CASE i # k + 1
    <3>1. i \in 1 .. k /\ \A j \in 1 .. k : new[j] = f => j = i
      BY <1>11, <2>1, <2>3, Zenon
    <3>2. f # g
      BY <1>1, <1>11, <2>1, <2>3, Zenon
    <3> QED BY <1>9, <1>10, <1>14, <2>1, <3>1, <3>2, Zenon
  <2> QED BY <2>2, <2>3
<1> QED BY <1>1, <1>2, <1>4, <1>5, <1>13, <1>14, Zenon DEF Fine

LEMMA ExtendsStep ==
  ASSUME NEW r \in Requests, NEW h \in Requests, NEW f \in Flows, Extends(r, h)
  PROVE  Extends(r, added(h, f))
<1> SUFFICES ASSUME NEW n \in Nodes, NEW i \in DOMAIN r[n]
             PROVE  i \in DOMAIN added(h, f)[n] /\ added(h, f)[n][i] = r[n][i]
  BY Zenon DEF Extends
<1>1. i \in DOMAIN h[n] /\ h[n][i] = r[n][i]
  BY Zenon DEF Extends
<1>2. added(h, f)[n] = IF n = f[1] THEN Append(h[n], f[2]) ELSE h[n]
  BY Added
<1>3. h[n] \in Seq(Nodes) /\ f[2] \in Nodes
  BY FlowFacts DEF Requests
<1>4. i \in DOMAIN Append(h[n], f[2]) /\ Append(h[n], f[2])[i] = h[n][i]
  BY <1>1, <1>3
<1> QED BY <1>1, <1>2, <1>4, Zenon

\* What process_new_requests does to the place of a flow, and to the indexes
LEMMA Delivered ==
  ASSUME PimTypeOK, NEW p \in Partitions
  PROVE  /\ Extends(requests, with_new_requests(p))
         /\ \A f \in Flows : Fine(requests, with_new_requests(p), q_new_demands[p], Len(q_new_demands[p]), f)
<1> DEFINE new == q_new_demands[p]
<1>1. requests \in Requests /\ new \in Seq(Flows)
  BY Zenon DEF PimTypeOK, EdgeTypeOK, DemandTypeOK, Requests
<1>2. PICK h : /\ \A k \in 0 .. Len(new) : h[k] \in Requests
               /\ h[0] = requests
               /\ \A k \in 1 .. Len(new) : h[k] = added(h[k - 1], new[k])
               /\ with_new_requests(p) = h[Len(new)]
  BY <1>1, NewRequests, Zenon DEF PimTypeOK
<1>3. Len(new) \in Nat /\ \A i \in 1 .. Len(new) : new[i] \in Flows
  BY <1>1
<1> HIDE DEF new
<1> DEFINE T == {k \in 0 .. Len(new) : ~(Extends(requests, h[k]) /\ \A f \in Flows : Fine(requests, h[k], new, k, f))}
<1>4. T = {}
  <2> SUFFICES ASSUME T # {} PROVE FALSE
    OBVIOUS
  <2>1. T \in SUBSET Nat
    BY <1>3
  <2>2. PICK n \in T : \A m \in T : n <= m
    BY <2>1, Least, Zenon DEF PimTypeOK
  <2>3. n \in 0 .. Len(new) /\ ~(Extends(requests, h[n]) /\ \A f \in Flows : Fine(requests, h[n], new, n, f))
    BY <2>2, Zenon
  <2>4. n # 0
    <3>1. 1 .. 0 = {}
      OBVIOUS
    <3>2. Extends(requests, h[0]) /\ \A f \in Flows : Fine(requests, h[0], new, 0, f)
      BY <1>2, <3>1, Zenon DEF Extends, Fine
    <3> QED BY <2>3, <3>2, Zenon
  <2>5. PICK k \in Nat : n = k + 1 /\ k = n - 1 /\ k \in 0 .. Len(new) /\ k + 1 \in 1 .. Len(new) /\ k \notin T
    <3>1. n - 1 \in Nat /\ n = (n - 1) + 1 /\ n - 1 \in 0 .. Len(new) /\ (n - 1) + 1 \in 1 .. Len(new) /\ n - 1 \notin T
      BY <1>3, <2>2, <2>3, <2>4
    <3> QED BY <3>1, Zenon
  <2>6. h[k] \in Requests /\ new[k + 1] \in Flows /\ Extends(requests, h[k]) /\ \A f \in Flows : Fine(requests, h[k], new, k, f)
    BY <1>2, <1>3, <2>5, Zenon
  <2>7. h[n] = added(h[k], new[k + 1])
    BY <1>2, <2>5, Zenon
  <2>8. Extends(requests, h[n])
    BY <1>1, <2>6, <2>7, ExtendsStep, Zenon
  <2>9. \A f \in Flows : Fine(requests, h[n], new, n, f)
    BY <1>1, <2>5, <2>6, <2>7, FineStep, Zenon
  <2> QED BY <2>3, <2>8, <2>9
<1>5. Len(new) \in 0 .. Len(new)
  BY <1>3
<1>6. Extends(requests, h[Len(new)]) /\ \A f \in Flows : Fine(requests, h[Len(new)], new, Len(new), f)
  BY <1>4, <1>5, Zenon
<1> QED BY <1>2, <1>6, Zenon DEF new

\* A bin is sent on.
LEMMA PlaceSent ==
  ASSUME NEW n, NEW S, NEW a \in Seq(S), NEW b \in Seq(S), NEW c, NEW x, NEW y, InPlace(n, a, b, c, x, y)
  PROVE  InPlace(n, <<>>, b \o a, c, x, y)
<1>1. /\ Absent(b, x) /\ Absent(a, x) => Absent(b \o a, x)
      /\ Once(b, x) /\ Absent(a, x) => Once(b \o a, x)
      /\ Absent(b, x) /\ Once(a, x) => Once(b \o a, x)
  BY PlaceConcat, Zenon
<1> QED BY <1>1, PlaceEmpty, Zenon DEF InPlace

\* A flow is put into the bin.
LEMMA PlaceAsked ==
  ASSUME NEW n, NEW m, NEW S, NEW a \in Seq(S), NEW f \in S, NEW b, NEW c, NEW x, NEW y, InPlace(n, a, b, c, x, y),
         (x # f /\ m = n) \/ (x = f /\ n = 0 /\ m # 0)
  PROVE  InPlace(m, Append(a, f), b, c, x, y)
<1>1. /\ x # f /\ Absent(a, x) => Absent(Append(a, f), x)
      /\ x # f /\ Once(a, x) => Once(Append(a, f), x)
      /\ x = f /\ Absent(a, x) => Once(Append(a, f), x)
  BY PlaceAppend, Zenon
<1> QED BY <1>1, Zenon DEF InPlace

LEMMA DemandFacts ==
  ASSUME PimTypeOK, NEW p \in Partitions
  PROVE  new_demands[p] \in Seq(Flows) /\ q_new_demands[p] \in Seq(Flows)
  BY Zenon DEF PimTypeOK, DemandTypeOK

LEMMA PlaceInvAtFlush ==
  ASSUME PimTypeOK, PlaceInv, pim_flush_backlog
  PROVE  PlaceInv'
<1> SUFFICES ASSUME NEW f \in Flows
             PROVE  (backlog[f] \in Nat /\ InPlace(backlog[f], new_demands[SrcP(f)], q_new_demands[SrcP(f)], requests[f[1]], f, f[2]))'
  BY Zenon DEF PlaceInv
<1>1. PICK p \in Partitions : p = SrcP(f)
  BY EndFacts
<1>2. /\ q_new_demands'[p] = q_new_demands[p] \o new_demands[p] /\ new_demands'[p] = <<>> /\ backlog' = backlog /\ requests' = requests
  BY Zenon DEF pim_flush_backlog, edges
<1>3. new_demands[p] \in Seq(Flows) /\ q_new_demands[p] \in Seq(Flows)
  BY DemandFacts, Zenon
<1>4. backlog[f] \in Nat /\ InPlace(backlog[f], new_demands[p], q_new_demands[p], requests[f[1]], f, f[2])
  BY <1>1, Zenon DEF PlaceInv
<1>5. InPlace(backlog[f], <<>>, q_new_demands[p] \o new_demands[p], requests[f[1]], f, f[2])
  BY <1>3, <1>4, PlaceSent, Zenon
<1> QED BY <1>1, <1>2, <1>4, <1>5, Zenon

\* pim_add_backlog puts a flow into the bin, if it had no backlog, and sends the bin if it is full.
LEMMA PlaceInvAtAdd ==
  ASSUME PimTypeOK, PlaceInv, NEW g \in Flows, NEW amount \in 1 .. MAX_DEMAND, pim_add_backlog(g, amount)
  PROVE  PlaceInv'
<1> SUFFICES ASSUME NEW f \in Flows
             PROVE  (backlog[f] \in Nat /\ InPlace(backlog[f], new_demands[SrcP(f)], q_new_demands[SrcP(f)], requests[f[1]], f, f[2]))'
  BY Zenon DEF PlaceInv
<1>1. PICK r \in Partitions : r = SrcP(f)
  BY EndFacts
<1>2. PICK p \in Partitions : p = PARTITION_OF(g[1])
  BY EndFacts DEF SrcP
<1>3. PICK bin : bin = IF backlog[g] = 0 THEN Append(new_demands[p], g) ELSE new_demands[p]
  BY Zenon
<1>4. PICK full \in BOOLEAN : full <=> (backlog[g] = 0 /\ Len(bin) = SMALL_BIN_SIZE)
  BY Zenon
<1>5. /\ backlog' = [backlog EXCEPT ![g] = @ + amount]
      /\ new_demands' = [new_demands EXCEPT ![p] = IF full THEN <<>> ELSE bin]
      /\ q_new_demands' = IF full THEN [q_new_demands EXCEPT ![p] = @ \o bin] ELSE q_new_demands
      /\ requests' = requests
  BY <1>2, <1>3, <1>4, Zenon DEF pim_add_backlog, edges
<1>6. new_demands[r] \in Seq(Flows) /\ q_new_demands[r] \in Seq(Flows)
  BY DemandFacts, Zenon
<1>7. backlog[f] \in Nat /\ InPlace(backlog[f], new_demands[r], q_new_demands[r], requests[f[1]], f, f[2])
  BY <1>1, Zenon DEF PlaceInv
<1>8. PICK n : n = backlog'[f]
  OBVIOUS
<1>9. n \in Nat /\ (f # g => n = backlog[f]) /\ (f = g => n # 0)
  <2>1. (f # g => n = backlog[f]) /\ (f = g => n = backlog[f] + amount)
    BY <1>5, <1>8, Zenon DEF PimTypeOK, DemandTypeOK
  <2> QED BY <1>7, <2>1, Sizes
<1>10. CASE r # p
  <2>1. new_demands'[r] = new_demands[r] /\ q_new_demands'[r] = q_new_demands[r]
    BY <1>5, <1>10, Zenon DEF PimTypeOK, DemandTypeOK
  <2>2. f # g
    BY <1>1, <1>2, <1>10 DEF SrcP
  <2> QED BY <1>1, <1>5, <1>7, <1>8, <1>9, <2>1, <2>2, Zenon
<1>11. CASE r = p
  <2>1. InPlace(n, bin, q_new_demands[r], requests[f[1]], f, f[2]) /\ bin \in Seq(Flows)
    <3>1. CASE backlog[g] = 0
      <4>1. bin = Append(new_demands[r], g)
        BY <1>3, <1>11, <3>1, Zenon
      <4>2. (f # g /\ n = backlog[f]) \/ (f = g /\ backlog[f] = 0 /\ n # 0)
        BY <1>9, <3>1
      <4>3. InPlace(n, Append(new_demands[r], g), q_new_demands[r], requests[f[1]], f, f[2])
        BY <1>6, <1>7, <4>2, PlaceAsked, Zenon
      <4>4. bin \in Seq(Flows)
        <5>1. \A S : \A s \in Seq(S), x \in S : Append(s, x) \in Seq(S)
          OBVIOUS
        <5> QED BY <1>6, <4>1, <5>1, Zenon
      <4> QED BY <4>1, <4>3, <4>4
    <3>2. CASE backlog[g] # 0
      <4>1. bin = new_demands[r]
        BY <1>3, <1>11, <3>2, Zenon
      <4>2. n = 0 <=> backlog[f] = 0
        BY <1>9, <3>2
      <4> QED BY <1>6, <1>7, <4>1, <4>2, Zenon DEF InPlace
    <3> QED BY <3>1, <3>2, Zenon
  <2>2. CASE full
    <3>1. new_demands'[r] = <<>> /\ q_new_demands'[r] = q_new_demands[r] \o bin
      BY <1>5, <1>11, <2>2, Zenon DEF PimTypeOK, DemandTypeOK
    <3>2. InPlace(n, <<>>, q_new_demands[r] \o bin, requests[f[1]], f, f[2])
      BY <1>6, <2>1, PlaceSent, Zenon
    <3> QED BY <1>1, <1>5, <1>8, <1>9, <3>1, <3>2, Zenon
  <2>3. CASE ~full
    <3>1. new_demands'[r] = bin /\ q_new_demands'[r] = q_new_demands[r]
      BY <1>5, <1>11, <2>3, Zenon DEF PimTypeOK, DemandTypeOK
    <3> QED BY <1>1, <1>5, <1>8, <1>9, <2>1, <3>1, Zenon
  <2> QED BY <2>2, <2>3
<1> QED BY <1>10, <1>11, Zenon

LEMMA PlaceInvAtNew ==
  ASSUME PimTypeOK, PlaceInv, NEW p \in Partitions, process_new_requests(p)
  PROVE  PlaceInv'
<1>1. /\ requests' = with_new_requests(p) /\ q_new_demands' = [q_new_demands EXCEPT ![p] = <<>>] /\ UNCHANGED <<backlog, new_demands>>
  BY Zenon DEF process_new_requests
<1> SUFFICES ASSUME NEW f \in Flows
             PROVE  (backlog[f] \in Nat /\ InPlace(backlog[f], new_demands[SrcP(f)], q_new_demands[SrcP(f)], requests[f[1]], f, f[2]))'
  BY Zenon DEF PlaceInv
<1>2. PICK r \in Partitions : r = SrcP(f)
  BY EndFacts
<1>3. PICK new : new = q_new_demands[p]
  OBVIOUS
<1>4. PICK c : c = requests[f[1]]
  OBVIOUS
<1>5. PICK h : h = requests'[f[1]]
  OBVIOUS
<1>6. new \in Seq(Flows) /\ new \in Seq(FlowsOf(p))
  BY <1>3, Zenon DEF PimTypeOK, DemandTypeOK
<1>7. DOMAIN new = 1 .. Len(new)
  BY <1>6
<1>8. /\ Absent(new, f) /\ Absent(c, f[2]) => Absent(h, f[2])
      /\ Absent(new, f) /\ Once(c, f[2]) => Once(h, f[2])
      /\ Once(new, f) /\ Absent(c, f[2]) => Once(h, f[2])
  <2>1. Fine(requests, with_new_requests(p), new, Len(new), f)
    BY <1>3, Delivered, Zenon
  <2>2. /\ Absent(new, f) <=> \A i \in 1 .. Len(new) : new[i] # f
        /\ Once(new, f) <=> \E i \in 1 .. Len(new) : new[i] = f /\ \A j \in 1 .. Len(new) : new[j] = f => j = i
    BY <1>7, Zenon DEF Absent, Once
  <2> QED BY <1>1, <1>4, <1>5, <2>1, <2>2, Zenon DEF Fine
<1>9. backlog[f] \in Nat /\ InPlace(backlog[f], new_demands[r], q_new_demands[r], c, f, f[2])
  BY <1>2, <1>4, Zenon DEF PlaceInv
<1>10. InPlace(backlog[f], new_demands[r], q_new_demands'[r], h, f, f[2])
  <2>1. CASE r = p
    <3>1. q_new_demands'[r] = <<>> /\ q_new_demands[r] = new
      BY <1>1, <1>3, <2>1, Zenon DEF PimTypeOK, DemandTypeOK
    <3> QED BY <1>8, <1>9, <3>1, PlaceEmpty, Zenon DEF InPlace
  <2>2. CASE r # p
    <3>1. q_new_demands'[r] = q_new_demands[r]
      BY <1>1, <2>2, Zenon DEF PimTypeOK, DemandTypeOK
    <3>2. f \notin FlowsOf(p)
      BY <1>2, <2>2 DEF FlowsOf, SrcP
    <3>3. Absent(new, f)
      BY <1>6, <3>2 DEF Absent
    <3> QED BY <1>8, <1>9, <3>1, <3>3, Zenon DEF InPlace
  <2> QED BY <2>1, <2>2
<1> QED BY <1>1, <1>2, <1>5, <1>9, <1>10, Zenon

\* The requests of a flow that is served are where the index says, so there is backlog to serve.
LEMMA ServedFacts ==
  ASSUME PimTypeOK, IndexInv, PlaceInv, NEW p \in Partitions, NEW q \in Partitions, NEW E, Serves(p, q, E), NEW f \in E
  PROVE  /\ grant_adj_index[f[1]] \in DOMAIN requests[f[1]] /\ requests[f[1]][grant_adj_index[f[1]]] = f[2]
         /\ backlog[f] \in Nat \ {0}
<1>1. f \in Flows /\ SrcP(f) = p /\ DstP(f) = q /\ f[2] \in grants[f[1]] /\ InRound(p) /\ ~Processed(p, q)
  BY Zenon DEF Serves
<1>2. f[1] \in NodesOf(p) /\ PARTITION_OF(f[2]) = q
  BY <1>1, EndFacts, Zenon DEF DstP
<1>3. grant_adj_index[f[1]] \in DOMAIN requests[f[1]] /\ requests[f[1]][grant_adj_index[f[1]]] = f[2]
  <2>1. PICK s \in NodesOf(p) : s = f[1]
    BY <1>2
  <2>2. PICK d \in grants[s] : d = f[2]
    BY <1>1, <2>1
  <2>3. grant_adj_index[s] \in DOMAIN requests[s] /\ requests[s][grant_adj_index[s]] = d
    <3>1. InRound(p) /\ ~Processed(p, PARTITION_OF(d))
      BY <1>1, <1>2, <2>2, Zenon
    <3> HIDE <1>1, <1>2, <2>1
    <3> QED BY <3>1, Zenon DEF IndexInv
  <2> QED BY <2>1, <2>2, <2>3, Zenon
<1>4. ~Absent(requests[f[1]], f[2])
  BY <1>3, Zenon DEF Absent
<1>5. backlog[f] \in Nat /\ InPlace(backlog[f], new_demands[SrcP(f)], q_new_demands[SrcP(f)], requests[f[1]], f, f[2])
  BY <1>1, Zenon DEF PlaceInv
<1>6. backlog[f] # 0
  BY <1>4, <1>5, Zenon DEF InPlace
<1> QED BY <1>3, <1>5, <1>6, Zenon

LEMMA PlaceInvAtServe ==
  ASSUME PimTypeOK, GrantInv, SourceInv, IndexInv, PlaceInv, NEW p \in Partitions, NEW q \in Partitions, NEW E, Serves(p, q, E)
  PROVE  PlaceInv'
<1>1. /\ UNCHANGED <<new_demands, q_new_demands>> /\ requests' = [s \in Nodes |-> served(E, s)]
      /\ backlog' = [f \in Flows |-> IF f \in E THEN backlog[f] - 1 ELSE backlog[f]]
      /\ \A f \in E : f \in Flows
  BY Zenon DEF Serves
<1>2. /\ \A f, g \in E : f[1] = g[1] => f = g
      /\ \A f \in E : /\ grant_adj_index[f[1]] \in DOMAIN requests[f[1]] /\ requests[f[1]][grant_adj_index[f[1]]] = f[2]
                      /\ backlog[f] \in Nat \ {0}
  BY ServedOnce, ServedFacts, Zenon
<1> SUFFICES ASSUME NEW f \in Flows
             PROVE  (backlog[f] \in Nat /\ InPlace(backlog[f], new_demands[SrcP(f)], q_new_demands[SrcP(f)], requests[f[1]], f, f[2]))'
  BY Zenon DEF PlaceInv
<1>3. PICK a : a = new_demands[SrcP(f)]
  OBVIOUS
<1>4. PICK b : b = q_new_demands[SrcP(f)]
  OBVIOUS
<1>5. PICK c : c = requests[f[1]]
  OBVIOUS
<1>6. PICK n : n = backlog[f]
  OBVIOUS
<1>7. PICK i : i = grant_adj_index[f[1]]
  OBVIOUS
<1>8. f[1] \in Nodes /\ c \in Seq(Nodes)
  BY <1>5, FlowFacts, Zenon DEF PimTypeOK, EdgeTypeOK
<1>9. n \in Nat /\ InPlace(n, a, b, c, f, f[2])
  BY <1>3, <1>4, <1>5, <1>6, Zenon DEF PlaceInv
<1>10. PICK h : h = requests'[f[1]]
  OBVIOUS
<1>11. h = IF \E g \in E : g[1] = f[1] /\ backlog[g] = 1 THEN without_neigh(c, i) ELSE c
  BY <1>1, <1>5, <1>7, <1>8, <1>10, Zenon DEF served
<1>12. PICK m : m = backlog'[f]
  OBVIOUS
<1>13. m = IF f \in E THEN n - 1 ELSE n
  BY <1>1, <1>6, <1>12, Zenon
<1>14. m \in Nat /\ InPlace(m, a, b, h, f, f[2])
  <2>1. CASE f \in E
    <3>1. i \in DOMAIN c /\ c[i] = f[2] /\ n \in Nat \ {0}
      BY <1>2, <1>5, <1>6, <1>7, <2>1, Zenon
    <3>2. Absent(a, f) /\ Absent(b, f) /\ Once(c, f[2])
      <4>1. ~Absent(c, f[2]) /\ n # 0
        BY <3>1, Zenon DEF Absent
      <4> QED BY <1>9, <4>1, Zenon DEF InPlace
    <3>3. (\E g \in E : g[1] = f[1] /\ backlog[g] = 1) <=> n = 1
      BY <1>2, <1>6, <2>1, Zenon
    <3>4. CASE n = 1
      <4>1. h = without_neigh(c, i) /\ m = 0
        BY <1>11, <1>13, <2>1, <3>3, <3>4
      <4>2. Absent(without_neigh(c, i), f[2])
        BY <1>8, <3>1, <3>2, PlaceWithout, Zenon
      <4>3. m \in Nat
        BY <4>1
      <4> QED BY <3>2, <4>1, <4>2, <4>3, Zenon DEF InPlace
    <3>5. CASE n # 1
      <4>1. h = c
        BY <1>11, <3>3, <3>5, Zenon
      <4>2. m \in Nat /\ m # 0
        BY <1>13, <2>1, <3>1, <3>5
      <4> QED BY <3>2, <4>1, <4>2, Zenon DEF InPlace
    <3> QED BY <3>4, <3>5
  <2>2. CASE f \notin E
    <3>1. m = n
      BY <1>13, <2>2
    <3>2. CASE \E g \in E : g[1] = f[1] /\ backlog[g] = 1
      <4>1. PICK g \in E : g[1] = f[1]
        BY <3>2, Zenon
      <4>2. i \in DOMAIN c /\ c[i] = g[2]
        BY <1>2, <1>5, <1>7, <4>1, Zenon
      <4>3. f[2] # g[2]
        <5>1. g \in Flows
          BY <1>1, <4>1, Zenon
        <5>2. f = <<f[1], f[2]>> /\ g = <<g[1], g[2]>>
          BY <5>1, FlowFacts, Zenon
        <5> QED BY <2>2, <4>1, <5>2
      <4>4. (Absent(c, f[2]) => Absent(without_neigh(c, i), f[2])) /\ (Once(c, f[2]) => Once(without_neigh(c, i), f[2]))
        BY <1>8, <4>2, <4>3, PlaceWithout, Zenon
      <4>5. h = without_neigh(c, i)
        BY <1>11, <3>2, Zenon
      <4> QED BY <1>9, <3>1, <4>4, <4>5, Zenon DEF InPlace
    <3>3. CASE ~\E g \in E : g[1] = f[1] /\ backlog[g] = 1
      <4>1. h = c
        BY <1>11, <3>3, Zenon
      <4> QED BY <1>9, <3>1, <4>1
    <3> QED BY <3>2, <3>3
  <2> QED BY <2>1, <2>2
<1> QED BY <1>1, <1>3, <1>4, <1>10, <1>12, <1>14, Zenon

-----------------------------------------------------------------------------
(* All of it is kept by every step.                                        *)

LEMMA InitMatch == Init => MatchInv
<1> SUFFICES ASSUME Init PROVE MatchInv
  OBVIOUS
<1>1. /\ requests = [s \in Nodes |-> <<>>] /\ grants = [s \in Nodes |-> {}] /\ accepts = {} /\ dst_endnodes = {}
      /\ admitted = [p \in Partitions |-> {}] /\ q_admitted_out = [p \in Partitions |-> <<>>]
      /\ stage = [p \in Partitions |-> "prepare"] /\ backlog = [f \in Flows |-> 0]
      /\ new_demands = [p \in Partitions |-> <<>>] /\ q_new_demands = [p \in Partitions |-> <<>>]
  BY Zenon DEF Init, InitCores
<1>2. \A p \in Partitions : stage[p] = "prepare" /\ admitted[p] = {} /\ q_admitted_out[p] = <<>> /\ new_demands[p] = <<>> /\ q_new_demands[p] = <<>>
  BY <1>1, Zenon
<1>3. \A p \in Partitions : ~InRound(p) /\ stage[p] \notin {"grant", "accept"}
  BY <1>2 DEF InRound
<1>4. GrantInv
  <2>1. \A d \in Nodes : stage[PARTITION_OF(d)] # "accept"
    BY <1>3, NodeFacts, Zenon
  <2> QED BY <1>1, <2>1, Zenon DEF GrantInv
<1>5. AcceptInv
  BY <1>1, Zenon DEF AcceptInv
<1>6. SourceInv
  BY <1>2, <1>3, Zenon DEF SourceInv, SourceOK
<1>7. MarkInv
  BY <1>3, Zenon DEF MarkInv
<1>8. \A t \in 1 .. MAX_SLOTS : \A p \in Partitions : SlotOf(p, t) = {}
  <2>1. \A t \in 1 .. MAX_SLOTS : ~(t <= Len(<<>>))
    OBVIOUS
  <2> QED BY <1>2, <2>1, Zenon DEF SlotOf
<1>9. DestinationInv
  BY <1>1, <1>8, EndFacts, Zenon DEF DestinationInv, Placed
<1>10. SlotInv
  <2>1. Len(<<>>) <= MAX_SLOTS /\ DOMAIN <<>> = {}
    BY Sizes
  <2> QED BY <1>2, <2>1, Zenon DEF SlotInv, SlotOK
<1>11. IndexInv
  BY <1>3, Zenon DEF IndexInv
<1>12. PlaceInv
  <2>1. \A f \in Flows : requests[f[1]] = <<>> /\ SrcP(f) \in Partitions /\ backlog[f] = 0
    BY <1>1, EndFacts, Zenon
  <2>2. \A f \in Flows : InPlace(0, <<>>, <<>>, <<>>, f, f[2])
    BY PlaceEmpty, Zenon DEF InPlace
  <2>3. 0 \in Nat
    OBVIOUS
  <2> QED BY <1>2, <2>1, <2>2, <2>3, Zenon DEF PlaceInv
<1> QED BY <1>4, <1>5, <1>6, <1>7, <1>9, <1>10, <1>11, <1>12 DEF MatchInv

LEMMA PlaceKept ==
  ASSUME PlaceInv, UNCHANGED <<backlog, new_demands, q_new_demands, requests>>
  PROVE  PlaceInv'
  BY Zenon DEF PlaceInv

LEMMA ExtendsSame == ASSUME requests' = requests PROVE Extends(requests, requests')
  BY Zenon DEF Extends

\* Steps that leave the stages and the edges alone
LEMMA QuietMatch ==
  ASSUME PimTypeOK, MatchInv, GrantInv', PlaceInv', Extends(requests, requests'),
         UNCHANGED <<stage, iteration, grants, grant_adj_index, accepts, admitted, src_endnodes, dst_endnodes, q_admitted_out>>,
         \A r \in Partitions : ended(r)' = ended(r) /\ round(r)' = round(r),
         \A r, q \in Partitions : Processed(r, q) => Processed(r, q)'
  PROVE  MatchInv'
<1>1. GrantInv /\ AcceptInv /\ SourceInv /\ MarkInv /\ DestinationInv /\ SlotInv /\ IndexInv
  BY DEF MatchInv
<1>2. \A r \in Partitions : ended(r)' \in Nat /\ ended(r)' >= ended(r)
  BY EndedType
<1>3. \A r \in Partitions : InRound(r)' <=> InRound(r)
  BY Zenon DEF InRound
<1>4. AcceptInv'
  <2>1. \A f \in accepts : f \in Flows /\ InRound(SrcP(f))
    BY <1>1, Zenon DEF AcceptInv, PimTypeOK, EdgeTypeOK
  <2>2. \A f \in accepts' : grants'[f[1]] = grants[f[1]] /\ InRound(SrcP(f))' /\ round(SrcP(f))' = round(SrcP(f))
    BY <1>3, <2>1, EndFacts, Zenon
  <2> QED BY <1>1, <1>2, <2>2, AcceptKept, Zenon
<1>5. SourceInv'
  <2>1. \A r \in Partitions : SourceOK(r)'
    BY <1>1, SourceKept, Zenon DEF SourceInv
  <2> QED BY <2>1, Zenon DEF SourceInv
<1>6. MarkInv'
  BY <1>1, <1>2, <1>3, MarkKept, Zenon
<1>7. DestinationInv'
  BY <1>1, DestinationQuiet, Zenon
<1>8. SlotInv'
  BY <1>1, SlotKept, Zenon
<1>9. IndexInv'
  BY <1>1, <1>3, IndexKept, Zenon
<1> QED BY <1>4, <1>5, <1>6, <1>7, <1>8, <1>9 DEF MatchInv

LEMMA StillMatch ==
  ASSUME PimTypeOK, MatchInv, PlaceInv', Extends(requests, requests'),
         UNCHANGED <<stage, iteration, grants, grants_by_dst, grant_adj_index, accepts, admitted, src_endnodes, dst_endnodes, q_admitted_out>>,
         \A r \in Partitions : ended(r)' = ended(r) /\ round(r)' = round(r) /\ Heard(r)' = Heard(r)
  PROVE  MatchInv'
<1>1. \A r \in Partitions : ended(r)' \in Nat /\ ended(r)' >= ended(r)
  BY EndedType
<1>2. GrantInv'
  BY <1>1, GrantKept, Zenon DEF MatchInv
<1>3. \A r, q \in Partitions : Processed(r, q) => Processed(r, q)'
  BY Zenon DEF Processed
<1> QED BY <1>2, <1>3, QuietMatch, Zenon

LEMMA CommMatch ==
  ASSUME PimTypeOK, PhaseInv, MatchInv, UNCHANGED <<edges, phases>>, PlaceInv'
  PROVE  MatchInv'
<1>1. UNCHANGED <<stage, iteration, grants, grants_by_dst, grant_adj_index, accepts, admitted, src_endnodes, dst_endnodes, q_admitted_out>> /\ requests' = requests
  BY Zenon DEF edges, phases
<1>2. \A r \in Partitions : ended(r)' = ended(r) /\ round(r)' = round(r) /\ Heard(r)' = Heard(r)
  BY <1>1, CommInvPhase, Zenon
<1> QED BY <1>1, <1>2, ExtendsSame, StillMatch, Zenon

LEMMA EnqueueMatch ==
  ASSUME PimTypeOK, PhaseInv, MatchInv, NEW p \in Partitions, enqueue_ready(p)
  PROVE  MatchInv'
<1>1. UNCHANGED <<stage, iteration, grants, grants_by_dst, grant_adj_index, accepts, admitted, src_endnodes, dst_endnodes, q_admitted_out>>
      /\ UNCHANGED <<backlog, new_demands, q_new_demands, requests>>
  BY Zenon DEF enqueue_ready, edges, demands
<1>2. \A r \in Partitions : ended(r)' = ended(r) /\ round(r)' = round(r) /\ Heard(r)' = Heard(r)
  BY <1>1, EnqueueInv, EndedKept, Zenon
<1>3. PlaceInv'
  BY <1>1, PlaceKept, Zenon DEF MatchInv
<1> QED BY <1>1, <1>2, <1>3, ExtendsSame, StillMatch, Zenon

LEMMA PollMatch ==
  ASSUME PimTypeOK, PhaseInv, MatchInv, NEW p \in Partitions, poll(p)
  PROVE  MatchInv'
<1>1. UNCHANGED <<stage, iteration, grants, grants_by_dst, grant_adj_index, accepts, admitted, src_endnodes, dst_endnodes, q_admitted_out>>
      /\ process_new_requests(p)
  BY Zenon DEF poll
<1>2. \A r \in Partitions : ended(r)' = ended(r) /\ round(r)' = round(r) /\ Heard(r)' = Heard(r)
  BY PollInv, Zenon
<1>3. PlaceInv'
  BY <1>1, PlaceInvAtNew, Zenon DEF MatchInv
<1>4. Extends(requests, requests')
  BY <1>1, Delivered, Zenon DEF process_new_requests
<1> QED BY <1>1, <1>2, <1>3, <1>4, StillMatch, Zenon

LEMMA CollectGrantsMatch ==
  ASSUME PimTypeOK, PhaseInv, MatchInv, NEW p \in Partitions, collect_grants(p)
  PROVE  MatchInv'
<1>1. UNCHANGED <<grant_adj_index, grants, accepts, src_endnodes, dst_endnodes, admitted, q_admitted_out, backlog, new_demands, q_new_demands, requests>>
  BY Zenon DEF collect_grants, demands
<1>2. /\ UNCHANGED <<stage, iteration>>
      /\ \A r \in Partitions : ended(r)' = ended(r) /\ round(r)' = round(r)
      /\ Heard(p)' = Heard(p) \cup {finished(p)}
      /\ \A r \in Partitions \ {p} : Heard(r)' = Heard(r)
  BY CollectStep, Zenon
<1>3. \A r, q \in Partitions : Processed(r, q) => Processed(r, q)'
  BY <1>2, Zenon DEF Processed
<1>4. GrantInv'
  BY GrantInvAtCollect DEF MatchInv
<1>5. PlaceInv'
  BY <1>1, PlaceKept, Zenon DEF MatchInv
<1> QED BY <1>1, <1>2, <1>3, <1>4, <1>5, ExtendsSame, QuietMatch, Zenon

LEMMA CollectAcceptsMatch ==
  ASSUME PimTypeOK, PhaseInv, MatchInv, NEW p \in Partitions, collect_accepts(p)
  PROVE  MatchInv'
<1>0. GrantInv /\ AcceptInv /\ SourceInv /\ MarkInv /\ DestinationInv /\ SlotInv /\ IndexInv /\ PlaceInv
  BY DEF MatchInv
<1>1. UNCHANGED <<grants, grants_by_dst, accepts, dst_endnodes, q_admitted_out>>
  BY Zenon DEF collect_accepts
<1>2. /\ UNCHANGED <<stage, iteration>>
      /\ \A r \in Partitions : ended(r)' = ended(r) /\ round(r)' = round(r)
  BY CollectStep, Zenon
<1>3. \A r \in Partitions : ended(r)' \in Nat /\ ended(r)' >= ended(r)
  BY <1>2, EndedType
<1>4. PICK q \in Partitions : \E E : Serves(p, q, E) /\ E \subseteq accepts
  BY <1>0, CollectServes, Zenon
<1>5. \A r \in Partitions : InRound(r)' <=> InRound(r)
  BY <1>2, Zenon DEF InRound
<1>6. GrantInv'
  BY <1>0, <1>1, <1>2, <1>3, GrantKept, Zenon
<1>7. AcceptInv'
  <2>1. \A f \in accepts : f \in Flows /\ InRound(SrcP(f))
    BY <1>0, Zenon DEF AcceptInv, PimTypeOK, EdgeTypeOK
  <2>2. \A f \in accepts' : grants'[f[1]] = grants[f[1]] /\ InRound(SrcP(f))' /\ round(SrcP(f))' = round(SrcP(f))
    BY <1>1, <1>2, <1>5, <2>1, EndFacts, Zenon
  <2> QED BY <1>0, <1>1, <1>3, <2>2, AcceptKept, Zenon
<1>8. SourceInv' /\ IndexInv' /\ PlaceInv'
  BY <1>0, <1>4, SourceInvAtServe, IndexInvAtServe, PlaceInvAtServe, Zenon
<1>9. MarkInv'
  BY <1>0, <1>1, <1>2, <1>3, <1>5, MarkKept, Zenon
<1>10. DestinationInv'
  BY <1>0, <1>1, <1>2, <1>4, DestinationInvAtCollect, Zenon
<1>11. SlotInv'
  BY <1>0, <1>1, <1>2, SlotKept, Zenon
<1> QED BY <1>6, <1>7, <1>8, <1>9, <1>10, <1>11 DEF MatchInv

LEMMA PrepareMatch ==
  ASSUME PimTypeOK, PhaseInv, MatchInv, NEW p \in Partitions, pim_prepare(p)
  PROVE  MatchInv'
<1>0. GrantInv /\ AcceptInv /\ SourceInv /\ MarkInv /\ DestinationInv /\ SlotInv /\ IndexInv /\ PlaceInv
  BY DEF MatchInv
<1>1. UNCHANGED <<grants, grants_by_dst, grant_adj_index, accepts>> /\ process_new_requests(p)
      /\ stage[p] = "prepare" /\ stage' = [stage EXCEPT ![p] = "grant"]
  BY Zenon DEF pim_prepare
<1>2. \A r \in Partitions : round(r)' = round(r) /\ ended(r)' = ended(r) /\ Heard(r)' = Heard(r)
  BY EndedPrepare, PrepareInv, Zenon
<1>3. \A r \in Partitions : ended(r)' \in Nat /\ ended(r)' >= ended(r)
  BY <1>2, EndedType
<1>4. stage'[p] = "grant" /\ \A r \in Partitions \ {p} : stage'[r] = stage[r]
  BY <1>1, Zenon DEF PimTypeOK, PhaseTypeOK
<1>5. \A r \in Partitions : (InRound(r)' <=> InRound(r)) /\ (stage'[r] = "accept" => stage[r] = "accept") /\ (InRound(r)' => stage'[r] = stage[r])
  BY <1>1, <1>4 DEF InRound
<1>6. GrantInv'
  BY <1>0, <1>1, <1>2, <1>3, <1>5, GrantKept, Zenon
<1>7. AcceptInv'
  <2>1. \A f \in accepts : f \in Flows /\ InRound(SrcP(f))
    BY <1>0, Zenon DEF AcceptInv, PimTypeOK, EdgeTypeOK
  <2>2. \A f \in accepts' : grants'[f[1]] = grants[f[1]] /\ InRound(SrcP(f))' /\ round(SrcP(f))' = round(SrcP(f))
    BY <1>1, <1>2, <1>5, <2>1, EndFacts, Zenon
  <2> QED BY <1>0, <1>1, <1>3, <2>2, AcceptKept, Zenon
<1>8. Extends(requests, requests') /\ PlaceInv'
  BY <1>0, <1>1, Delivered, PlaceInvAtNew, Zenon DEF process_new_requests
<1>9. \A r \in Partitions : InRound(r)' => \A q \in Partitions : Processed(r, q) => Processed(r, q)'
  BY <1>2, <1>5, Zenon DEF Processed
<1>10. IndexInv'
  BY <1>0, <1>1, <1>5, <1>8, <1>9, IndexKept, Zenon
<1> QED BY <1>0, <1>6, <1>7, <1>8, <1>10, SourceInvAtPrepare, MarkInvAtPrepare, DestinationInvAtPrepare, SlotInvAtPrepare DEF MatchInv

LEMMA GrantMatch ==
  ASSUME PimTypeOK, PhaseInv, MatchInv, NEW p \in Partitions, pim_do_grant(p)
  PROVE  MatchInv'
<1>0. GrantInv /\ AcceptInv /\ SourceInv /\ MarkInv /\ DestinationInv /\ SlotInv /\ IndexInv /\ PlaceInv
  BY DEF MatchInv
<1>1. Goes(p, "grant", "accept") /\ UNCHANGED <<backlog, new_demands, q_new_demands, requests>>
      /\ UNCHANGED <<accepts, dst_endnodes, admitted, q_admitted_out>>
  BY GrantStep, Zenon DEF demands
<1>2. \A r \in Partitions : stage'[r] = "prepare" <=> stage[r] = "prepare"
  BY <1>1 DEF Goes
<1>3. DestinationInv'
  BY <1>0, <1>1, <1>2, DestinationQuiet, Zenon
<1>4. SlotInv'
  BY <1>0, <1>1, <1>2, SlotKept, Zenon
<1>5. PlaceInv'
  BY <1>0, <1>1, PlaceKept, Zenon
<1> QED BY <1>0, <1>3, <1>4, <1>5, GrantInvAtGrant, AcceptInvAtGrant, SourceInvAtGrant, MarkInvAtGrant, IndexInvAtGrant DEF MatchInv

LEMMA AcceptMatch ==
  ASSUME PimTypeOK, PhaseInv, MatchInv, NEW p \in Partitions, pim_do_accept(p)
  PROVE  MatchInv'
<1>0. GrantInv /\ AcceptInv /\ SourceInv /\ MarkInv /\ DestinationInv /\ SlotInv /\ IndexInv /\ PlaceInv
  BY DEF MatchInv
<1>1. /\ Goes(p, "accept", "process") /\ UNCHANGED <<grants, grants_by_dst, q_admitted_out>>
      /\ \A r \in Partitions : ended(r)' \in Nat /\ ended(r)' >= ended(r)
      /\ \A r \in Partitions \ {p} : ended(r)' = ended(r)
  BY AcceptStep, Zenon
<1>2. \A r \in Partitions : (stage'[r] = "accept" => stage[r] = "accept" /\ r # p) /\ (stage[r] = "prepare" => stage'[r] = "prepare")
  BY <1>1 DEF Goes
<1>3. GrantInv'
  BY <1>0, <1>1, <1>2, GrantKept, Zenon
<1>4. PICK E : Serves(p, p, E)
  BY <1>0, AcceptServes, Zenon
<1>5. SourceInv' /\ IndexInv' /\ PlaceInv'
  BY <1>0, <1>4, SourceInvAtServe, IndexInvAtServe, PlaceInvAtServe, Zenon
<1>6. SlotInv'
  BY <1>0, <1>1, <1>2, SlotKept, Zenon
<1> QED BY <1>0, <1>3, <1>5, <1>6, AcceptInvAtAccept, MarkInvAtAccept, DestinationInvAtAccept DEF MatchInv

LEMMA ProcessMatch ==
  ASSUME PimTypeOK, PhaseInv, MatchInv, NEW p \in Partitions, pim_process_accepts(p)
  PROVE  MatchInv'
<1>0. GrantInv /\ AcceptInv /\ SourceInv /\ MarkInv /\ DestinationInv /\ SlotInv /\ IndexInv /\ PlaceInv
  BY DEF MatchInv
<1>1. /\ UNCHANGED <<grants, grants_by_dst, grant_adj_index, backlog, new_demands, q_new_demands, requests>>
      /\ accepts' = {f \in accepts : PARTITION_OF(f[1]) # p}
  BY Zenon DEF pim_process_accepts, demands
<1>2. /\ \A r \in Partitions : ended(r)' = ended(r) /\ Heard(r)' = Heard(r)
      /\ \A r \in Partitions \ {p} : round(r)' = round(r)
  BY EndedProcess, ProcessInv, Zenon
<1>3. \A r \in Partitions : ended(r)' \in Nat /\ ended(r)' >= ended(r)
  BY <1>2, EndedType
<1>4. (stage'[p] = "grant" \/ stage'[p] = "prepare") /\ \A r \in Partitions \ {p} : stage'[r] = stage[r]
  BY OutProcess, Zenon
<1>5. /\ \A r \in Partitions : InRound(r)' => r # p /\ InRound(r) /\ stage'[r] = stage[r]
      /\ \A r \in Partitions : stage'[r] = "accept" => stage[r] = "accept"
      /\ \A r \in Partitions \ {p} : InRound(r) => InRound(r)'
  BY <1>4 DEF InRound
<1>6. GrantInv'
  BY <1>0, <1>1, <1>2, <1>3, <1>5, GrantKept, Zenon
<1>7. AcceptInv'
  <2>1. \A f \in accepts' : f \in accepts /\ f \in Flows /\ SrcP(f) # p /\ InRound(SrcP(f))
    BY <1>0, <1>1, Zenon DEF AcceptInv, PimTypeOK, EdgeTypeOK, SrcP
  <2>2. \A f \in accepts' : grants'[f[1]] = grants[f[1]] /\ InRound(SrcP(f))' /\ round(SrcP(f))' = round(SrcP(f))
    BY <1>1, <1>2, <1>5, <2>1, EndFacts, Zenon
  <2> QED BY <1>0, <1>3, <2>1, <2>2, AcceptKept, Zenon
<1>8. \A r \in Partitions : InRound(r)' => \A q \in Partitions : Processed(r, q) => Processed(r, q)'
  BY <1>2, <1>5, Zenon DEF Processed
<1>9. IndexInv'
  BY <1>0, <1>1, <1>5, <1>8, ExtendsSame, IndexKept, Zenon
<1>10. PlaceInv'
  BY <1>0, <1>1, PlaceKept, Zenon
<1> QED BY <1>0, <1>6, <1>7, <1>9, <1>10, SourceInvAtProcess, MarkInvAtProcess, DestinationInvAtProcess, SlotInvAtProcess DEF MatchInv

LEMMA MatchInductive == PimTypeOK /\ PhaseInv /\ MatchInv /\ [Next]_vars => MatchInv'
<1> SUFFICES ASSUME PimTypeOK, PhaseInv, MatchInv, [Next]_vars PROVE MatchInv'
  OBVIOUS
<1>0. PlaceInv
  BY DEF MatchInv
<1>1. CASE Next
  <2>1. ASSUME NEW f \in Flows, NEW amount \in 1 .. MAX_DEMAND, pim_add_backlog(f, amount) PROVE MatchInv'
    <3>1. UNCHANGED <<edges, phases>>
      BY <2>1, Zenon DEF pim_add_backlog
    <3> QED BY <1>0, <2>1, <3>1, PlaceInvAtAdd, CommMatch, Zenon
  <2>2. CASE pim_flush_backlog
    <3>1. UNCHANGED <<edges, phases>>
      BY <2>2, Zenon DEF pim_flush_backlog
    <3> QED BY <1>0, <2>2, <3>1, PlaceInvAtFlush, CommMatch, Zenon
  <2>3. ASSUME NEW p \in Partitions, Step(p) PROVE MatchInv'
    BY <2>3, EnqueueMatch, PollMatch, PrepareMatch, GrantMatch, CollectGrantsMatch, AcceptMatch, CollectAcceptsMatch, ProcessMatch, Zenon DEF Step
  <2> QED BY <1>1, <2>1, <2>2, <2>3, Zenon DEF Next
<1>2. CASE UNCHANGED vars
  <2>1. UNCHANGED <<edges, phases>> /\ UNCHANGED <<backlog, new_demands, q_new_demands, requests>>
    BY <1>2, Zenon DEF vars, edges, demands
  <2> QED BY <1>0, <2>1, PlaceKept, CommMatch, Zenon
<1> QED BY <1>1, <1>2
-----------------------------------------------------------------------------
(* A flow is in one place.                                                 *)

Count(seq, x) == Cardinality({i \in DOMAIN seq : seq[i] = x})

LEMMA CountAbsent == ASSUME Counting, NEW seq, NEW x, Absent(seq, x) PROVE Count(seq, x) = 0
<1>1. {i \in DOMAIN seq : seq[i] = x} = {}
  BY Zenon DEF Absent
<1> QED BY <1>1, Zenon DEF Count, Counting

LEMMA CountOnce == ASSUME Counting, NEW seq, NEW x, Once(seq, x) PROVE Count(seq, x) = 1
<1>1. PICK i \in DOMAIN seq : seq[i] = x /\ \A j \in DOMAIN seq : seq[j] = x => j = i
  BY Zenon DEF Once
<1>2. {j \in DOMAIN seq : seq[j] = x} = {i}
  BY <1>1
<1> QED BY <1>2, Zenon DEF Count, Counting

CountsTo(n, a, b, c, x, y) ==
    Count(a, x) + Count(b, x) + Count(c, y) = (IF n > 0 THEN 1 ELSE 0)

LEMMA PlaceCounts ==
  ASSUME Counting, NEW n \in Nat, NEW a, NEW b, NEW c, NEW x, NEW y, InPlace(n, a, b, c, x, y)
  PROVE  CountsTo(n, a, b, c, x, y)
<1>1. \/ n = 0 /\ Count(a, x) = 0 /\ Count(b, x) = 0 /\ Count(c, y) = 0
      \/ n # 0 /\ Count(a, x) = 1 /\ Count(b, x) = 0 /\ Count(c, y) = 0
      \/ n # 0 /\ Count(a, x) = 0 /\ Count(b, x) = 1 /\ Count(c, y) = 0
      \/ n # 0 /\ Count(a, x) = 0 /\ Count(b, x) = 0 /\ Count(c, y) = 1
  BY CountAbsent, CountOnce, Zenon DEF InPlace
<1> QED BY <1>1 DEF CountsTo

LEMMA InvOnePlace == Counting /\ PlaceInv => OnePlace
<1> SUFFICES ASSUME Counting, PlaceInv, NEW f \in Flows PROVE places(f) = (IF backlog[f] > 0 THEN 1 ELSE 0)
  BY Zenon DEF OnePlace
<1>1. places(f) = Count(new_demands[SrcP(f)], f) + Count(q_new_demands[SrcP(f)], f) + Count(requests[f[1]], f[2])
  BY DEF places, Count, SrcP
<1>2. backlog[f] \in Nat /\ InPlace(backlog[f], new_demands[SrcP(f)], q_new_demands[SrcP(f)], requests[f[1]], f, f[2])
  BY Zenon DEF PlaceInv
<1>3. CountsTo(backlog[f], new_demands[SrcP(f)], q_new_demands[SrcP(f)], requests[f[1]], f, f[2])
  BY <1>2, PlaceCounts, Zenon
<1> QED BY <1>1, <1>3, Zenon DEF CountsTo

-----------------------------------------------------------------------------
(* Steps of the allocator of AllocatorAbs.                                 *)

LEMMA SlotsSame ==
  ASSUME \A r \in Partitions : \A t \in 1 .. MAX_SLOTS : SlotOf(r, t)' = SlotOf(r, t)
  PROVE  slots_out' = slots_out
<1>1. slots_out = [t \in 1 .. MAX_SLOTS |-> UNION {SlotOf(p, t) : p \in Partitions}]
  BY Zenon DEF slots_out, SlotOf
<1>2. slots_out' = [t \in 1 .. MAX_SLOTS |-> UNION {SlotOf(p, t)' : p \in Partitions}]
  BY Zenon DEF slots_out, SlotOf
<1>3. \A t \in 1 .. MAX_SLOTS : {SlotOf(p, t)' : p \in Partitions} = {SlotOf(p, t) : p \in Partitions}
  BY Zenon
<1> QED BY <1>1, <1>2, <1>3, Zenon

\* A timeslot has what the core of each flow's source has in it.
SlotsAre == \A t \in 1 .. MAX_SLOTS : \A f : f \in slots_out[t] <=> f \in Flows /\ f \in SlotOf(SrcP(f), t)

LEMMA SlotsOutNow == PimTypeOK => SlotsAre
  BY SlotsOut, Zenon DEF SlotsAre

LEMMA CardinalityThere == \A S : Abs!Cardinality(S) = Cardinality(S)
  BY DEF Cardinality, Abs!Cardinality

\* What the cores have in a timeslot is a matching.
LEMMA SlotsMatch ==
  PimTypeOK /\ SourceInv /\ SlotInv /\ DestinationInv => \A t \in 1 .. MAX_SLOTS : Matching(slots_out[t])
<1> SUFFICES ASSUME PimTypeOK, SourceInv, SlotInv, DestinationInv, NEW t \in 1 .. MAX_SLOTS, NEW e \in slots_out[t], NEW f \in slots_out[t], e # f
             PROVE  e[1] # f[1] /\ e[2] # f[2]
  BY Zenon DEF Matching
<1>1. /\ e \in Flows /\ e \in SlotOf(SrcP(e), t) /\ SrcP(e) \in Partitions
      /\ f \in Flows /\ f \in SlotOf(SrcP(f), t)
  BY SlotsOut, EndFacts, Zenon
<1>2. e[2] # f[2]
  BY <1>1, Zenon DEF DestinationInv, Placed
<1>3. ASSUME e[1] = f[1] PROVE FALSE
  <2>1. PICK p \in Partitions : p = SrcP(e)
    BY <1>1
  <2>2. e \in SlotOf(p, t) /\ f \in SlotOf(p, t)
    BY <1>1, <1>3, <2>1, Zenon DEF SrcP
  <2>3. CASE t <= Len(q_admitted_out[p])
    <3>1. e \in q_admitted_out[p][t] /\ f \in q_admitted_out[p][t]
      BY <2>2, <2>3, Zenon DEF SlotOf
    <3>2. t \in DOMAIN q_admitted_out[p]
      BY <2>3, OutFacts, Sizes
    <3> QED BY <1>3, <3>1, <3>2, Zenon DEF SlotInv, SlotOK
  <2>4. CASE ~(t <= Len(q_admitted_out[p]))
    <3>1. e \in admitted[p] /\ f \in admitted[p]
      BY <2>2, <2>4, Zenon DEF SlotOf
    <3> QED BY <1>3, <3>1, Zenon DEF SourceInv, SourceOK
  <2> QED BY <2>3, <2>4
<1> QED BY <1>2, <1>3

LEMMA ServeRefines ==
  ASSUME PimTypeOK, MatchInv, PimTypeOK', MatchInv', NEW p \in Partitions, NEW q \in Partitions, NEW E, Serves(p, q, E)
  PROVE  [Abs!ANext]_<<backlog, slots_out>>
<1>0. GrantInv /\ SourceInv /\ SlotInv /\ IndexInv /\ PlaceInv /\ PlaceInv' /\ SourceInv' /\ SlotInv' /\ DestinationInv'
  BY DEF MatchInv
<1>1. /\ backlog' = [f \in Flows |-> IF f \in E THEN backlog[f] - 1 ELSE backlog[f]]
      /\ \A f \in E : f \in Flows /\ SrcP(f) = p
      /\ InRound(p)
  BY Zenon DEF Serves
<1>2. \A r \in Partitions : \A t \in 1 .. MAX_SLOTS : Grows(p, E, r, t)
  BY SlotServe, Zenon
<1>3. backlog \in [Flows -> Int]
  BY Zenon DEF PimTypeOK, DemandTypeOK
<1>4. CASE E = {}
  <2>1. backlog' = backlog
    BY <1>1, <1>3, <1>4
  <2>2. \A r \in Partitions : \A t \in 1 .. MAX_SLOTS : SlotOf(r, t)' = SlotOf(r, t)
    BY <1>2, <1>4 DEF Grows
  <2> QED BY <2>1, <2>2, SlotsSame
<1>5. CASE E # {}
  <2>1. PICK t0 \in 1 .. MAX_SLOTS : t0 = Len(q_admitted_out[p]) + 1
    <3>1. stage[p] # "prepare"
      BY <1>1 DEF InRound
    <3>2. Len(q_admitted_out[p]) < MAX_SLOTS
      BY <1>0, <3>1, Zenon DEF SlotInv, SlotOK
    <3> QED BY <3>2, OutFacts, Sizes
  <2>2. SlotOf(p, t0) = admitted[p]
    <3>1. stage[p] # "prepare"
      BY <1>1 DEF InRound
    <3>2. ~(t0 <= Len(q_admitted_out[p]))
      BY <2>1, OutFacts, Sizes
    <3> QED BY <2>1, <3>1, <3>2, Zenon DEF SlotOf
  <2>3. \A f \in E : f \notin admitted[p]
    BY <1>0, ServedOnce, Zenon
  \* The flows served are new in the timeslot that core p is filling; nothing else changes.
  <2>4. \A t \in 1 .. MAX_SLOTS : \A f : f \in slots_out'[t] <=> f \in slots_out[t] \/ (f \in E /\ t = t0)
    <3> SUFFICES ASSUME NEW t \in 1 .. MAX_SLOTS, NEW f
                 PROVE  f \in slots_out'[t] <=> f \in slots_out[t] \/ (f \in E /\ t = t0)
      OBVIOUS
    <3>1. f \in slots_out[t] <=> f \in Flows /\ f \in SlotOf(SrcP(f), t)
      BY SlotsOut
    <3>2. f \in slots_out'[t] <=> f \in Flows /\ f \in SlotOf(SrcP(f), t)'
      <4>1. SlotsAre'
        BY SlotsOutNow, PTL
      <4> QED BY <4>1, Zenon DEF SlotsAre
    <3>3. CASE f \in Flows
      <4>1. SrcP(f) \in Partitions
        BY <3>3, EndFacts
      <4>2. Grows(p, E, SrcP(f), t)
        BY <1>2, <4>1, Zenon
      <4> QED BY <1>1, <2>1, <3>1, <3>2, <3>3, <4>2, Zenon DEF Grows
    <3>4. CASE f \notin Flows
      BY <1>1, <3>1, <3>2, <3>4, Zenon
    <3> QED BY <3>3, <3>4
  <2>5. \A f \in E : f \notin slots_out[t0]
    BY <1>1, <2>2, <2>3, SlotsOut, Zenon
  <2>6. \A t \in 1 .. MAX_SLOTS : slots_out[t] \subseteq slots_out'[t] /\ slots_out[t] \subseteq Flows /\ slots_out'[t] \subseteq Flows
    BY <1>1, <2>4, SlotsOut, Zenon
  <2>7. slots_out' \in [1 .. MAX_SLOTS -> SUBSET Flows]
    <3>1. slots_out' = [t \in 1 .. MAX_SLOTS |-> slots_out'[t]]
      BY Zenon DEF slots_out
    <3> QED BY <2>6, <3>1, Zenon
  <2>8. slots_out' # slots_out
    <3>1. PICK f \in E : TRUE
      BY <1>5
    <3>2. f \in slots_out'[t0] /\ f \notin slots_out[t0]
      BY <2>4, <2>5, <3>1, Zenon
    <3> QED BY <3>2
  <2>9. (\A t \in 1 .. MAX_SLOTS : Matching(slots_out[t]))'
    BY <1>0, SlotsMatch, PTL
  <2>10. backlog' \in [Flows -> Nat]
    <3>1. \A f \in Flows : backlog'[f] \in Nat
      BY <1>0, Zenon DEF PlaceInv
    <3> QED BY <1>1, <3>1, Zenon
  <2>11. ASSUME NEW f \in Flows
         PROVE  backlog[f] = backlog'[f] + Cardinality({t \in 1 .. MAX_SLOTS : f \in slots_out'[t] \ slots_out[t]})
    <3>1. CASE f \in E
      <4>1. {t \in 1 .. MAX_SLOTS : f \in slots_out'[t] \ slots_out[t]} = {t0}
        BY <2>4, <2>5, <3>1
      <4>2. Cardinality({t \in 1 .. MAX_SLOTS : f \in slots_out'[t] \ slots_out[t]}) = 1
        BY <4>1, Zenon DEF PimTypeOK, Counting
      <4>3. backlog[f] \in Nat \ {0} /\ backlog'[f] = backlog[f] - 1
        BY <1>0, <1>1, <3>1, ServedFacts, Zenon
      <4>4. \A n \in Nat : \A m, k : m = n - 1 /\ k = 1 => n = m + k
        OBVIOUS
      <4> QED BY <4>2, <4>3, <4>4
    <3>2. CASE f \notin E
      <4>1. {t \in 1 .. MAX_SLOTS : f \in slots_out'[t] \ slots_out[t]} = {}
        BY <2>4, <3>2
      <4>2. Cardinality({t \in 1 .. MAX_SLOTS : f \in slots_out'[t] \ slots_out[t]}) = 0
        BY <4>1, Zenon DEF PimTypeOK, Counting
      <4>3. backlog[f] \in Int /\ backlog'[f] = backlog[f]
        BY <1>1, <1>3, <3>2
      <4>4. \A n \in Int : \A m, k : m = n /\ k = 0 => n = m + k
        OBVIOUS
      <4> QED BY <4>2, <4>3, <4>4, Zenon
    <3> QED BY <3>1, <3>2
  <2>12. Abs!Admit
    BY <2>6, <2>7, <2>8, <2>9, <2>10, <2>11, CardinalityThere, Zenon DEF Abs!Admit
  <2> QED BY <2>12, Zenon DEF Abs!ANext
<1> QED BY <1>4, <1>5

LEMMA StillRefines ==
  ASSUME backlog' = backlog, admitted' = admitted, q_admitted_out' = q_admitted_out,
         \A r \in Partitions : stage'[r] = "prepare" <=> stage[r] = "prepare"
  PROVE  [Abs!ANext]_<<backlog, slots_out>>
<1>1. \A r \in Partitions : \A t \in 1 .. MAX_SLOTS : SlotOf(r, t)' = SlotOf(r, t)
  BY SlotSame, Zenon
<1> QED BY <1>1, SlotsSame

LEMMA StepRefines ==
  ASSUME PimTypeOK, PhaseInv, MatchInv, PimTypeOK', MatchInv', [Next]_vars
  PROVE  [Abs!ANext]_<<backlog, slots_out>>
<1>0. GrantInv /\ AcceptInv /\ PlaceInv
  BY DEF MatchInv
<1>1. ASSUME NEW f \in Flows, NEW amount \in 1 .. MAX_DEMAND, pim_add_backlog(f, amount)
      PROVE  [Abs!ANext]_<<backlog, slots_out>>
  <2>1. backlog' = [backlog EXCEPT ![f] = @ + amount] /\ UNCHANGED <<admitted, q_admitted_out, stage>>
    BY <1>1, Zenon DEF pim_add_backlog, edges, phases
  <2>2. \A r \in Partitions : \A t \in 1 .. MAX_SLOTS : SlotOf(r, t)' = SlotOf(r, t)
    BY <2>1, SlotSame, Zenon
  <2>3. slots_out' = slots_out
    BY <2>2, SlotsSame
  <2>4. amount \in 1 .. backlog'[f]
    <3>1. backlog[f] \in Nat
      BY <1>0, Zenon DEF PlaceInv
    <3>2. backlog'[f] = backlog[f] + amount
      BY <2>1, Zenon DEF PimTypeOK, DemandTypeOK
    <3> QED BY <3>1, <3>2, Sizes
  <2> QED BY <2>1, <2>3, <2>4, Zenon DEF Abs!ANext, Abs!Ask
<1>2. CASE pim_flush_backlog
  <2>1. UNCHANGED <<backlog, admitted, q_admitted_out, stage>>
    BY <1>2, Zenon DEF pim_flush_backlog, edges, phases
  <2> QED BY <2>1, StillRefines, Zenon
<1>3. ASSUME NEW p \in Partitions, Step(p) PROVE [Abs!ANext]_<<backlog, slots_out>>
  <2>1. CASE enqueue_ready(p) \/ poll(p) \/ collect_grants(p)
    <3>1. UNCHANGED <<backlog, admitted, q_admitted_out, stage>>
      BY <2>1, Zenon DEF enqueue_ready, poll, collect_grants, hear, process_new_requests, edges, demands
    <3> QED BY <3>1, StillRefines, Zenon
  <2>2. CASE pim_prepare(p)
    <3>1. backlog' = backlog
      BY <2>2, Zenon DEF pim_prepare, process_new_requests
    <3>2. \A r \in Partitions : \A t \in 1 .. MAX_SLOTS : SlotOf(r, t)' = SlotOf(r, t)
      BY <2>2, SlotPrepare, Zenon
    <3> QED BY <3>1, <3>2, SlotsSame
  <2>3. CASE pim_do_grant(p)
    <3>1. Goes(p, "grant", "accept") /\ UNCHANGED <<demands, admitted, q_admitted_out>>
      BY <2>3, GrantStep, Zenon
    <3>2. \A r \in Partitions : stage'[r] = "prepare" <=> stage[r] = "prepare"
      BY <3>1 DEF Goes
    <3>3. backlog' = backlog
      BY <3>1 DEF demands
    <3> QED BY <3>1, <3>2, <3>3, StillRefines, Zenon
  <2>4. CASE pim_do_accept(p)
    BY <1>0, <2>4, AcceptServes, ServeRefines, Zenon
  <2>5. CASE collect_accepts(p)
    BY <1>0, <2>5, CollectServes, ServeRefines, Zenon
  <2>6. CASE pim_process_accepts(p)
    <3>1. backlog' = backlog
      BY <2>6, Zenon DEF pim_process_accepts, demands
    <3>2. \A r \in Partitions : \A t \in 1 .. MAX_SLOTS : SlotOf(r, t)' = SlotOf(r, t)
      BY <2>6, SlotProcess, Zenon
    <3> QED BY <3>1, <3>2, SlotsSame
  <2> QED BY <1>3, <2>1, <2>2, <2>3, <2>4, <2>5, <2>6, Zenon DEF Step
<1>4. CASE UNCHANGED vars
  <2>1. UNCHANGED <<backlog, admitted, q_admitted_out, stage>>
    BY <1>4, Zenon DEF vars, edges, demands, phases
  <2> QED BY <2>1, StillRefines, Zenon
<1> QED BY <1>1, <1>2, <1>3, <1>4, Zenon DEF Next

LEMMA InitRefines == Init => Abs!AInit
<1> SUFFICES ASSUME Init PROVE Abs!AInit
  OBVIOUS
<1>1. /\ q_admitted_out = [p \in Partitions |-> <<>>] /\ stage = [p \in Partitions |-> "prepare"] /\ backlog = [f \in Flows |-> 0]
  BY Zenon DEF Init, InitCores
<1>2. \A t \in 1 .. MAX_SLOTS : \A p \in Partitions : SlotOf(p, t) = {}
  <2>1. \A t \in 1 .. MAX_SLOTS : ~(t <= Len(<<>>))
    OBVIOUS
  <2> QED BY <1>1, <2>1, Zenon DEF SlotOf
<1>3. slots_out = [t \in 1 .. MAX_SLOTS |-> {}]
  <2>1. slots_out = [t \in 1 .. MAX_SLOTS |-> UNION {SlotOf(p, t) : p \in Partitions}]
    BY Zenon DEF slots_out, SlotOf
  <2>2. \A t \in 1 .. MAX_SLOTS : UNION {SlotOf(p, t) : p \in Partitions} = {}
    BY <1>2
  <2> QED BY <2>1, <2>2, Zenon
<1> QED BY <1>1, <1>3, Zenon DEF Abs!AInit

=============================================================================
