------------------------ MODULE FlowAccountingProofs ------------------------
(***************************************************************************)
(* Demand is never forgotten, and the end node's accounts match its queue  *)
(* (sch_fastpass.c), for every request window, modulus, number of packets  *)
(* in the network, and number of losses and resets.                        *)
(***************************************************************************)
EXTENDS FlowAccounting, TLAPS

Dsts == [demand : Int, requested : Int, acked : Nat, alloc : Int, used : Int, queued : BOOLEAN]

Packet(Body) == [open : BOOLEAN, live : BOOLEAN, got : BOOLEAN, nacked : BOOLEAN,
                 epoch : Nat, body : Body]

Allocated == [n : Nat, report : Int]

Accounts == [demands : Int, alloc_to_dst : Int, acked_allocs : Int, is_pending : BOOLEAN,
             pending : Nat, triggered : BOOLEAN]

FlowTypeOK ==
    /\ dst \in Dsts
    /\ qlen \in Nat /\ gap \in Int /\ owed \in Nat /\ losses \in Nat
    /\ triggered \in BOOLEAN
    /\ building \in Nat \cup {NONE}
    /\ en \in Accounts
    /\ epoch \in [{E, C} -> Nat]
    /\ reqs \in [ReqSlots -> Packet(Nat) \cup {FREE}]
    /\ allocs \in [AllocSlots -> Packet(Allocated) \cup {FREE}]

\* A packet waits for each timeslot that is needed and was not used; the totals say so
\* too until the end node is reset, and after that say no less.
AccountsMatch ==
    /\ qlen = dst.demand - dst.used
    /\ epoch[E] = 0 => gap = qlen + owed
    /\ ~zeroed => gap >= qlen + owed

\* What handle_reset finds: it runs in a new epoch, with every allocation counted.
Zeroing ==
    /\ resetting => epoch[E] > 0
    /\ zeroed => owed = 0 /\ gap >= 0

\* A packet that carries a request for r timeslots, of whose loss the end node will hear
Carries(p, r) == p.open /\ ~p.nacked /\ p.body >= r

Waiting == qlen > 0 /\ ~resetting /\ dst.demand > dst.acked

\* Unless the flow is queued, its last request asks for more than is acked, and is being
\* made or on its way.
LastRequest ==
    Waiting /\ ~dst.queued =>
        /\ dst.requested > dst.acked
        /\ \/ building >= dst.requested
           \/ \E s \in ReqSlots : Carries(reqs[s], dst.requested)

FlowInv == FlowTypeOK /\ AccountsMatch /\ Zeroing /\ (dst.queued => triggered) /\ LastRequest

-----------------------------------------------------------------------------
(* Packets.                                                                *)

Arrived(p) == [p EXCEPT !.live = FALSE, !.got = TRUE]
Lost(p) == [p EXCEPT !.live = FALSE]
Closed(p) == [p EXCEPT !.open = FALSE]
Nacked(p) == [p EXCEPT !.nacked = TRUE]

LEMMA PacketFields ==
  ASSUME NEW Body, NEW p \in Packet(Body)
  PROVE  /\ Arrived(p) \in Packet(Body) /\ Arrived(p).open = p.open
         /\ Arrived(p).nacked = p.nacked /\ Arrived(p).body = p.body
         /\ Lost(p) \in Packet(Body) /\ Lost(p).open = p.open
         /\ Lost(p).nacked = p.nacked /\ Lost(p).body = p.body
         /\ Closed(p) \in Packet(Body) /\ Nacked(p) \in Packet(Body)
<1>1. /\ Arrived(p) \in Packet(Body) /\ Arrived(p).open = p.open
      /\ Arrived(p).nacked = p.nacked /\ Arrived(p).body = p.body
  BY Zenon DEF Packet, Arrived
<1>2. /\ Lost(p) \in Packet(Body) /\ Lost(p).open = p.open
      /\ Lost(p).nacked = p.nacked /\ Lost(p).body = p.body
  BY Zenon DEF Packet, Lost
<1>3. Closed(p) \in Packet(Body)
  BY Zenon DEF Packet, Closed
<1>4. Nacked(p) \in Packet(Body)
  BY Zenon DEF Packet, Nacked
<1> QED BY <1>1, <1>2, <1>3, <1>4

LEMMA FreeFields == FREE.open = FALSE /\ FREE.live = FALSE
  BY DEF FREE

\* An operation on the packet in slot s: the table keeps its type and its other packets,
\* and a request that is still expected is still there.
LEMMA TableTypes ==
  ASSUME NEW Body, NEW Slots, NEW pkts \in [Slots -> Packet(Body) \cup {FREE}],
         NEW s \in Slots, pkts[s] # FREE
  PROVE  /\ processed(pkts, s) \in [Slots -> Packet(Body) \cup {FREE}]
         /\ lost(pkts, s) \in [Slots -> Packet(Body) \cup {FREE}]
         /\ closed(pkts, s) \in [Slots -> Packet(Body) \cup {FREE}]
         /\ nacked(pkts, s) \in [Slots -> Packet(Body) \cup {FREE}]
         /\ \A t \in Slots \ {s} :
              /\ processed(pkts, s)[t] = pkts[t] /\ lost(pkts, s)[t] = pkts[t]
              /\ closed(pkts, s)[t] = pkts[t] /\ nacked(pkts, s)[t] = pkts[t]
         /\ processed(pkts, s)[s] = settle(Arrived(pkts[s]))
         /\ lost(pkts, s)[s] = settle(Lost(pkts[s]))
<1>1. pkts[s] \in Packet(Body)
  OBVIOUS
<1>2. \A p \in Packet(Body) : settle(p) \in Packet(Body) \cup {FREE}
  BY DEF settle
<1>3. /\ processed(pkts, s) = [pkts EXCEPT ![s] = settle(Arrived(pkts[s]))]
      /\ lost(pkts, s) = [pkts EXCEPT ![s] = settle(Lost(pkts[s]))]
      /\ closed(pkts, s) = [pkts EXCEPT ![s] = settle(Closed(pkts[s]))]
      /\ nacked(pkts, s) = [pkts EXCEPT ![s] = Nacked(pkts[s])]
  BY DEF processed, lost, closed, nacked, Arrived, Lost, Closed, Nacked
<1>4. /\ Arrived(pkts[s]) \in Packet(Body) /\ Lost(pkts[s]) \in Packet(Body)
      /\ Closed(pkts[s]) \in Packet(Body) /\ Nacked(pkts[s]) \in Packet(Body)
  BY <1>1, PacketFields
<1> QED BY <1>2, <1>3, <1>4

LEMMA UnackedTypes ==
  ASSUME NEW Body, NEW Slots, NEW pkts \in [Slots -> Packet(Body) \cup {FREE}]
  PROVE  free_unacked(pkts) \in [Slots -> Packet(Body) \cup {FREE}]
<1>1. \A p \in Packet(Body) : settle(Closed(p)) \in Packet(Body) \cup {FREE}
  BY PacketFields DEF settle
<1>2. free_unacked(pkts) =
        [s \in Slots |-> IF pkts[s] = FREE THEN FREE ELSE settle(Closed(pkts[s]))]
  BY DEF free_unacked, Closed
<1> QED BY <1>1, <1>2

LEMMA CommitTypes ==
  ASSUME NEW Body, NEW Slots, NEW pkts \in [Slots -> Packet(Body) \cup {FREE}],
         NEW s \in Slots, NEW e \in Nat, NEW payload \in Body
  PROVE  /\ commit(pkts, s, e, payload) \in [Slots -> Packet(Body) \cup {FREE}]
         /\ \A t \in Slots \ {s} : commit(pkts, s, e, payload)[t] = pkts[t]
         /\ commit(pkts, s, e, payload)[s].open /\ ~commit(pkts, s, e, payload)[s].nacked
         /\ commit(pkts, s, e, payload)[s].body = payload
  BY DEF commit, Packet

\* Arriving or being lost changes nothing of what the end node will hear.
LEMMA StillCarried ==
  ASSUME NEW pkts \in [ReqSlots -> Packet(Nat) \cup {FREE}], NEW s \in ReqSlots, pkts[s] # FREE,
         NEW r, NEW t \in ReqSlots, Carries(pkts[t], r)
  PROVE  Carries(processed(pkts, s)[t], r) /\ Carries(lost(pkts, s)[t], r)
<1>1. CASE t # s
  BY <1>1, TableTypes
<1>2. CASE t = s
  <2> DEFINE p == pkts[s]
  <2>1. p \in Packet(Nat) /\ p.open
    BY <1>2 DEF Carries
  <2> HIDE DEF p
  <2>2. settle(Arrived(p)) = Arrived(p) /\ settle(Lost(p)) = Lost(p)
    BY <2>1, PacketFields DEF settle
  <2>3. Carries(Arrived(p), r) /\ Carries(Lost(p), r)
    BY <1>2, <2>1, PacketFields DEF Carries, p
  <2> QED BY <1>2, <2>2, <2>3, TableTypes DEF p
<1> QED BY <1>1, <1>2

-----------------------------------------------------------------------------
(* The flow.                                                               *)

LEMMA EnqueuedFields ==
  ASSUME NEW d \in Dsts
  PROVE  /\ enqueue(d) \in Dsts /\ enqueue(d).queued = TRUE
         /\ enqueue(d).demand = d.demand /\ enqueue(d).used = d.used
         /\ enqueue(d).requested = d.requested /\ enqueue(d).acked = d.acked
         /\ enqueue(d).alloc = d.alloc
  BY Zenon DEF enqueue, Dsts

LEMMA RebasedFields ==
  ASSUME NEW d \in Dsts
  PROVE  /\ rebased(d) \in Dsts
         /\ rebased(d).demand - rebased(d).used = d.demand - d.used
         /\ d.demand = d.used => rebased(d) = d
         /\ d.demand # d.used => rebased(d).queued = TRUE
<1> DEFINE x == d.demand - d.used
           c == [d EXCEPT !.demand = x, !.requested = 0, !.acked = 0, !.alloc = 0, !.used = 0]
<1>1. d.demand \in Int /\ d.used \in Int /\ x \in Int
  BY DEF Dsts
<1>3. d.demand # d.used => rebased(d) = enqueue(c)
  BY DEF rebased
<1> HIDE DEF x
<1>2. c \in Dsts /\ c.demand = x /\ c.used = 0
  <2> DEFINE o == 0
             c1 == [d EXCEPT !.demand = x, !.requested = o]
             c2 == [c1 EXCEPT !.acked = o, !.alloc = o]
             c3 == [c2 EXCEPT !.used = o]
  <2>1. o \in Nat /\ o \in Int /\ c = c3
    OBVIOUS
  <2> HIDE DEF o
  <2>2. c1 \in Dsts /\ c1.demand = x
    BY <1>1, <2>1, Zenon DEF Dsts
  <2> HIDE DEF c1
  <2>3. c2 \in Dsts /\ c2.demand = x
    BY <2>1, <2>2, Zenon DEF Dsts
  <2> HIDE DEF c2
  <2>4. c3 \in Dsts /\ c3.demand = x /\ c3.used = o
    BY <2>1, <2>3 DEF Dsts
  <2> QED BY <2>1, <2>4 DEF o
<1>4. d.demand = d.used => rebased(d) = d
  BY DEF rebased
<1> HIDE DEF c
<1>5. /\ enqueue(c) \in Dsts /\ enqueue(c).queued = TRUE
      /\ enqueue(c).demand = d.demand - d.used /\ enqueue(c).used = 0
  BY <1>2, EnqueuedFields, Zenon DEF x
<1> QED BY <1>1, <1>3, <1>4, <1>5

\* handle_alloc uses at most what is needed.
LEMMA AllocFields ==
  ASSUME NEW d \in Dsts, d.demand - d.used >= 0, NEW n \in Nat
  PROVE  LET c == after_alloc(d, n)
         IN  /\ c \in Dsts /\ c.used >= d.used /\ c.used <= d.demand
             /\ c.demand = d.demand /\ c.requested = d.requested /\ c.acked = d.acked
             /\ c.queued = d.queued
             /\ c.used <= d.used + n /\ c.alloc = d.alloc + (c.used - d.used)
<1> DEFINE k == smaller(n, d.demand - d.used)
           x == d.alloc + k
           y == d.used + k
           c == [d EXCEPT !.alloc = x, !.used = y]
<1>1. d.demand \in Int /\ d.used \in Int /\ d.alloc \in Int
  BY DEF Dsts
<1>2. k \in Nat /\ k <= d.demand - d.used /\ k <= n /\ x \in Int /\ y \in Int
  BY <1>1 DEF smaller
<1>3. after_alloc(d, n) = c
  BY DEF after_alloc
<1> HIDE DEF k, x, y
<1>4. /\ c \in Dsts /\ c.used = y /\ c.alloc = x
      /\ c.demand = d.demand /\ c.requested = d.requested /\ c.acked = d.acked
      /\ c.queued = d.queued
  BY <1>1, <1>2, Zenon DEF Dsts
<1> HIDE DEF c
<1>5. /\ c.used >= d.used /\ c.used <= d.demand
      /\ c.used <= d.used + n /\ c.alloc = d.alloc + (c.used - d.used)
  BY <1>1, <1>2, <1>4 DEF x, y
<1> QED BY <1>3, <1>4, <1>5

\* A report of lost timeslots makes them needed again.
LEMMA ReportFields ==
  ASSUME NEW d \in Dsts, NEW count \in Int
  PROVE  LET c == after_report(d, count)
         IN  /\ c \in Dsts /\ c.demand - c.used = d.demand - d.used
             /\ count <= d.alloc => c = d
             /\ count > d.alloc => c.queued = TRUE
             /\ c.requested = d.requested /\ c.acked = d.acked /\ c.demand >= d.demand
             /\ d.alloc = d.used => c.alloc = c.used
<1> DEFINE k == count - d.alloc
           x == d.alloc + k
           y == d.used + k
           z == d.demand + k
           c == [d EXCEPT !.alloc = x, !.used = y, !.demand = z]
<1>1. d.demand \in Int /\ d.used \in Int /\ d.alloc \in Int
  BY DEF Dsts
<1>2. k \in Int /\ (k <= 0 <=> count <= d.alloc) /\ (count > d.alloc <=> ~(k <= 0))
  BY <1>1
<1>3. (k <= 0 => after_report(d, count) = d) /\ (~(k <= 0) => after_report(d, count) = enqueue(c))
  BY DEF after_report
<1>7. x \in Int /\ y \in Int /\ z \in Int
  BY <1>1, <1>2
<1> HIDE DEF k, x, y, z
<1>4. /\ c \in Dsts /\ c.used = y /\ c.demand = z /\ c.alloc = x
      /\ c.requested = d.requested /\ c.acked = d.acked
  BY <1>7, Zenon DEF Dsts
<1> HIDE DEF c
<1>5. /\ enqueue(c) \in Dsts /\ enqueue(c).queued = TRUE
      /\ enqueue(c).demand = d.demand + k /\ enqueue(c).used = d.used + k
      /\ enqueue(c).alloc = d.alloc + k
      /\ enqueue(c).requested = d.requested /\ enqueue(c).acked = d.acked
  BY <1>4, EnqueuedFields, Zenon DEF x, y, z
<1>6. (d.demand + k) - (d.used + k) = d.demand - d.used
  BY <1>1, <1>2
<1>8. CASE k <= 0
  BY <1>1, <1>2, <1>3, <1>8
<1>9. CASE ~(k <= 0)
  <2>1. after_report(d, count) = enqueue(c)
    BY <1>3, <1>9
  <2>2. d.demand + k >= d.demand
    BY <1>1, <1>2, <1>9
  <2> QED BY <1>1, <1>2, <1>5, <1>6, <1>9, <2>1, <2>2
<1> QED BY <1>8, <1>9, Zenon

LEMMA CountIsInt ==
  ASSUME NEW low \in Int, NEW ref \in Int
  PROVE  full_count(low, ref) \in Int /\ low % M \in Int
<1>1. M \in Nat /\ M > 0 /\ M \div 2 \in Int
  BY FlowAssumption
<1>2. ref - M \div 2 \in Int /\ low - (ref - M \div 2) \in Int
  BY <1>1
<1>3. (low - (ref - M \div 2)) % M \in Int /\ low % M \in Int
  BY <1>1, <1>2
<1> QED BY <1>2, <1>3 DEF full_count

-----------------------------------------------------------------------------
(* Steps that leave the flow as it is.                                     *)

LEMMA QuietStep ==
  ASSUME FlowInv, FlowTypeOK', UNCHANGED <<dst, qlen, gap, owed, building, rx>>,
         epoch'[E] = epoch[E], triggered => triggered',
         \A t \in ReqSlots : Carries(reqs[t], dst.requested) => Carries(reqs'[t], dst.requested)
  PROVE  FlowInv'
<1>1. AccountsMatch' /\ Zeroing' /\ (dst'.queued => triggered')
  BY DEF FlowInv, AccountsMatch, Zeroing, zeroed, resetting
<1>2. LastRequest'
  BY DEF FlowInv, LastRequest, Waiting, resetting
<1> QED BY <1>1, <1>2 DEF FlowInv

LEMMA AccountsTypes ==
  ASSUME NEW e \in Accounts
  PROVE  /\ trigger_report(e) \in Accounts /\ arbiter_reset(e) \in Accounts
         /\ no_accounts \in Accounts
         /\ \A b \in BOOLEAN : [e EXCEPT !.triggered = b] \in Accounts
<1>1. trigger_report(e) \in Accounts
  BY Zenon DEF Accounts, trigger_report
<1>2. no_accounts \in Accounts
  BY DEF Accounts, no_accounts
<1>3. arbiter_reset(e) \in Accounts
  BY <1>2, Zenon DEF Accounts, arbiter_reset
<1>4. \A b \in BOOLEAN : [e EXCEPT !.triggered = b] \in Accounts
  BY DEF Accounts
<1> QED BY <1>1, <1>2, <1>3, <1>4

LEMMA NotFree ==
  ASSUME FlowTypeOK
  PROVE  /\ \A s \in ReqSlots : reqs[s].live \/ reqs[s].open => reqs[s] # FREE
         /\ \A s \in AllocSlots : allocs[s].live \/ allocs[s].open => allocs[s] # FREE
         /\ \A s \in ReqSlots : reqs[s] # FREE => reqs[s] \in Packet(Nat)
         /\ \A s \in AllocSlots : allocs[s] # FREE => allocs[s] \in Packet(Allocated)
  BY FreeFields DEF FlowTypeOK

LEMMA LoseStep ==
  ASSUME FlowInv, NEW s \in ReqSlots \cup AllocSlots, lose(s)
  PROVE  FlowInv'
<1>1. /\ losses' = losses + 1 /\ UNCHANGED <<endnode, arbiter, epoch, enqueued, resets, bug>>
      /\ FlowTypeOK /\ losses' \in Nat
  BY DEF lose, FlowInv, FlowTypeOK
<1>2. CASE s \in ReqSlots /\ reqs[s].live /\ reqs' = lost(reqs, s) /\ UNCHANGED allocs
  <2>1. reqs[s] # FREE /\ reqs \in [ReqSlots -> Packet(Nat) \cup {FREE}]
    BY <1>1, <1>2, NotFree DEF FlowTypeOK
  <2>2. reqs' \in [ReqSlots -> Packet(Nat) \cup {FREE}]
    BY <1>2, <2>1, TableTypes
  <2>3. FlowTypeOK'
    BY <1>1, <1>2, <2>2 DEF FlowTypeOK, endnode, arbiter
  <2>4. \A t \in ReqSlots : Carries(reqs[t], dst.requested) => Carries(reqs'[t], dst.requested)
    BY <1>2, <2>1, StillCarried
  <2> QED BY <1>1, <2>3, <2>4, QuietStep DEF endnode
<1>3. CASE s \in AllocSlots /\ allocs[s].live /\ allocs' = lost(allocs, s) /\ UNCHANGED reqs
  <2>1. allocs[s] # FREE /\ allocs \in [AllocSlots -> Packet(Allocated) \cup {FREE}]
    BY <1>1, <1>3, NotFree DEF FlowTypeOK
  <2>2. allocs' \in [AllocSlots -> Packet(Allocated) \cup {FREE}]
    BY <1>3, <2>1, TableTypes
  <2>3. FlowTypeOK'
    BY <1>1, <1>3, <2>2 DEF FlowTypeOK, endnode, arbiter
  <2> QED BY <1>1, <1>3, <2>3, QuietStep DEF endnode
<1> QED BY <1>2, <1>3 DEF lose

LEMMA ArbiterRxStep ==
  ASSUME FlowInv, NEW s \in ReqSlots, arbiter_rx(s)
  PROVE  FlowInv'
<1> DEFINE p == reqs[s]
           reset == p.epoch > epoch[C]
           e0 == IF reset THEN arbiter_reset(en) ELSE en
           demand == demand_of(p.body % M, e0.demands)
           grows == p.body > 0 /\ demand > e0.demands
<1>1. /\ p # FREE /\ epoch' = [epoch EXCEPT ![C] = p.epoch]
      /\ en' = [e0 EXCEPT !.demands = IF grows THEN demand ELSE @,
                          !.triggered = @ \/ reset \/ p.body > 0]
      /\ reqs' = processed(reqs, s)
      /\ allocs' = IF reset THEN free_unacked(allocs) ELSE allocs
      /\ UNCHANGED <<endnode, losses>> /\ FlowTypeOK
  BY DEF arbiter_rx, arrives, FlowInv, bounds
<1>2. p \in Packet(Nat) /\ p.epoch \in Nat /\ p.body \in Nat
  BY <1>1, NotFree DEF Packet
<1>3. e0 \in Accounts
  BY <1>1, AccountsTypes DEF FlowTypeOK
<1>4. demand \in Int
  <2> HIDE DEF e0, p
  <2>1. e0.demands \in Int
    BY <1>3 DEF Accounts
  <2>2. p.body \in Int
    BY <1>2
  <2>3. p.body % M \in Int
    BY <2>1, <2>2, CountIsInt, Zenon
  <2> QED BY <2>1, <2>3, CountIsInt, Zenon DEF demand_of
<1>5. en' \in Accounts
  <2> HIDE DEF e0, demand, reset, grows
  <2>1. PICK x \in Int, b \in BOOLEAN : en' = [e0 EXCEPT !.demands = x, !.triggered = b]
    BY <1>1, <1>3, <1>4 DEF Accounts
  <2> QED BY <1>3, <2>1, Zenon DEF Accounts
<1>6. epoch' \in [{E, C} -> Nat]
  BY <1>1, <1>2 DEF FlowTypeOK
<1>7. reqs' \in [ReqSlots -> Packet(Nat) \cup {FREE}]
  BY <1>1, TableTypes DEF FlowTypeOK
<1>8. allocs' \in [AllocSlots -> Packet(Allocated) \cup {FREE}]
  BY <1>1, UnackedTypes DEF FlowTypeOK
<1>9. FlowTypeOK'
  BY <1>1, <1>5, <1>6, <1>7, <1>8 DEF FlowTypeOK, endnode
<1>10. \A t \in ReqSlots : Carries(reqs[t], dst.requested) => Carries(reqs'[t], dst.requested)
  BY <1>1, StillCarried DEF FlowTypeOK
<1>11. epoch'[E] = epoch[E]
  BY <1>1 DEF FlowTypeOK, E, C
<1> QED BY <1>1, <1>9, <1>10, <1>11, QuietStep DEF endnode

LEMMA ArbiterSteps ==
  ASSUME FlowInv, NEW s \in AllocSlots,
         tx_end_node(s) \/ arbiter_handle_ack(s) \/ arbiter_handle_neg_ack(s) \/ arbiter_fall_off(s)
  PROVE  FlowInv'
<1>1. UNCHANGED <<endnode, epoch, reqs, losses>> /\ FlowTypeOK
  BY DEF tx_end_node, arbiter_handle_ack, arbiter_handle_neg_ack, arbiter_fall_off, FlowInv, bounds
<1>2. SUFFICES en' \in Accounts /\ allocs' \in [AllocSlots -> Packet(Allocated) \cup {FREE}]
  <2>1. FlowTypeOK'
    BY <1>1, <1>2 DEF FlowTypeOK, endnode
  <2> QED BY <1>1, <2>1, QuietStep DEF endnode
<1>3. en \in Accounts /\ allocs \in [AllocSlots -> Packet(Allocated) \cup {FREE}]
  BY <1>1 DEF FlowTypeOK
<1>4. CASE tx_end_node(s)
  <2> DEFINE body == [n |-> en.pending,
                      report |-> IF en.is_pending THEN en.alloc_to_dst ELSE NONE]
  <2>1. /\ en' = [en EXCEPT !.pending = 0, !.is_pending = FALSE, !.triggered = FALSE]
        /\ \/ allocs' = allocs
           \/ allocs' = commit(allocs, s, epoch[C], body)
    BY <1>4 DEF tx_end_node
  <2>2. en' \in Accounts
    BY <1>3, <2>1, Zenon DEF Accounts
  <2>3. body \in Allocated /\ epoch[C] \in Nat
    BY <1>1, <1>3 DEF Accounts, Allocated, NONE, FlowTypeOK
  <2> HIDE DEF body
  <2>4. allocs' \in [AllocSlots -> Packet(Allocated) \cup {FREE}]
    BY <1>3, <2>1, <2>3, CommitTypes
  <2> QED BY <2>2, <2>4
<1>5. CASE arbiter_handle_ack(s)
  <2>1. /\ allocs[s] # FREE /\ allocs' = closed(allocs, s)
        /\ \/ en' = en
           \/ en' = [en EXCEPT !.acked_allocs = allocs[s].body.report]
    BY <1>5 DEF arbiter_handle_ack
  <2>2. allocs[s].body.report \in Int
    BY <1>3, <2>1 DEF Packet, Allocated
  <2>3. en' \in Accounts
    BY <1>3, <2>1, <2>2 DEF Accounts
  <2> QED BY <1>3, <2>1, <2>3, TableTypes
<1>6. CASE arbiter_handle_neg_ack(s)
  <2>1. /\ allocs[s] # FREE /\ allocs' = nacked(allocs, s)
        /\ en' = en \/ en' = trigger_report(en)
    BY <1>6 DEF arbiter_handle_neg_ack
  <2> QED BY <1>3, <2>1, TableTypes, AccountsTypes
<1>7. CASE arbiter_fall_off(s)
  BY <1>3, <1>7, TableTypes DEF arbiter_fall_off, arbiter
<1> QED BY <1>4, <1>5, <1>6, <1>7

LEMMA OtherQuietSteps ==
  ASSUME FlowInv,
         \/ Allocator \/ arbiter_proto_reset \/ arbiter_restart
         \/ \E s \in ReqSlots : fall_off(s) \/ arbiter_got_bad_packet(s)
         \/ \E s \in AllocSlots : endnode_got_bad_packet(s)
  PROVE  FlowInv'
<1>1. FlowTypeOK /\ en \in Accounts
  BY DEF FlowInv, FlowTypeOK
<1>2. CASE try_allocation \/ seq_handle_spent
  <2>1. UNCHANGED <<endnode, en, epoch, reqs, allocs, bounds>>
    BY <1>2 DEF try_allocation, seq_handle_spent
  <2>2. FlowTypeOK'
    BY <1>1, <2>1 DEF FlowTypeOK, endnode, bounds
  <2> QED BY <2>1, <2>2, QuietStep DEF endnode
<1>3. CASE process_allocated_traffic
  <2> DEFINE x == en.pending + 1
             y == en.alloc_to_dst + 1
             e == [en EXCEPT !.pending = x, !.alloc_to_dst = y]
  <2>1. UNCHANGED <<endnode, epoch, reqs, allocs, bounds>> /\ en' = trigger_report(e)
    BY <1>3 DEF process_allocated_traffic
  <2>2. x \in Nat /\ y \in Int
    BY <1>1 DEF Accounts
  <2> HIDE DEF x, y
  <2>3. e \in Accounts
    BY <1>1, <2>2, Zenon DEF Accounts
  <2> HIDE DEF e
  <2>4. FlowTypeOK'
    BY <1>1, <2>1, <2>3, AccountsTypes DEF FlowTypeOK, endnode, bounds
  <2> QED BY <2>1, <2>4, QuietStep DEF endnode
<1>4. CASE arbiter_proto_reset \/ arbiter_restart
  <2>1. /\ UNCHANGED <<endnode, reqs, losses>> /\ allocs' = free_unacked(allocs)
        /\ epoch' = [epoch EXCEPT ![C] = latest + 1]
        /\ en' = no_accounts \/ en' = [arbiter_reset(en) EXCEPT !.triggered = TRUE]
    BY <1>4 DEF arbiter_proto_reset, arbiter_restart
  <2>2. latest + 1 \in Nat
    BY <1>1 DEF latest, FlowTypeOK
  <2>3. epoch' \in [{E, C} -> Nat]
    BY <1>1, <2>1, <2>2 DEF FlowTypeOK
  <2>4. en' \in Accounts
    BY <1>1, <2>1, AccountsTypes, Zenon
  <2>5. FlowTypeOK'
    BY <1>1, <2>1, <2>3, <2>4, UnackedTypes DEF FlowTypeOK, endnode
  <2>6. epoch'[E] = epoch[E]
    BY <1>1, <2>1 DEF FlowTypeOK, E, C
  <2> QED BY <2>1, <2>5, <2>6, QuietStep DEF endnode
<1>5. ASSUME NEW s \in ReqSlots, fall_off(s) PROVE FlowInv'
  <2>1. /\ UNCHANGED <<endnode, en, epoch, allocs, losses>> /\ reqs' = closed(reqs, s)
        /\ reqs[s] # FREE /\ reqs[s].nacked
    BY <1>5 DEF fall_off, arbiter, bounds
  <2>2. FlowTypeOK'
    BY <1>1, <2>1, TableTypes DEF FlowTypeOK, endnode
  <2>3. ASSUME NEW t \in ReqSlots, Carries(reqs[t], dst.requested)
        PROVE  Carries(reqs'[t], dst.requested)
    <3>1. t # s
      BY <2>1, <2>3 DEF Carries
    <3> QED BY <1>1, <2>1, <2>3, <3>1, TableTypes DEF FlowTypeOK
  <2> QED BY <2>1, <2>2, <2>3, QuietStep DEF endnode
<1>6. ASSUME NEW s \in ReqSlots, arbiter_got_bad_packet(s) PROVE FlowInv'
  <2>1. /\ UNCHANGED <<endnode, epoch, allocs, losses>> /\ reqs' = lost(reqs, s)
        /\ reqs[s] # FREE /\ en' = [en EXCEPT !.triggered = TRUE]
    BY <1>1, <1>6, NotFree DEF arbiter_got_bad_packet, bounds
  <2>2. FlowTypeOK'
    BY <1>1, <2>1, TableTypes, AccountsTypes, Zenon DEF FlowTypeOK, endnode
  <2>3. \A t \in ReqSlots : Carries(reqs[t], dst.requested) => Carries(reqs'[t], dst.requested)
    BY <1>1, <2>1, StillCarried DEF FlowTypeOK
  <2> QED BY <2>1, <2>2, <2>3, QuietStep DEF endnode
<1>7. ASSUME NEW s \in AllocSlots, endnode_got_bad_packet(s) PROVE FlowInv'
  <2>1. /\ UNCHANGED <<dst, qlen, gap, owed, building, rx, en, epoch, reqs, losses>>
        /\ allocs' = lost(allocs, s) /\ allocs[s] # FREE /\ triggered' = TRUE
    BY <1>1, <1>7, NotFree DEF endnode_got_bad_packet, bounds, arbiter
  <2>2. FlowTypeOK'
    BY <1>1, <2>1, TableTypes DEF FlowTypeOK
  <2> QED BY <2>1, <2>2, QuietStep
<1> QED BY <1>2, <1>3, <1>4, <1>5, <1>6, <1>7 DEF Allocator

-----------------------------------------------------------------------------
(* Steps of the end node.                                                  *)

LEMMA AddStep ==
  ASSUME FlowInv, add_timeslot
  PROVE  FlowInv'
<1> DEFINE x == dst.demand + 1
           d == [dst EXCEPT !.demand = x]
<1>1. /\ dst' = enqueue(d) /\ qlen' = qlen + 1 /\ gap' = gap + 1
      /\ triggered' = (triggered \/ ~dst.queued)
      /\ UNCHANGED <<owed, building, rx, en, epoch, reqs, allocs, losses>>
  BY DEF add_timeslot, arbiter
<1>2. /\ FlowTypeOK /\ AccountsMatch /\ Zeroing /\ dst \in Dsts /\ x \in Int
      /\ (dst.queued => triggered)
      /\ dst.demand \in Int /\ dst.used \in Int /\ qlen \in Nat /\ gap \in Int /\ owed \in Nat
  BY DEF FlowInv, FlowTypeOK, Dsts
<1> HIDE DEF x
<1>3. d \in Dsts /\ d.demand = x /\ d.used = dst.used
  BY <1>2 DEF Dsts
<1> HIDE DEF d
<1>4. dst' \in Dsts /\ dst'.queued = TRUE /\ dst'.demand = x /\ dst'.used = dst.used
  BY <1>1, <1>3, EnqueuedFields, Zenon
<1>5. AccountsMatch' /\ Zeroing'
  BY <1>1, <1>2, <1>4 DEF AccountsMatch, Zeroing, zeroed, resetting, x
<1>6. triggered' = TRUE
  BY <1>1, <1>2, Zenon DEF FlowTypeOK
<1>7. FlowTypeOK'
  BY <1>1, <1>2, <1>4, <1>6 DEF FlowTypeOK
<1> QED BY <1>4, <1>5, <1>6, <1>7 DEF FlowInv, LastRequest

\* The flow leaves the queue only with a request, or when nothing is left to ask for.
LEMMA SendStep ==
  ASSUME FlowInv, send_request
  PROVE  FlowInv'
<1> DEFINE n == new_requested
<1>1. /\ building = NONE /\ triggered' = FALSE
      /\ UNCHANGED <<qlen, gap, owed, rx, en, epoch, reqs, allocs, losses>>
  BY DEF send_request, arbiter, bounds
<1>2. /\ FlowTypeOK /\ AccountsMatch /\ Zeroing /\ LastRequest /\ dst \in Dsts /\ dst.acked \in Nat
      /\ dst.demand \in Int /\ dst.requested \in Int
  BY DEF FlowInv, FlowTypeOK, Dsts
<1>3. n \in Int /\ (dst.demand > dst.acked => n > dst.acked)
  BY <1>2, FlowAssumption DEF new_requested, smaller
<1> HIDE DEF n
<1>4. CASE dst.queued /\ n > dst.acked
  <2>1. building' = n /\ dst' = [dst EXCEPT !.queued = FALSE, !.requested = n]
    BY <1>4 DEF send_request, n
  <2>2. /\ dst' \in Dsts /\ dst'.demand = dst.demand /\ dst'.used = dst.used
        /\ dst'.acked = dst.acked /\ dst'.requested = n /\ dst'.queued = FALSE
    BY <1>2, <1>3, <2>1, Zenon DEF Dsts
  <2>3. n \in Nat
    BY <1>2, <1>3, <1>4
  <2>4. FlowTypeOK' /\ AccountsMatch' /\ Zeroing'
    BY <1>1, <1>2, <2>1, <2>2, <2>3, Zenon DEF FlowTypeOK, AccountsMatch, Zeroing, zeroed, resetting
  <2>5. LastRequest'
    BY <1>3, <1>4, <2>1, <2>2 DEF LastRequest
  <2> QED BY <2>2, <2>4, <2>5 DEF FlowInv
<1>5. CASE ~(dst.queued /\ n > dst.acked)
  <2>1. building' = 0 /\ dst' = [dst EXCEPT !.queued = FALSE]
    BY <1>5 DEF send_request, n
  <2>2. /\ dst' \in Dsts /\ dst'.demand = dst.demand /\ dst'.used = dst.used
        /\ dst'.acked = dst.acked /\ dst'.requested = dst.requested /\ dst'.queued = FALSE
    BY <1>2, <2>1, Zenon DEF Dsts
  <2>3. FlowTypeOK' /\ AccountsMatch' /\ Zeroing'
    BY <1>1, <1>2, <2>1, <2>2, Zenon DEF FlowTypeOK, AccountsMatch, Zeroing, zeroed, resetting
  <2>4. LastRequest'
    <3> SUFFICES ASSUME Waiting'
                 PROVE  /\ dst.requested > dst.acked
                        /\ \E s \in ReqSlots : Carries(reqs[s], dst.requested)
      BY <1>1, <2>2 DEF LastRequest
    <3>1. Waiting /\ ~dst.queued
      BY <1>1, <1>3, <1>5, <2>2 DEF Waiting, resetting
    <3>2. ~(building >= dst.requested) \/ ~(dst.requested > dst.acked)
      BY <1>1, <1>2 DEF NONE
    <3> QED BY <1>2, <3>1, <3>2 DEF LastRequest
  <2> QED BY <2>2, <2>3, <2>4 DEF FlowInv
<1> QED BY <1>4, <1>5

LEMMA CommitStep ==
  ASSUME FlowInv, NEW s \in ReqSlots, send_request_commit(s)
  PROVE  FlowInv'
<1>1. /\ building # NONE /\ reqs[s] = FREE /\ building' = NONE
      /\ reqs' = (IF building = 0 /\ epoch[E] = epoch[C] THEN reqs
                  ELSE commit(reqs, s, epoch[E], building))
      /\ triggered' = (triggered \/ gap # 0)
      /\ UNCHANGED <<dst, qlen, gap, owed, rx, en, epoch, allocs, losses>>
  BY DEF send_request_commit, arbiter, bounds
<1>2. /\ FlowTypeOK /\ AccountsMatch /\ Zeroing /\ LastRequest /\ (dst.queued => triggered)
      /\ building \in Nat /\ epoch[E] \in Nat /\ dst.acked \in Nat /\ dst.requested \in Int
      /\ reqs \in [ReqSlots -> Packet(Nat) \cup {FREE}]
  BY <1>1 DEF FlowInv, FlowTypeOK, Dsts
<1>3. FlowTypeOK' /\ AccountsMatch' /\ Zeroing'
  <2>1. reqs' \in [ReqSlots -> Packet(Nat) \cup {FREE}]
    BY <1>1, <1>2, CommitTypes
  <2>2. triggered' \in BOOLEAN
    BY <1>1
  <2>3. AccountsMatch' /\ Zeroing'
    BY <1>1, <1>2 DEF AccountsMatch, Zeroing, zeroed, resetting
  <2> QED BY <1>1, <1>2, <2>1, <2>2, <2>3 DEF FlowTypeOK
<1>4. ASSUME NEW t \in ReqSlots, Carries(reqs[t], dst.requested)
      PROVE  Carries(reqs'[t], dst.requested)
  <2>1. t # s
    BY <1>1, <1>4, FreeFields DEF Carries
  <2>2. reqs'[t] = reqs[t]
    <3>1. CASE reqs' = reqs
      BY <3>1
    <3>2. CASE reqs' = commit(reqs, s, epoch[E], building)
      BY <1>2, <2>1, <3>2, CommitTypes
    <3> QED BY <1>1, <3>1, <3>2
  <2> QED BY <1>4, <2>2
<1>5. dst.requested > dst.acked /\ building >= dst.requested => Carries(reqs'[s], dst.requested)
  <2> SUFFICES ASSUME dst.requested > dst.acked, building >= dst.requested
               PROVE  Carries(reqs'[s], dst.requested)
    OBVIOUS
  <2>1. building # 0
    BY <1>2
  <2>2. reqs' = commit(reqs, s, epoch[E], building)
    BY <1>1, <2>1
  <2>3. reqs \in [ReqSlots -> Packet(Nat) \cup {FREE}] /\ building \in Nat /\ epoch[E] \in Nat
    BY <1>2
  <2>4. reqs'[s].open /\ ~reqs'[s].nacked /\ reqs'[s].body = building
    BY <2>2, <2>3, CommitTypes
  <2> QED BY <2>3, <2>4 DEF Carries
<1>6. LastRequest'
  BY <1>1, <1>2, <1>4, <1>5 DEF LastRequest, Waiting, resetting
<1> QED BY <1>1, <1>2, <1>3, <1>6, Zenon DEF FlowInv

\* An ack that confirms the last request leaves the flow queued if it needs more.
LEMMA AckStep ==
  ASSUME FlowInv, NEW s \in ReqSlots, handle_ack(s)
  PROVE  FlowInv'
<1> DEFINE p == reqs[s]
           newer == new_acked(p) > dst.acked
           d == IF newer THEN [dst EXCEPT !.acked = new_acked(p)] ELSE dst
           again == newer /\ dst.requested # dst.demand
<1>1. /\ p # FREE /\ reqs' = closed(reqs, s)
      /\ dst' = (IF again THEN enqueue(d) ELSE d)
      /\ triggered' = (triggered \/ (again /\ ~dst.queued))
      /\ UNCHANGED <<qlen, gap, owed, building, rx, en, epoch, allocs, losses>>
  BY DEF handle_ack, arbiter, bounds
<1>2. /\ FlowTypeOK /\ AccountsMatch /\ Zeroing /\ LastRequest /\ (dst.queued => triggered)
      /\ dst \in Dsts /\ dst.acked \in Nat /\ dst.requested \in Int /\ dst.demand \in Int
      /\ reqs \in [ReqSlots -> Packet(Nat) \cup {FREE}]
  BY DEF FlowInv, FlowTypeOK, Dsts
<1>3. p.body \in Nat /\ new_acked(p) = p.body
  BY <1>1, <1>2 DEF Packet, new_acked
<1>4. /\ d \in Dsts /\ d.demand = dst.demand /\ d.used = dst.used /\ d.queued = dst.queued
      /\ d.requested = dst.requested
      /\ newer => d.acked = p.body
      /\ ~newer => d.acked = dst.acked
  <2> DEFINE a == p.body
  <2>1. CASE newer
    <3>1. d = [dst EXCEPT !.acked = a]
      BY <1>3, <2>1
    <3>2. a \in Nat
      BY <1>3
    <3> HIDE DEF a, d
    <3> QED BY <1>2, <2>1, <3>1, <3>2 DEF Dsts, a
  <2>2. CASE ~newer
    BY <1>2, <2>2
  <2> QED BY <2>1, <2>2
<1> HIDE DEF d
<1>5. /\ dst' \in Dsts /\ dst'.demand = dst.demand /\ dst'.used = dst.used
      /\ dst'.requested = dst.requested /\ dst'.acked = d.acked
      /\ dst'.queued <=> again \/ dst.queued
  BY <1>1, <1>4, EnqueuedFields, Zenon
<1>6. reqs' \in [ReqSlots -> Packet(Nat) \cup {FREE}] /\ \A t \in ReqSlots \ {s} : reqs'[t] = reqs[t]
  <2>1. reqs' = closed(reqs, s) /\ reqs[s] # FREE /\ reqs \in [ReqSlots -> Packet(Nat) \cup {FREE}]
    BY <1>1, <1>2
  <2> QED BY <2>1, TableTypes
<1>7. triggered' \in BOOLEAN /\ (dst'.queued => triggered')
  BY <1>1, <1>2, <1>5, Zenon DEF FlowTypeOK
<1>8. FlowTypeOK' /\ AccountsMatch' /\ Zeroing'
  <2>1. AccountsMatch' /\ Zeroing'
    BY <1>1, <1>2, <1>5 DEF AccountsMatch, Zeroing, zeroed, resetting
  <2> QED BY <1>1, <1>2, <1>5, <1>6, <1>7, <2>1 DEF FlowTypeOK
<1>9. LastRequest'
  <2> SUFFICES ASSUME Waiting', ~dst'.queued
               PROVE  /\ dst.requested > d.acked
                      /\ \/ building >= dst.requested
                         \/ \E t \in ReqSlots : Carries(reqs'[t], dst.requested)
    BY <1>1, <1>5 DEF LastRequest
  <2>1. ~again /\ ~dst.queued /\ dst.demand > d.acked
    BY <1>5 DEF Waiting
  <2>2. d.acked >= dst.acked /\ d.acked \in Nat
    BY <1>2, <1>3, <1>4 DEF Dsts
  <2>3. Waiting
    BY <1>1, <1>2, <1>5, <2>1, <2>2 DEF Waiting, resetting
  <2>4. /\ dst.requested > dst.acked
        /\ \/ building >= dst.requested
           \/ \E t \in ReqSlots : Carries(reqs[t], dst.requested)
    BY <1>2, <2>1, <2>3 DEF LastRequest
  <2>5. dst.requested > d.acked
    BY <1>2, <1>4, <2>1, <2>4
  <2>6. ASSUME NEW t \in ReqSlots, Carries(reqs[t], dst.requested)
        PROVE  Carries(reqs'[t], dst.requested)
    <3>1. t # s
      BY <1>2, <1>3, <1>4, <2>5, <2>6 DEF Carries
    <3> QED BY <1>6, <2>6, <3>1
  <2> QED BY <2>4, <2>5, <2>6
<1> QED BY <1>7, <1>8, <1>9 DEF FlowInv

\* The loss of the last request puts the flow back into the queue.
LEMMA NackStep ==
  ASSUME FlowInv, NEW s \in ReqSlots, handle_neg_ack(s)
  PROVE  FlowInv'
<1> DEFINE p == reqs[s]
           again == nack_queues(p)
<1>1. /\ p # FREE /\ reqs' = nacked(reqs, s)
      /\ dst' = (IF again THEN enqueue(dst) ELSE dst)
      /\ triggered' = (triggered \/ (again /\ ~dst.queued))
      /\ UNCHANGED <<qlen, gap, owed, building, rx, en, epoch, allocs, losses>>
  BY DEF handle_neg_ack, arbiter, bounds
<1>2. /\ FlowTypeOK /\ AccountsMatch /\ Zeroing /\ LastRequest /\ (dst.queued => triggered)
      /\ dst \in Dsts /\ dst.acked \in Nat /\ dst.requested \in Int
      /\ reqs \in [ReqSlots -> Packet(Nat) \cup {FREE}]
  BY DEF FlowInv, FlowTypeOK, Dsts
<1>3. p.body \in Nat
  BY <1>1, <1>2 DEF Packet
<1>4. /\ dst' \in Dsts /\ dst'.demand = dst.demand /\ dst'.used = dst.used
      /\ dst'.requested = dst.requested /\ dst'.acked = dst.acked
      /\ dst'.queued <=> again \/ dst.queued
  <2>1. dst' = (IF again THEN enqueue(dst) ELSE dst) /\ dst \in Dsts
    BY <1>1, <1>2
  <2> HIDE DEF again
  <2>2. CASE again
    BY <2>1, <2>2, EnqueuedFields, Zenon
  <2>3. CASE ~again
    BY <2>1, <2>3
  <2> QED BY <2>2, <2>3
<1>5. reqs' \in [ReqSlots -> Packet(Nat) \cup {FREE}] /\ \A t \in ReqSlots \ {s} : reqs'[t] = reqs[t]
  <2>1. reqs' = nacked(reqs, s) /\ reqs[s] # FREE /\ reqs \in [ReqSlots -> Packet(Nat) \cup {FREE}]
    BY <1>1, <1>2
  <2> QED BY <2>1, TableTypes
<1>6. triggered' \in BOOLEAN /\ (dst'.queued => triggered')
  BY <1>1, <1>2, <1>4, Zenon DEF FlowTypeOK
<1>7. FlowTypeOK' /\ AccountsMatch' /\ Zeroing'
  <2>1. AccountsMatch' /\ Zeroing'
    BY <1>1, <1>2, <1>4 DEF AccountsMatch, Zeroing, zeroed, resetting
  <2> QED BY <1>1, <1>2, <1>4, <1>5, <1>6, <2>1 DEF FlowTypeOK
<1>8. LastRequest'
  <2> SUFFICES ASSUME Waiting', ~dst'.queued
               PROVE  /\ dst.requested > dst.acked
                      /\ \/ building >= dst.requested
                         \/ \E t \in ReqSlots : Carries(reqs'[t], dst.requested)
    BY <1>1, <1>4 DEF LastRequest
  <2>1. ~again /\ ~dst.queued /\ Waiting
    BY <1>1, <1>4 DEF Waiting, resetting
  <2>2. /\ dst.requested > dst.acked
        /\ \/ building >= dst.requested
           \/ \E t \in ReqSlots : Carries(reqs[t], dst.requested)
    BY <1>2, <2>1 DEF LastRequest
  <2>3. ASSUME NEW t \in ReqSlots, Carries(reqs[t], dst.requested)
        PROVE  Carries(reqs'[t], dst.requested)
    <3>1. t # s
      BY <1>2, <1>3, <2>1, <2>2, <2>3 DEF Carries, nack_queues
    <3> QED BY <1>5, <2>3, <3>1
  <2> QED BY <2>2, <2>3
<1> QED BY <1>6, <1>7, <1>8 DEF FlowInv

\* A new epoch begins: until handle_reset is done nothing is claimed of the requests.
LEMMA NewEpochSteps ==
  ASSUME FlowInv,
         \/ zero_totals \/ endnode_reset
         \/ \E s \in AllocSlots : endnode_rx_reset(s)
  PROVE  FlowInv'
<1>1. /\ FlowTypeOK /\ AccountsMatch /\ Zeroing /\ (dst.queued => triggered)
      /\ epoch \in [{E, C} -> Nat] /\ epoch[E] \in Nat /\ epoch[C] \in Nat
  BY DEF FlowInv, FlowTypeOK
<1>2. /\ gap' = 0 /\ owed = 0 /\ rx'.at \in {BARE, LOCKED}
      /\ UNCHANGED <<dst, qlen, owed, triggered, building, en, allocs, losses>>
  BY DEF zero_totals, endnode_reset, endnode_rx_reset, new_epoch, at, arbiter, bounds
<1>3. /\ epoch' \in [{E, C} -> Nat] /\ epoch'[E] > 0
      /\ reqs' \in [ReqSlots -> Packet(Nat) \cup {FREE}]
  <2>1. free_unacked(reqs) \in [ReqSlots -> Packet(Nat) \cup {FREE}]
    BY <1>1, UnackedTypes DEF FlowTypeOK
  <2>2. ASSUME NEW e \in Nat, e > 0, NEW s, new_epoch(e, s)
        PROVE  /\ epoch' \in [{E, C} -> Nat] /\ epoch'[E] > 0
               /\ reqs' \in [ReqSlots -> Packet(Nat) \cup {FREE}]
    BY <1>1, <2>1, <2>2 DEF new_epoch
  <2>3. CASE zero_totals
    <3>1. resetting /\ UNCHANGED <<epoch, reqs>>
      BY <2>3 DEF zero_totals, resetting
    <3> QED BY <1>1, <3>1 DEF Zeroing, FlowTypeOK
  <2>4. CASE endnode_reset
    <3>1. latest + 1 \in Nat /\ latest + 1 > 0
      BY <1>1 DEF latest
    <3>2. new_epoch(latest + 1, NONE)
      BY <2>4 DEF endnode_reset
    <3> QED BY <2>2, <3>1, <3>2
  <2>5. ASSUME NEW s \in AllocSlots, endnode_rx_reset(s)
        PROVE  /\ epoch' \in [{E, C} -> Nat] /\ epoch'[E] > 0
               /\ reqs' \in [ReqSlots -> Packet(Nat) \cup {FREE}]
    <3>1. allocs[s] # FREE /\ allocs[s].epoch > epoch[E] /\ new_epoch(allocs[s].epoch, s)
      BY <2>5 DEF endnode_rx_reset, arrives
    <3>2. allocs[s].epoch \in Nat
      BY <1>1, <3>1, NotFree DEF Packet
    <3>3. allocs[s].epoch > 0
      BY <1>1, <3>1, <3>2
    <3> QED BY <2>2, <3>1, <3>2, <3>3
  <2> QED BY <2>3, <2>4, <2>5
<1>4. resetting' /\ zeroed'
  BY <1>2 DEF resetting, zeroed
<1>5. FlowTypeOK'
  BY <1>1, <1>2, <1>3 DEF FlowTypeOK
<1>6. AccountsMatch' /\ Zeroing'
  <2>1. epoch'[E] # 0
    BY <1>3
  <2>2. gap' >= 0
    BY <1>2
  <2> QED BY <1>1, <1>2, <1>3, <1>4, <2>1, <2>2, Zenon DEF AccountsMatch, Zeroing
<1>7. LastRequest'
  BY <1>4 DEF LastRequest, Waiting
<1> QED BY <1>1, <1>2, <1>5, <1>6, <1>7, Zenon DEF FlowInv

\* The loop of handle_reset: what is needed is added to what was queued meanwhile.
LEMMA RebaseStep ==
  ASSUME FlowInv, rebase
  PROVE  FlowInv'
<1> DEFINE bad == rx = at(LOCKED, NONE)
<1>1. /\ dst' = rebased(dst) /\ gap' = gap + (dst.demand - dst.used) /\ zeroed
      /\ triggered' = (triggered \/ rebased(dst).queued # dst.queued \/ bad)
      /\ rx'.at \in {IDLE, PAYLOADS}
      /\ UNCHANGED <<qlen, owed, building, en, epoch, reqs, allocs, losses>>
  BY DEF rebase, still_needed, at, arbiter, bounds
<1> HIDE DEF bad
<1>2. /\ FlowTypeOK /\ AccountsMatch /\ Zeroing /\ (dst.queued => triggered) /\ dst \in Dsts
      /\ dst.queued \in BOOLEAN /\ dst.demand \in Int /\ dst.used \in Int /\ gap \in Int
      /\ owed \in Nat /\ qlen \in Nat
  BY DEF FlowInv, FlowTypeOK, Dsts
<1>3. /\ dst' \in Dsts /\ dst'.demand - dst'.used = dst.demand - dst.used
      /\ dst.demand # dst.used => dst'.queued = TRUE
      /\ dst.demand = dst.used => dst' = dst
  BY <1>1, <1>2, RebasedFields, Zenon
<1>4. triggered' \in BOOLEAN /\ (dst'.queued => triggered')
  BY <1>1, <1>2, <1>3, Zenon DEF FlowTypeOK
<1>5. ~zeroed' /\ ~resetting'
  BY <1>1 DEF zeroed, resetting, IDLE, FORCED, BARE, LOCKED, PAYLOADS
<1>6. AccountsMatch' /\ Zeroing'
  <2>1. owed = 0 /\ gap >= 0 /\ epoch[E] > 0 /\ qlen = dst.demand - dst.used
    BY <1>1, <1>2 DEF AccountsMatch, Zeroing, zeroed, resetting
  <2>2. epoch[E] # 0
    BY <2>1
  <2>3. gap' >= qlen + owed
    BY <1>1, <1>2, <2>1
  <2> QED BY <1>1, <1>3, <1>5, <2>1, <2>2, <2>3 DEF AccountsMatch, Zeroing
<1>7. FlowTypeOK'
  <2>1. gap' \in Int
    BY <1>1, <1>2
  <2> QED BY <1>1, <1>2, <1>3, <1>4, <2>1, Zenon DEF FlowTypeOK
<1>8. LastRequest'
  <2>1. CASE dst.demand = dst.used
    <3>1. qlen' = 0
      BY <1>1, <1>2, <2>1 DEF AccountsMatch
    <3> QED BY <3>1 DEF LastRequest, Waiting
  <2>2. CASE dst.demand # dst.used
    BY <1>3, <2>2 DEF LastRequest
  <2> QED BY <2>1, <2>2
<1> QED BY <1>4, <1>6, <1>7, <1>8 DEF FlowInv

\* handle_alloc's late addition to the total
LEMMA CountStep ==
  ASSUME FlowInv, count_alloc
  PROVE  FlowInv'
<1>1. /\ owed > 0 /\ owed' = owed - 1 /\ gap' = gap - 1
      /\ UNCHANGED <<dst, qlen, triggered, building, rx, en, epoch, reqs, allocs, losses>>
  BY DEF count_alloc, arbiter, bounds
<1>2. /\ FlowTypeOK /\ AccountsMatch /\ Zeroing /\ LastRequest /\ (dst.queued => triggered)
      /\ gap \in Int /\ owed \in Nat /\ qlen \in Nat
  BY DEF FlowInv, FlowTypeOK
<1>3. FlowTypeOK'
  BY <1>1, <1>2 DEF FlowTypeOK
<1>4. AccountsMatch' /\ Zeroing'
  BY <1>1, <1>2 DEF AccountsMatch, Zeroing, zeroed, resetting
<1>5. LastRequest'
  BY <1>1, <1>2 DEF LastRequest, Waiting, resetting
<1> QED BY <1>1, <1>2, <1>3, <1>4, <1>5 DEF FlowInv

\* The payloads of a packet of the arbiter: a report of losses queues the flow, and
\* allocations only use up what is needed.
LEMMA EndnodeRxStep ==
  ASSUME FlowInv, NEW s \in AllocSlots, endnode_rx(s)
  PROVE  FlowInv'
<1> DEFINE p == allocs[s]
           d1(missed) == after_alloc(dst, p.body.n - missed)
           count(missed) == reported(p, d1(missed))
           larger(missed) == count(missed) > d1(missed).alloc /\ count(missed) > d1(missed).requested
<1>1. PICK missed \in 0 .. smaller(p.body.n, MAX_LOSS - losses) :
        /\ dst' = IF larger(missed) THEN d1(missed) ELSE after_report(d1(missed), count(missed))
        /\ losses' = losses + missed
        /\ qlen' = qlen - (d1(missed).used - dst.used)
        /\ owed' = d1(missed).used - dst.used
        /\ rx' = at(IF larger(missed) THEN FORCED ELSE IDLE, NONE)
        /\ epoch' = IF larger(missed) THEN [epoch EXCEPT ![E] = latest + 1] ELSE epoch
        /\ reqs' = IF larger(missed) THEN free_unacked(reqs) ELSE reqs
  BY Zenon DEF endnode_rx
<1>2. /\ p # FREE /\ allocs' = processed(allocs, s)
      /\ triggered' = (triggered \/ p.body.n > 0 \/ p.body.report # NONE)
      /\ UNCHANGED <<gap, building, en>>
  BY Zenon DEF endnode_rx, arrives, arbiter
<1>a. ~resetting /\ ~zeroed /\ owed = 0
  <2>0. rx \in {at(IDLE, NONE), at(PAYLOADS, s)} /\ owed = 0
    BY Zenon DEF endnode_rx
  <2>1. rx.at \in {IDLE, PAYLOADS} /\ owed = 0
    BY <2>0 DEF at
  <2> QED BY <2>1 DEF zeroed, resetting, IDLE, FORCED, BARE, LOCKED, PAYLOADS
<1>3. /\ FlowTypeOK /\ AccountsMatch /\ LastRequest /\ (dst.queued => triggered)
      /\ dst \in Dsts /\ qlen \in Nat /\ gap \in Int
      /\ dst.queued \in BOOLEAN /\ dst.demand \in Int /\ dst.used \in Int /\ losses \in Nat
  BY DEF FlowInv, FlowTypeOK, Dsts
<1>4. /\ p \in Packet(Allocated) /\ p.epoch \in Nat /\ p.body.n \in Nat /\ p.body.report \in Int
  BY <1>2, <1>3, Zenon DEF FlowTypeOK, Packet, Allocated
<1>5. dst.demand - dst.used = qlen /\ gap >= qlen /\ (epoch[E] = 0 => gap = qlen)
  BY <1>a, <1>3 DEF AccountsMatch
<1>6. missed \in Nat /\ p.body.n - missed \in Nat /\ losses' \in Nat
  <2> DEFINE m == p.body.n
  <2>0. MAX_LOSS \in Nat
    BY FlowAssumption
  <2>1. m \in Nat /\ MAX_LOSS - losses \in Int /\ missed \in 0 .. smaller(m, MAX_LOSS - losses)
    <3>1. MAX_LOSS - losses \in Int
      BY <1>3, <2>0
    <3> QED BY <1>1, <1>4, <3>1, Zenon
  <2>3. losses' = losses + missed
    BY <1>1, Zenon
  <2> HIDE DEF m
  <2>2. missed \in Nat /\ m - missed \in Nat
    BY <2>1 DEF smaller
  <2> QED BY <1>3, <2>2, <2>3 DEF m
<1> DEFINE c == d1(missed)
<1>7. /\ c \in Dsts /\ c.used >= dst.used /\ c.used <= dst.demand
      /\ c.demand = dst.demand /\ c.requested = dst.requested /\ c.acked = dst.acked
      /\ c.queued = dst.queued
  <2> DEFINE n == p.body.n - missed
  <2>1. n \in Nat
    BY <1>6
  <2>2. dst.demand - dst.used >= 0
    BY <1>3, <1>5
  <2>3. c = after_alloc(dst, n)
    OBVIOUS
  <2> HIDE DEF n, c, p
  <2>4. /\ after_alloc(dst, n) \in Dsts
        /\ after_alloc(dst, n).used >= dst.used /\ after_alloc(dst, n).used <= dst.demand
        /\ after_alloc(dst, n).demand = dst.demand
        /\ after_alloc(dst, n).requested = dst.requested /\ after_alloc(dst, n).acked = dst.acked
        /\ after_alloc(dst, n).queued = dst.queued
    BY <1>3, <2>1, <2>2, AllocFields
  <2> QED BY <2>3, <2>4
<1> HIDE DEF d1
<1>8. count(missed) \in Int /\ (p.body.report = NONE => count(missed) = c.alloc)
  <2>1. c.alloc \in Int
    BY <1>7 DEF Dsts
  <2>2. p.body.report % M \in Int
    BY <1>4, <2>1, CountIsInt
  <2> QED BY <2>1, <2>2, CountIsInt, Zenon DEF reported
<1> DEFINE k == count(missed)
<1> HIDE DEF count, c
<1>9. /\ dst' = c \/ dst' = after_report(c, k)
      /\ ~larger(missed) => dst' = after_report(c, k)
      /\ qlen' = qlen - (c.used - dst.used) /\ owed' = c.used - dst.used
  BY <1>1 DEF c
<1>b. /\ larger(missed) => resetting' /\ ~zeroed' /\ epoch' = [epoch EXCEPT ![E] = latest + 1]
      /\ ~larger(missed) => ~resetting' /\ ~zeroed' /\ epoch' = epoch /\ reqs' = reqs
  <2> HIDE DEF larger
  <2>1. /\ larger(missed) => rx'.at = FORCED /\ epoch' = [epoch EXCEPT ![E] = latest + 1]
        /\ ~larger(missed) => rx'.at = IDLE /\ epoch' = epoch /\ reqs' = reqs
    BY <1>1 DEF at
  <2> QED BY <2>1 DEF zeroed, resetting, IDLE, FORCED, BARE, LOCKED
<1>10. /\ after_report(c, k) \in Dsts
       /\ after_report(c, k).demand - after_report(c, k).used = c.demand - c.used
       /\ k <= c.alloc => after_report(c, k) = c
       /\ k > c.alloc => after_report(c, k).queued = TRUE
  BY <1>7, <1>8, ReportFields, Zenon
<1>11. dst' \in Dsts /\ dst'.demand - dst'.used = c.demand - c.used
  BY <1>7, <1>9, <1>10
<1>12. /\ qlen' \in Nat /\ owed' \in Nat /\ qlen' <= qlen /\ qlen' = c.demand - c.used
       /\ qlen' + owed' = qlen
  <2>1. c.used \in Int
    BY <1>7 DEF Dsts
  <2>2. /\ qlen \in Nat /\ dst.demand - dst.used = qlen /\ dst.demand \in Int /\ dst.used \in Int
        /\ c.used >= dst.used /\ c.used <= dst.demand /\ c.demand = dst.demand
        /\ qlen' = qlen - (c.used - dst.used) /\ owed' = c.used - dst.used
    BY <1>3, <1>5, <1>7, <1>9, Zenon
  <2> HIDE DEF larger, p
  <2> QED BY <2>1, <2>2
<1>15. /\ epoch' \in [{E, C} -> Nat] /\ reqs' \in [ReqSlots -> Packet(Nat) \cup {FREE}]
       /\ allocs' \in [AllocSlots -> Packet(Allocated) \cup {FREE}]
       /\ larger(missed) => epoch'[E] > 0
  <2>1. latest + 1 \in Nat /\ latest + 1 > 0
    BY <1>3 DEF latest, FlowTypeOK
  <2> HIDE DEF larger
  <2>2. epoch' \in [{E, C} -> Nat] /\ (larger(missed) => epoch'[E] = latest + 1)
    BY <1>b, <1>3, <2>1, Zenon DEF FlowTypeOK
  <2>3. reqs' \in [ReqSlots -> Packet(Nat) \cup {FREE}]
    BY <1>1, <1>3, UnackedTypes DEF FlowTypeOK
  <2>4. allocs' \in [AllocSlots -> Packet(Allocated) \cup {FREE}]
    BY <1>2, <1>3, TableTypes DEF FlowTypeOK
  <2> QED BY <2>1, <2>2, <2>3, <2>4
<1>13. AccountsMatch' /\ Zeroing'
  <2> HIDE DEF larger
  <2>1. qlen' = dst'.demand - dst'.used
    BY <1>11, <1>12
  <2>2. gap' >= qlen' + owed' /\ (epoch[E] = 0 => gap' = qlen' + owed')
    BY <1>2, <1>5, <1>12
  <2>3. CASE larger(missed)
    <3>1. epoch'[E] > 0 /\ epoch'[E] # 0
      BY <1>15, <2>3
    <3> QED BY <1>b, <2>1, <2>2, <2>3, <3>1, Zenon DEF AccountsMatch, Zeroing
  <2>4. CASE ~larger(missed)
    BY <1>b, <2>1, <2>2, <2>4, Zenon DEF AccountsMatch, Zeroing
  <2> QED BY <2>3, <2>4
<1>14. triggered' \in BOOLEAN /\ (dst'.queued => triggered')
  <2>1. triggered' \in BOOLEAN /\ c.alloc \in Int
    BY <1>2, <1>7 DEF Dsts
  <2>2. CASE k > c.alloc
    <3>1. k # c.alloc
      BY <2>1, <2>2
    <3>2. p.body.report # NONE
      BY <1>8, <3>1 DEF k
    <3>3. triggered' = TRUE
      BY <1>2, <3>2
    <3> QED BY <3>3
  <2>3. CASE ~(k > c.alloc)
    <3>1. dst' = c
      <4>1. k \in Int
        BY <1>8 DEF k
      <4>2. k <= c.alloc
        BY <2>1, <2>3, <4>1
      <4>3. after_report(c, k) = c
        BY <1>10, <4>2
      <4> QED BY <1>9, <4>3
    <3> QED BY <1>2, <1>3, <1>7, <2>1, <3>1
  <2> QED BY <2>2, <2>3
<1>16. FlowTypeOK'
  BY <1>2, <1>3, <1>6, <1>11, <1>12, <1>14, <1>15, Zenon DEF FlowTypeOK
<1>17. LastRequest'
  <2> SUFFICES ASSUME Waiting', ~dst'.queued
               PROVE  /\ dst'.requested > dst'.acked
                      /\ \/ building' >= dst'.requested
                         \/ \E t \in ReqSlots : Carries(reqs'[t], dst'.requested)
    BY DEF LastRequest
  <2>1. ~larger(missed) /\ qlen' > 0
    BY <1>b, Zenon DEF Waiting
  <2>2. c.alloc \in Int /\ k \in Int
    BY <1>7, <1>8 DEF Dsts
  <2>3. dst' = c
    <3>1. dst' = after_report(c, k)
      BY <1>9, <2>1
    <3>2. CASE k > c.alloc
      BY <1>10, <3>1, <3>2
    <3>3. CASE k <= c.alloc
      BY <1>10, <3>1, <3>3
    <3> QED BY <2>2, <3>2, <3>3
  <2>4. qlen > 0
    <3>1. qlen \in Nat /\ qlen' \in Nat /\ qlen' <= qlen
      BY <1>3, <1>12
    <3> QED BY <2>1, <3>1
  <2>5. reqs' = reqs
    BY <1>b, <2>1
  <2>6. /\ dst'.demand = dst.demand /\ dst'.requested = dst.requested /\ dst'.acked = dst.acked
        /\ ~dst.queued
    BY <1>7, <2>3
  <2>7. Waiting
    BY <1>a, <2>4, <2>6 DEF Waiting
  <2> QED BY <1>2, <1>3, <2>5, <2>6, <2>7, Zenon DEF LastRequest
<1> QED BY <1>13, <1>14, <1>16, <1>17 DEF FlowInv

LEMMA InitFlow ==
  ASSUME NEW k \in Nat, AtRest(k)
  PROVE  FlowInv
<1>1. /\ dst \in Dsts /\ dst.queued = FALSE /\ dst.demand = k /\ dst.used = k
      /\ dst.acked = k
  BY DEF AtRest, Dsts
<1>2. en \in Accounts
  <2>1. no_accounts \in Accounts
    BY DEF Accounts, no_accounts
  <2>2. k \in Int /\ en = [no_accounts EXCEPT !.demands = k, !.alloc_to_dst = k, !.acked_allocs = k]
    BY DEF AtRest
  <2> QED BY <2>1, <2>2, Zenon DEF Accounts
<1>3. FlowTypeOK
  <2>1. 0 \in Nat /\ 0 \in Int
    OBVIOUS
  <2> QED BY <1>1, <1>2, <2>1, Zenon DEF AtRest, FlowTypeOK
<1>4. AccountsMatch /\ Zeroing /\ LastRequest
  BY <1>1 DEF AtRest, AccountsMatch, Zeroing, LastRequest, Waiting, zeroed, resetting, at,
              IDLE, FORCED, BARE, LOCKED
<1> QED BY <1>1, <1>3, <1>4 DEF FlowInv

-----------------------------------------------------------------------------
\* These facts hold together in every reachable state, however often control
\* packets are lost or reordered and either side is reset.
THEOREM FlowInductive == Spec => []FlowInv
<1>1. Init => FlowInv
  BY InitFlow DEF Init
<1>2. FlowInv /\ [Next]_vars => FlowInv'
  <2> SUFFICES ASSUME FlowInv, [Next]_vars PROVE FlowInv'
    OBVIOUS
  <2>1. CASE UNCHANGED vars
    <3>1. FlowTypeOK'
      BY <2>1 DEF FlowInv, FlowTypeOK, vars, endnode, arbiter, bounds
    <3> QED BY <2>1, <3>1, QuietStep DEF vars, endnode
  <2>2. CASE add_timeslot \/ send_request \/ zero_totals \/ rebase \/ count_alloc \/ Allocator \/ Resets
    BY <2>2, AddStep, SendStep, NewEpochSteps, RebaseStep, CountStep, OtherQuietSteps DEF Resets
  <2>3. ASSUME NEW s \in ReqSlots, Requests(s) PROVE FlowInv'
    BY <2>3, CommitStep, AckStep, NackStep, ArbiterRxStep, OtherQuietSteps DEF Requests
  <2>4. ASSUME NEW s \in AllocSlots, Allocations(s) PROVE FlowInv'
    BY <2>4, ArbiterSteps, NewEpochSteps, EndnodeRxStep, OtherQuietSteps DEF Allocations
  <2>5. ASSUME NEW s \in ReqSlots \cup AllocSlots, lose(s) PROVE FlowInv'
    BY <2>5, LoseStep
  <2> QED BY <2>1, <2>2, <2>3, <2>4, <2>5 DEF Next
<1> QED BY <1>1, <1>2, PTL DEF Spec

\* While packets wait, demand that the arbiter has not confirmed is queued, being sent
\* (send_request), or in a packet of which handle_ack or handle_neg_ack will tell.
THEOREM DemandNeverForgotten == Spec => []DemandPending
<1>1. FlowInv => DemandPending
  <2> SUFFICES ASSUME FlowInv, qlen > 0, dst.demand > dst.acked, ~resetting, ~(dst.queued /\ triggered)
               PROVE  \/ building > dst.acked
                      \/ \E s \in ReqSlots :
                           reqs[s].open /\ ~reqs[s].nacked /\ reqs[s].body > dst.acked
    BY DEF DemandPending
  <2>1. /\ dst.acked \in Nat /\ dst.requested \in Int /\ building \in Int
        /\ dst.requested > dst.acked
        /\ \/ building >= dst.requested
           \/ \E s \in ReqSlots : Carries(reqs[s], dst.requested)
    <3>1. dst.acked \in Nat /\ dst.requested \in Int /\ building \in Int
      BY DEF FlowInv, FlowTypeOK, Dsts, NONE
    <3>2. Waiting /\ ~dst.queued
      BY DEF FlowInv, Waiting
    <3> QED BY <3>1, <3>2 DEF FlowInv, LastRequest
  <2>2. CASE building >= dst.requested
    <3> HIDE DEF FlowInv
    <3>1. building > dst.acked
      BY <2>1, <2>2
    <3> QED BY <3>1
  <2>3. ASSUME NEW s \in ReqSlots, Carries(reqs[s], dst.requested)
        PROVE  reqs[s].open /\ ~reqs[s].nacked /\ reqs[s].body > dst.acked
    <3>1. reqs[s] \in Packet(Nat)
      <4>1. reqs \in [ReqSlots -> Packet(Nat) \cup {FREE}]
        BY DEF FlowInv, FlowTypeOK
      <4>2. reqs[s] # FREE
        BY <2>3, NotFree DEF Carries, FlowInv
      <4> QED BY <4>1, <4>2
    <3>2. reqs[s].body \in Nat
      BY <3>1 DEF Packet
    <3> QED BY <2>1, <2>3, <3>2 DEF Carries
  <2>4. CASE \E s \in ReqSlots : Carries(reqs[s], dst.requested)
    BY <2>3, <2>4
  <2> QED BY <2>1, <2>2, <2>4
<1> QED BY <1>1, FlowInductive, PTL

\* handle_alloc and handle_areq keep demand_tslots - used_tslots equal to what waits in
\* the queue, and so does every reset: timeslots are used exactly when packets leave.  The
\* totals say the same until handle_reset first zeroes them, and never say less once it is
\* done, although packets are queued between its two steps.
THEOREM QueueMatchesAccounts == Spec => []AccountsMatch
<1>1. FlowInv => AccountsMatch
  BY DEF FlowInv
<1> QED BY <1>1, FlowInductive, PTL

-----------------------------------------------------------------------------
(* The two sides of a flow agree until a reset: the arbiter (comm_core.c)  *)
(* counts what the end node requested, admits exactly that, and reports    *)
(* no more.                                                                *)

(* The arbiter's accounts, until a reset.                                  *)

Edges == [active : BOOLEAN, n : Nat, edge : Nat, admitted : Nat]

\* No packet under way was overtaken by half the modulus: what handle_areq assumes on
\* either side when it completes a count from its low bits.
Recent ==
    /\ \A s \in ReqSlots : reqs[s].live /\ reqs[s].body > 0 =>
         en.demands <= reqs[s].body + M \div 2
    /\ \A s \in AllocSlots : allocs[s].live /\ allocs[s].body.report # NONE =>
         dst.alloc + allocs[s].body.n <= allocs[s].body.report + M \div 2

\* Every timeslot of the demand the arbiter knows is waiting, admitted or counted as allocated.
AllAdmitted ==
    /\ 0 <= en.alloc_to_dst
    /\ en.alloc_to_dst + work.admitted + work.edge + work.n = en.demands

OneEpoch == epoch[E] = 0 /\ epoch[C] = 0

\* The counters of the two sides, in the order in which they follow each other
InStep ==
    /\ dst.alloc = dst.used /\ dst.used <= dst.demand /\ qlen <= MAX_QLEN
    /\ dst.acked <= en.demands /\ en.demands <= dst.requested /\ dst.requested <= dst.demand
    /\ dst.requested < dst.acked + WINDOW
    /\ building <= dst.requested

\* A request in the network was made; once processed it is counted.
RequestsCounted ==
    \A s \in ReqSlots : reqs[s] # FREE =>
        /\ reqs[s].epoch = 0 /\ reqs[s].body <= dst.requested
        /\ reqs[s].got => reqs[s].body <= en.demands

\* A report in the network is of timeslots that were allocated.
ReportsCounted ==
    \A s \in AllocSlots : allocs[s] # FREE =>
        allocs[s].epoch = 0 /\ allocs[s].body.report <= en.alloc_to_dst

WorkOK == work \in Edges /\ (work.active = FALSE => work.edge = 0)

Agreed == OneEpoch /\ InStep /\ RequestsCounted /\ ReportsCounted /\ AllAdmitted

AgreeInv == /\ resets \in Nat /\ bug \in BOOLEAN /\ WorkOK
            /\ resets = 0 => Agreed /\ bug = FALSE

LEMMA FlowNumbers ==
  ASSUME FlowTypeOK
  PROVE  /\ dst.demand \in Int /\ dst.requested \in Int /\ dst.acked \in Int /\ dst.alloc \in Int
         /\ dst.used \in Int /\ qlen \in Int /\ building \in Int
         /\ en.demands \in Int /\ en.alloc_to_dst \in Int /\ en.pending \in Nat
         /\ WINDOW \in Int /\ WINDOW > 1 /\ MAX_QLEN \in Int
<1>1. /\ dst.demand \in Int /\ dst.requested \in Int /\ dst.acked \in Int /\ dst.alloc \in Int
      /\ dst.used \in Int
  BY DEF FlowTypeOK, Dsts
<1>2. en.demands \in Int /\ en.alloc_to_dst \in Int /\ en.pending \in Nat
  BY DEF FlowTypeOK, Accounts
<1>3. qlen \in Int /\ building \in Int
  BY DEF FlowTypeOK, NONE
<1> QED BY <1>1, <1>2, <1>3, FlowAssumption

\* An operation on a packet frees its slot, or keeps what it carries.
LEMMA TableQuiet ==
  ASSUME NEW Body, NEW Slots, NEW pkts \in [Slots -> Packet(Body) \cup {FREE}],
         NEW s \in Slots, pkts[s] # FREE, NEW t \in Slots,
         NEW q \in {lost(pkts, s)[t], closed(pkts, s)[t], nacked(pkts, s)[t]}, q # FREE
  PROVE  /\ pkts[t] # FREE /\ q.epoch = pkts[t].epoch /\ q.body = pkts[t].body
         /\ q.got => pkts[t].got
<1>1. CASE t # s
  BY <1>1, TableTypes, SMTT(30)
<1>2. CASE t = s
  <2> DEFINE p == pkts[s]
  <2>1. p \in Packet(Body)
    OBVIOUS
  <2>2. lost(pkts, s)[s] = settle(Lost(p)) /\ closed(pkts, s)[s] = settle(Closed(p))
        /\ nacked(pkts, s)[s] = Nacked(p)
    BY DEF lost, closed, nacked, Lost, Closed, Nacked
  <2> HIDE DEF p
  <2>3. Lost(p).epoch = p.epoch /\ Lost(p).body = p.body /\ Lost(p).got = p.got
    BY <2>1 DEF Packet, Lost
  <2>4. Closed(p).epoch = p.epoch /\ Closed(p).body = p.body /\ Closed(p).got = p.got
    BY <2>1 DEF Packet, Closed
  <2>5. Nacked(p).epoch = p.epoch /\ Nacked(p).body = p.body /\ Nacked(p).got = p.got
    BY <2>1 DEF Packet, Nacked
  <2>6. q \in {Lost(p), Closed(p), Nacked(p)}
    BY <1>2, <2>2 DEF settle
  <2> QED BY <1>2, <2>3, <2>4, <2>5, <2>6 DEF p
<1> QED BY <1>1, <1>2

\* Processing a packet may free its slot too, and makes it received.
LEMMA TableKeeps ==
  ASSUME NEW Body, NEW Slots, NEW pkts \in [Slots -> Packet(Body) \cup {FREE}],
         NEW s \in Slots, pkts[s] # FREE, NEW t \in Slots, processed(pkts, s)[t] # FREE
  PROVE  LET q == processed(pkts, s)[t]
         IN  /\ pkts[t] # FREE /\ q.epoch = pkts[t].epoch /\ q.body = pkts[t].body
             /\ q.got => pkts[t].got \/ t = s
<1>1. CASE t # s
  BY <1>1, TableTypes, SMTT(30)
<1>2. CASE t = s
  <2>1. pkts[s] \in Packet(Body)
    OBVIOUS
  <2>2. processed(pkts, s)[s] = Arrived(pkts[s])
    BY <1>2, TableTypes, SMTT(30) DEF settle
  <2>3. Arrived(pkts[s]).epoch = pkts[s].epoch /\ Arrived(pkts[s]).body = pkts[s].body
    BY <2>1 DEF Packet, Arrived
  <2> QED BY <1>2, <2>2, <2>3
<1> QED BY <1>1, <1>2

\* seq_add_backlog adds the amount to what waits.
LEMMA BacklogFields ==
  ASSUME NEW w \in Edges, w.active = FALSE => w.edge = 0, NEW amount \in Nat
  PROVE  LET v == add_backlog(w, amount)
         IN  /\ v \in Edges /\ (v.active = FALSE => v.edge = 0)
             /\ v.admitted + v.edge + v.n = w.admitted + w.edge + w.n + amount
<1> DEFINE m == w.n + amount
           a == [w EXCEPT !.n = m]
           b == [w EXCEPT !.active = TRUE, !.edge = amount]
<1>1. w.n \in Nat /\ w.edge \in Nat /\ w.admitted \in Nat /\ w.active \in BOOLEAN /\ m \in Nat
  BY DEF Edges
<1>2. add_backlog(w, amount) = IF w.active THEN a ELSE b
  BY DEF add_backlog
<1> HIDE DEF m
<1>3. a \in Edges /\ a.active = w.active /\ a.n = m /\ a.edge = w.edge /\ a.admitted = w.admitted
  BY <1>1 DEF Edges
<1>4. b \in Edges /\ b.active = TRUE /\ b.n = w.n /\ b.edge = amount /\ b.admitted = w.admitted
  BY <1>1, Zenon DEF Edges
<1> HIDE DEF a, b
<1>5. CASE w.active = TRUE
  BY <1>1, <1>2, <1>3, <1>5 DEF m
<1>6. CASE w.active = FALSE
  BY <1>1, <1>2, <1>4, <1>6
<1> QED BY <1>1, <1>5, <1>6, Zenon

LEMMA SpentFields ==
  ASSUME NEW w \in Edges, w.edge = 0, w.active = TRUE
  PROVE  LET v == spent_backlog(w)
         IN  /\ v \in Edges /\ (v.active = FALSE => v.edge = 0)
             /\ v.admitted + v.edge + v.n = w.admitted + w.edge + w.n
<1> DEFINE o == 0
           a == [w EXCEPT !.active = FALSE]
           b == [w EXCEPT !.edge = w.n, !.n = o]
<1>1. w.n \in Nat /\ w.edge \in Nat /\ w.admitted \in Nat /\ w.active \in BOOLEAN /\ o \in Nat
  BY DEF Edges
<1>2. spent_backlog(w) = IF w.n = 0 THEN a ELSE b
  BY DEF spent_backlog
<1> HIDE DEF o
<1>3. a \in Edges /\ a.n = w.n /\ a.edge = w.edge /\ a.admitted = w.admitted
  BY <1>1, Zenon DEF Edges
<1>4. b \in Edges /\ b.active = w.active /\ b.n = o /\ b.edge = w.n /\ b.admitted = w.admitted
  BY <1>1, Zenon DEF Edges
<1> HIDE DEF a, b
<1>5. CASE w.n = 0
  BY <1>1, <1>2, <1>3, <1>5
<1>6. CASE w.n # 0
  BY <1>1, <1>2, <1>4, <1>6 DEF o
<1> QED BY <1>5, <1>6, Zenon

LEMMA EdgeFields ==
  ASSUME NEW w \in Edges
  PROVE  /\ w.n \in Nat /\ w.edge \in Nat /\ w.admitted \in Nat /\ w.active \in BOOLEAN
         /\ LET v == [w EXCEPT !.n = 0]
            IN  v \in Edges /\ v.active = w.active /\ v.edge = w.edge
         /\ w.edge > 0 =>
              LET v == [w EXCEPT !.edge = @ - 1, !.admitted = @ + 1]
              IN  /\ v \in Edges /\ v.active = w.active /\ v.edge = w.edge - 1
                  /\ v.admitted = w.admitted + 1 /\ v.n = w.n
         /\ w.admitted > 0 =>
              LET v == [w EXCEPT !.admitted = @ - 1]
              IN  /\ v \in Edges /\ v.active = w.active /\ v.edge = w.edge
                  /\ v.admitted = w.admitted - 1 /\ v.n = w.n
<1>1. w.n \in Nat /\ w.edge \in Nat /\ w.admitted \in Nat /\ w.active \in BOOLEAN
  BY DEF Edges
<1>2. LET v == [w EXCEPT !.n = 0]
      IN  v \in Edges /\ v.active = w.active /\ v.edge = w.edge
  BY DEF Edges
<1>3. ASSUME NEW x \in Nat, NEW y \in Nat
      PROVE  LET v == [w EXCEPT !.edge = x, !.admitted = y]
             IN  /\ v \in Edges /\ v.active = w.active /\ v.edge = x
                 /\ v.admitted = y /\ v.n = w.n
  BY Zenon DEF Edges
<1>4. ASSUME NEW y \in Nat
      PROVE  LET v == [w EXCEPT !.admitted = y]
             IN  /\ v \in Edges /\ v.active = w.active /\ v.edge = w.edge
                 /\ v.admitted = y /\ v.n = w.n
  BY DEF Edges
<1>5. (w.edge > 0 => w.edge - 1 \in Nat) /\ w.admitted + 1 \in Nat
      /\ (w.admitted > 0 => w.admitted - 1 \in Nat)
  BY <1>1
<1>6. w.edge > 0 =>
        LET v == [w EXCEPT !.edge = @ - 1, !.admitted = @ + 1]
        IN  /\ v \in Edges /\ v.active = w.active /\ v.edge = w.edge - 1
            /\ v.admitted = w.admitted + 1 /\ v.n = w.n
  BY <1>3, <1>5, Zenon
<1>7. w.admitted > 0 =>
        LET v == [w EXCEPT !.admitted = @ - 1]
        IN  /\ v \in Edges /\ v.active = w.active /\ v.edge = w.edge
            /\ v.admitted = w.admitted - 1 /\ v.n = w.n
  BY <1>4, <1>5
<1> QED BY <1>1, <1>2, <1>6, <1>7

\* What the allocator keeps for the flow is well formed after every step.
LEMMA WorkStep ==
  ASSUME FlowInv, WorkOK, resets \in Nat, bug \in BOOLEAN, Next
  PROVE  WorkOK' /\ resets' \in Nat /\ bug' \in BOOLEAN
<1>1. FlowTypeOK /\ work \in Edges /\ (work.active = FALSE => work.edge = 0)
  BY DEF FlowInv, WorkOK
<1>2. ASSUME NEW s \in ReqSlots, arbiter_rx(s)
      PROVE  WorkOK'
  <2> DEFINE p == reqs[s]
             reset == p.epoch > epoch[C]
             e0 == IF reset THEN arbiter_reset(en) ELSE en
             w0 == IF reset THEN [work EXCEPT !.n = 0] ELSE work
             demand == demand_of(p.body % M, e0.demands)
             grows == p.body > 0 /\ demand > e0.demands
  <2>1. p # FREE /\ work' = IF grows THEN add_backlog(w0, demand - e0.demands) ELSE w0
    BY <1>2 DEF arbiter_rx, arrives
  <2>2. p.body \in Int
    BY <1>1, <2>1, NotFree DEF Packet
  <2>3. e0.demands \in Int
    <3>1. e0 \in Accounts
      BY <1>1, AccountsTypes DEF FlowTypeOK
    <3> QED BY <3>1 DEF Accounts
  <2>4. w0 \in Edges /\ (w0.active = FALSE => w0.edge = 0)
    BY <1>1, EdgeFields, Zenon
  <2> HIDE DEF p, e0, w0
  <2>5. demand \in Int
    BY <2>2, <2>3, CountIsInt, Zenon DEF demand_of
  <2>6. grows => demand - e0.demands \in Nat
    BY <2>3, <2>5
  <2> HIDE DEF demand
  <2> QED BY <2>1, <2>4, <2>6, BacklogFields, Zenon DEF WorkOK
<1>3. ASSUME Allocator PROVE WorkOK'
  <2>1. CASE try_allocation
    <3>1. work.edge > 0 /\ work' = [work EXCEPT !.edge = @ - 1, !.admitted = @ + 1]
      BY <2>1 DEF try_allocation
    <3>2. work' \in Edges /\ work'.active = work.active
      BY <1>1, <3>1, EdgeFields, Zenon
    <3>3. work.active # FALSE
      <4>1. work.edge # 0
        BY <3>1
      <4> QED BY <1>1, <4>1, Zenon
    <3> QED BY <3>2, <3>3, Zenon DEF WorkOK
  <2>2. CASE seq_handle_spent
    <3>1. work.active = TRUE /\ work.edge = 0 /\ work' = spent_backlog(work)
      BY <1>1, <2>2, EdgeFields, Zenon DEF seq_handle_spent
    <3> QED BY <1>1, <3>1, SpentFields, Zenon DEF WorkOK
  <2>3. CASE process_allocated_traffic
    BY <1>1, <2>3, EdgeFields, Zenon DEF process_allocated_traffic, WorkOK
  <2> QED BY <1>3, <2>1, <2>2, <2>3 DEF Allocator
<1>4. ASSUME Resets PROVE WorkOK'
  <2>1. CASE UNCHANGED work
    BY <2>1 DEF WorkOK
  <2>2. CASE work' = [work EXCEPT !.n = 0]
    BY <1>1, <2>2, EdgeFields, Zenon DEF WorkOK
  <2>3. CASE work' = idle
    BY <2>3 DEF WorkOK, Edges, idle
  <2> QED BY <1>4, <2>1, <2>2, <2>3
          DEF Resets, endnode_reset, new_epoch, arbiter_proto_reset, arbiter_restart, arbiter
<1>5. ASSUME UNCHANGED work PROVE WorkOK'
  BY <1>5 DEF WorkOK
<1>6. WorkOK'
  <2>1. ASSUME NEW s \in ReqSlots, Requests(s) PROVE UNCHANGED work \/ arbiter_rx(s)
    BY <2>1, Zenon DEF Requests, send_request_commit, handle_ack, handle_neg_ack, fall_off,
           arbiter_got_bad_packet, arbiter
  <2>2. ASSUME NEW s \in AllocSlots, Allocations(s) PROVE UNCHANGED work
    BY <2>2, Zenon DEF Allocations, tx_end_node, arbiter_handle_ack, arbiter_handle_neg_ack,
           arbiter_fall_off, endnode_rx_reset, new_epoch, endnode_rx, endnode_got_bad_packet, arbiter
  <2>3. ASSUME add_timeslot \/ send_request \/ zero_totals \/ rebase \/ count_alloc PROVE UNCHANGED work
    BY <2>3, Zenon DEF add_timeslot, send_request, zero_totals, rebase, count_alloc, arbiter
  <2>4. ASSUME NEW s \in ReqSlots \cup AllocSlots, lose(s) PROVE UNCHANGED work
    BY <2>4, Zenon DEF lose, arbiter
  <2> QED BY <1>2, <1>3, <1>4, <1>5, <2>1, <2>2, <2>3, <2>4, Zenon DEF Next
<1> DEFINE Kept == (UNCHANGED resets \/ resets' = resets + 1) /\ bug' \in BOOLEAN
<1>7. Kept
  <2>1. ASSUME NEW s \in ReqSlots, Requests(s) PROVE Kept
    BY <2>1, Zenon DEF Requests, send_request_commit, handle_ack, handle_neg_ack, fall_off,
           arbiter_got_bad_packet, arbiter_rx, bounds
  <2>2. ASSUME NEW s \in AllocSlots, Allocations(s) PROVE Kept
    BY <2>2, Zenon DEF Allocations, tx_end_node, arbiter_handle_ack, arbiter_handle_neg_ack,
           arbiter_fall_off, endnode_rx_reset, new_epoch, endnode_rx, endnode_got_bad_packet, bounds
  <2>3. ASSUME add_timeslot \/ send_request \/ zero_totals \/ rebase \/ count_alloc PROVE Kept
    BY <2>3, Zenon DEF add_timeslot, send_request, zero_totals, rebase, count_alloc, bounds
  <2>6. ASSUME NEW s \in ReqSlots \cup AllocSlots, lose(s) PROVE Kept
    BY <2>6, Zenon DEF lose, bounds
  <2>4. ASSUME Allocator PROVE Kept
    BY <2>4, Zenon DEF Allocator, try_allocation, seq_handle_spent, process_allocated_traffic, bounds
  <2>5. ASSUME Resets PROVE Kept
    BY <2>5, Zenon DEF Resets, endnode_reset, new_epoch, arbiter_proto_reset, arbiter_restart, bounds
  <2> HIDE DEF Kept
  <2> QED BY <2>1, <2>2, <2>3, <2>4, <2>5, <2>6, Zenon DEF Next
<1>8. resets' \in Nat
  BY <1>7
<1> QED BY <1>6, <1>7, <1>8

-----------------------------------------------------------------------------

\* The packets of either side after a step that commits none.
LEMMA PacketsStay ==
  ASSUME FlowTypeOK, RequestsCounted, ReportsCounted,
         dst.requested \in Int, dst'.requested \in Int, dst.requested <= dst'.requested,
         en.demands \in Int, en'.demands \in Int, en.demands <= en'.demands,
         en.alloc_to_dst \in Int, en'.alloc_to_dst \in Int, en.alloc_to_dst <= en'.alloc_to_dst,
         \/ UNCHANGED reqs
         \/ \E s \in ReqSlots : reqs[s] # FREE /\ reqs' \in {lost(reqs, s), closed(reqs, s), nacked(reqs, s)}
         \/ \E s \in ReqSlots : reqs[s] # FREE /\ reqs' = processed(reqs, s) /\ reqs[s].body <= en'.demands,
         \/ UNCHANGED allocs
         \/ \E s \in AllocSlots : allocs[s] # FREE
              /\ allocs' \in {lost(allocs, s), closed(allocs, s), nacked(allocs, s), processed(allocs, s)}
  PROVE  RequestsCounted' /\ ReportsCounted'
<1>1. ASSUME NEW t \in ReqSlots, reqs'[t] # FREE
      PROVE  /\ reqs[t] # FREE /\ reqs'[t].epoch = reqs[t].epoch /\ reqs'[t].body = reqs[t].body
             /\ reqs'[t].got => reqs[t].got \/ reqs[t].body <= en'.demands
  <2>1. CASE UNCHANGED reqs
    BY <1>1, <2>1
  <2>2. ASSUME NEW s \in ReqSlots, reqs[s] # FREE,
               reqs' \in {lost(reqs, s), closed(reqs, s), nacked(reqs, s)}
        PROVE  /\ reqs[t] # FREE /\ reqs'[t].epoch = reqs[t].epoch /\ reqs'[t].body = reqs[t].body
               /\ reqs'[t].got => reqs[t].got
    BY <1>1, <2>2, TableQuiet, SMTT(30) DEF FlowTypeOK
  <2>3. ASSUME NEW s \in ReqSlots, reqs[s] # FREE, reqs' = processed(reqs, s),
               reqs[s].body <= en'.demands
        PROVE  /\ reqs[t] # FREE /\ reqs'[t].epoch = reqs[t].epoch /\ reqs'[t].body = reqs[t].body
               /\ reqs'[t].got => reqs[t].got \/ reqs[t].body <= en'.demands
    BY <1>1, <2>3, TableKeeps, SMTT(30) DEF FlowTypeOK
  <2> QED BY <2>1, <2>2, <2>3
<1>2. ASSUME NEW t \in AllocSlots, allocs'[t] # FREE
      PROVE  allocs[t] # FREE /\ allocs'[t].epoch = allocs[t].epoch /\ allocs'[t].body = allocs[t].body
  <2>1. CASE UNCHANGED allocs
    BY <1>2, <2>1
  <2>2. ASSUME NEW s \in AllocSlots, allocs[s] # FREE,
          allocs' \in {lost(allocs, s), closed(allocs, s), nacked(allocs, s), processed(allocs, s)}
        PROVE  allocs[t] # FREE /\ allocs'[t].epoch = allocs[t].epoch /\ allocs'[t].body = allocs[t].body
    BY <1>2, <2>2, TableKeeps, TableQuiet, SMTT(30) DEF FlowTypeOK
  <2> QED BY <2>1, <2>2
<1>3. ASSUME NEW t \in ReqSlots, reqs[t] # FREE PROVE reqs[t].body \in Int
  BY <1>3, NotFree, SMTT(30) DEF Packet
<1>4. ASSUME NEW t \in AllocSlots, allocs[t] # FREE PROVE allocs[t].body.report \in Int
  BY <1>4, NotFree DEF Packet, Allocated
<1>5. RequestsCounted'
  <2> SUFFICES ASSUME NEW t \in ReqSlots, reqs'[t] # FREE
               PROVE  /\ reqs'[t].epoch = 0 /\ reqs'[t].body <= dst'.requested
                      /\ reqs'[t].got => reqs'[t].body <= en'.demands
    BY DEF RequestsCounted
  <2>1. /\ reqs[t] # FREE /\ reqs[t].body \in Int /\ reqs[t].epoch = 0
        /\ reqs[t].body <= dst.requested /\ (reqs[t].got => reqs[t].body <= en.demands)
    BY <1>1, <1>3 DEF RequestsCounted
  <2> QED BY <1>1, <2>1, SMTT(30)
<1>6. ReportsCounted'
  <2> SUFFICES ASSUME NEW t \in AllocSlots, allocs'[t] # FREE
               PROVE  allocs'[t].epoch = 0 /\ allocs'[t].body.report <= en'.alloc_to_dst
    BY DEF ReportsCounted
  <2>1. /\ allocs[t] # FREE /\ allocs[t].body.report \in Int /\ allocs[t].epoch = 0
        /\ allocs[t].body.report <= en.alloc_to_dst
    BY <1>2, <1>4 DEF ReportsCounted
  <2> QED BY <1>2, <2>1, SMTT(30)
<1> QED BY <1>5, <1>6

\* A step of the end node that keeps requested, acked and used, and sends no request.
LEMMA EndnodeQuiet ==
  ASSUME FlowTypeOK, FlowTypeOK', Agreed, UNCHANGED <<en, work, epoch>>,
         UNCHANGED qlen \/ qlen' <= MAX_QLEN, building' \in {building, NONE},
         dst'.alloc = dst.alloc, dst'.used = dst.used, dst'.requested = dst.requested,
         dst'.acked = dst.acked, dst'.demand >= dst.demand, RequestsCounted', ReportsCounted'
  PROVE  Agreed'
<1>1. OneEpoch' /\ AllAdmitted'
  BY DEF Agreed, OneEpoch, AllAdmitted
<1>2. /\ dst.demand \in Int /\ dst.requested \in Int /\ dst.used \in Int /\ dst'.demand \in Int
      /\ dst.acked \in Nat
  BY DEF FlowTypeOK, Dsts
<1>3. en.demands \in Int
  BY FlowNumbers
<1>4. building' <= dst'.requested
  <2>1. building <= dst.requested /\ dst.acked <= en.demands /\ en.demands <= dst.requested
    BY DEF Agreed, InStep
  <2> QED BY <1>2, <1>3, <2>1 DEF NONE
<1>5. InStep'
  BY <1>2, <1>3, <1>4, SMTT(30) DEF Agreed, InStep
<1> QED BY <1>1, <1>5 DEF Agreed

LEMMA AddAgrees ==
  ASSUME FlowTypeOK, FlowTypeOK', Agreed, add_timeslot
  PROVE  Agreed'
<1> DEFINE x == dst.demand + 1
           c == [dst EXCEPT !.demand = x]
<1>1. /\ qlen < MAX_QLEN /\ qlen' = qlen + 1 /\ dst' = enqueue(c)
      /\ UNCHANGED <<en, work, epoch, reqs, allocs, building>>
  BY DEF add_timeslot, arbiter
<1>2. dst \in Dsts /\ dst.demand \in Int /\ x \in Int
  BY SMTT(30) DEF FlowTypeOK, Dsts
<1> HIDE DEF x
<1>3. /\ c \in Dsts /\ c.demand = x /\ c.requested = dst.requested /\ c.acked = dst.acked
      /\ c.used = dst.used /\ c.alloc = dst.alloc
  BY <1>2 DEF Dsts
<1> HIDE DEF c
<1>4. /\ dst'.demand = dst.demand + 1 /\ dst'.requested = dst.requested /\ dst'.acked = dst.acked
      /\ dst'.used = dst.used /\ dst'.alloc = dst.alloc
  BY <1>1, <1>3, EnqueuedFields, Zenon DEF x
<1>5. RequestsCounted' /\ ReportsCounted'
  BY <1>1, <1>4 DEF Agreed, RequestsCounted, ReportsCounted
<1>6. qlen' <= MAX_QLEN /\ dst'.demand >= dst.demand
  BY <1>1, <1>2, <1>4, FlowNumbers
<1> QED BY <1>1, <1>4, <1>5, <1>6, EndnodeQuiet

\* send_request asks for no less than before, and for no more than is needed.
LEMMA SendAgrees ==
  ASSUME FlowTypeOK, FlowTypeOK', Agreed, send_request
  PROVE  Agreed'
<1>1. UNCHANGED <<qlen, en, work, epoch, reqs, allocs>> /\ dst \in Dsts
  BY DEF send_request, arbiter, FlowTypeOK
<1>2. CASE dst.queued /\ new_requested > dst.acked
  <2> DEFINE r == new_requested
  <2>1. building' = r /\ dst' = [dst EXCEPT !.queued = FALSE, !.requested = r]
    BY <1>2 DEF send_request
  <2>2. r = smaller(dst.demand, dst.acked + WINDOW - 1)
    BY DEF new_requested
  <2> HIDE DEF r
  <2>3. r \in Int /\ r <= dst.demand /\ r < dst.acked + WINDOW /\ dst.requested <= r
    BY <2>2, FlowNumbers, SMTT(30) DEF Agreed, InStep, smaller
  <2>4. /\ dst'.demand = dst.demand /\ dst'.requested = r /\ dst'.acked = dst.acked
        /\ dst'.used = dst.used /\ dst'.alloc = dst.alloc
    BY <1>1, <2>1, <2>3 DEF Dsts
  <2>5. InStep'
    BY <1>1, <2>1, <2>3, <2>4, FlowNumbers DEF Agreed, InStep
  <2>6. OneEpoch' /\ AllAdmitted'
    BY <1>1 DEF Agreed, OneEpoch, AllAdmitted
  <2>7. RequestsCounted' /\ ReportsCounted'
    <3>1. dst'.requested \in Int /\ dst.requested <= dst'.requested
      BY <2>3, <2>4
    <3>2. en.demands <= en'.demands /\ en.alloc_to_dst <= en'.alloc_to_dst
      BY <1>1, FlowNumbers
    <3>3. en'.demands \in Int /\ en'.alloc_to_dst \in Int
      BY <1>1, FlowNumbers
    <3> QED BY <1>1, <3>1, <3>2, <3>3, PacketsStay, FlowNumbers DEF Agreed
  <2> QED BY <2>5, <2>6, <2>7 DEF Agreed
<1>3. CASE ~(dst.queued /\ new_requested > dst.acked)
  <2>1. building' = 0 /\ dst' = [dst EXCEPT !.queued = FALSE]
    BY <1>3 DEF send_request
  <2>2. /\ dst'.demand = dst.demand /\ dst'.requested = dst.requested /\ dst'.acked = dst.acked
        /\ dst'.used = dst.used /\ dst'.alloc = dst.alloc
    BY <1>1, <2>1 DEF Dsts
  <2>3. InStep'
    <3>1. dst.acked \in Nat
      BY <1>1 DEF Dsts
    <3>2. 0 <= dst.requested
      BY <3>1, FlowNumbers DEF Agreed, InStep
    <3> QED BY <1>1, <2>1, <2>2, <3>2 DEF Agreed, InStep
  <2>4. OneEpoch' /\ AllAdmitted'
    BY <1>1 DEF Agreed, OneEpoch, AllAdmitted
  <2>5. RequestsCounted' /\ ReportsCounted'
    BY <1>1, <2>2 DEF Agreed, RequestsCounted, ReportsCounted
  <2> QED BY <2>3, <2>4, <2>5 DEF Agreed
<1> QED BY <1>2, <1>3

LEMMA CommitAgrees ==
  ASSUME FlowTypeOK, FlowTypeOK', Agreed, NEW s \in ReqSlots, send_request_commit(s)
  PROVE  Agreed'
<1>1. /\ building # NONE /\ building' = NONE
      /\ UNCHANGED <<dst, qlen, en, work, epoch, allocs>>
      /\ reqs' = reqs \/ reqs' = commit(reqs, s, epoch[E], building)
  BY DEF send_request_commit, arbiter
<1>2. ReportsCounted'
  BY <1>1 DEF Agreed, ReportsCounted
<1>3. RequestsCounted'
  <2>1. CASE reqs' = reqs
    BY <1>1, <2>1 DEF Agreed, RequestsCounted
  <2>2. CASE reqs' = commit(reqs, s, epoch[E], building)
    <3>1. /\ reqs'[s].epoch = epoch[E] /\ reqs'[s].body = building /\ reqs'[s].got = FALSE
          /\ \A t \in ReqSlots \ {s} : reqs'[t] = reqs[t]
      BY <2>2 DEF commit, FlowTypeOK
    <3>2. reqs'[s].epoch = 0 /\ reqs'[s].body <= dst.requested
      BY <3>1 DEF Agreed, OneEpoch, InStep
    <3> QED BY <1>1, <3>1, <3>2 DEF Agreed, RequestsCounted
  <2> QED BY <1>1, <2>1, <2>2
<1>4. dst'.demand >= dst.demand
  BY <1>1, FlowNumbers
<1> QED BY <1>1, <1>2, <1>3, <1>4, EndnodeQuiet

\* handle_ack: what is acked was counted by the arbiter, and was needed.
LEMMA AckAgrees ==
  ASSUME FlowTypeOK, FlowTypeOK', Agreed, bug = FALSE, NEW s \in ReqSlots, handle_ack(s)
  PROVE  Agreed' /\ bug' = FALSE
<1> DEFINE p == reqs[s]
           newer == new_acked(p) > dst.acked
           d == IF newer THEN [dst EXCEPT !.acked = new_acked(p)] ELSE dst
           again == newer /\ dst.requested # dst.demand
<1>1. /\ p # FREE /\ p.got /\ reqs' = closed(reqs, s)
      /\ bug' = (bug \/ (newer /\ new_acked(p) > dst.demand))
      /\ dst' = IF again THEN enqueue(d) ELSE d
      /\ UNCHANGED <<qlen, building, en, work, epoch, allocs>>
  BY DEF handle_ack, arbiter
<1>2. p.body \in Nat /\ new_acked(p) = p.body
  BY <1>1, NotFree DEF Packet, new_acked
<1>3. p.body <= en.demands /\ p.body <= dst.requested
  BY <1>1 DEF Agreed, RequestsCounted
<1>4. dst \in Dsts
  BY DEF FlowTypeOK
<1> HIDE DEF p
<1>5. /\ d \in Dsts /\ d.demand = dst.demand /\ d.requested = dst.requested /\ d.used = dst.used
      /\ d.alloc = dst.alloc /\ d.acked = IF newer THEN p.body ELSE dst.acked
  BY <1>2, <1>4 DEF Dsts
<1> HIDE DEF d
<1>6. /\ dst'.demand = dst.demand /\ dst'.requested = dst.requested /\ dst'.used = dst.used
      /\ dst'.alloc = dst.alloc /\ dst'.acked = IF newer THEN p.body ELSE dst.acked
  BY <1>1, <1>5, EnqueuedFields, Zenon
<1>7. dst'.acked <= en.demands /\ dst'.acked >= dst.acked
  BY <1>2, <1>3, <1>6, FlowNumbers DEF Agreed, InStep
<1>8. bug' = FALSE
  <2>1. p.body <= dst.demand
    BY <1>2, <1>3, FlowNumbers DEF Agreed, InStep
  <2>2. ~(p.body > dst.demand)
    BY <1>2, <2>1, FlowNumbers
  <2> QED BY <1>1, <1>2, <2>2, Zenon
<1>9. InStep'
  <2>1. dst'.acked \in Int
    BY DEF FlowTypeOK, Dsts
  <2>2. dst'.requested < dst'.acked + WINDOW
    BY <1>6, <1>7, <2>1, FlowNumbers, SMTT(30) DEF Agreed, InStep
  <2> QED BY <1>1, <1>6, <1>7, <2>2 DEF Agreed, InStep
<1>10. OneEpoch' /\ AllAdmitted'
  BY <1>1 DEF Agreed, OneEpoch, AllAdmitted
<1>11. RequestsCounted' /\ ReportsCounted'
  <2>1. reqs[s] # FREE /\ reqs' = closed(reqs, s)
    BY <1>1 DEF p
  <2>2. /\ dst.requested <= dst'.requested /\ dst'.requested \in Int
        /\ en.demands <= en'.demands /\ en'.demands \in Int
        /\ en.alloc_to_dst <= en'.alloc_to_dst /\ en'.alloc_to_dst \in Int
    BY <1>1, <1>6, FlowNumbers, SMTT(30)
  <2>3. UNCHANGED allocs
    BY <1>1
  <2> QED BY <2>1, <2>2, <2>3, PacketsStay, FlowNumbers DEF Agreed
<1> QED BY <1>8, <1>9, <1>10, <1>11 DEF Agreed

\* Steps that change one packet and nothing the accounts depend on.
LEMMA QuietAgrees ==
  ASSUME FlowTypeOK, FlowTypeOK', Agreed,
         UNCHANGED <<qlen, building, work, epoch>>,
         dst' \in {dst, enqueue(dst)}, en'.demands = en.demands, en'.alloc_to_dst = en.alloc_to_dst,
         \/ UNCHANGED reqs
         \/ \E s \in ReqSlots : reqs[s] # FREE /\ reqs' \in {lost(reqs, s), closed(reqs, s), nacked(reqs, s)},
         \/ UNCHANGED allocs
         \/ \E s \in AllocSlots : allocs[s] # FREE
              /\ allocs' \in {lost(allocs, s), closed(allocs, s), nacked(allocs, s), processed(allocs, s)}
  PROVE  Agreed'
<1>1. /\ dst'.demand = dst.demand /\ dst'.requested = dst.requested /\ dst'.used = dst.used
      /\ dst'.alloc = dst.alloc /\ dst'.acked = dst.acked
  BY EnqueuedFields, Zenon DEF FlowTypeOK
<1>2. RequestsCounted' /\ ReportsCounted'
  <2>2. /\ dst.requested <= dst'.requested /\ dst'.requested \in Int
        /\ en.demands <= en'.demands /\ en'.demands \in Int
        /\ en.alloc_to_dst <= en'.alloc_to_dst /\ en'.alloc_to_dst \in Int
    BY <1>1, FlowNumbers, SMTT(30)
  <2> QED BY <2>2, PacketsStay, FlowNumbers DEF Agreed
<1>3. OneEpoch' /\ AllAdmitted' /\ InStep'
  BY <1>1 DEF Agreed, OneEpoch, AllAdmitted, InStep
<1> QED BY <1>2, <1>3 DEF Agreed

-----------------------------------------------------------------------------
(* Completing a count from its low bits.                                   *)

LEMMA Half == /\ M \in Nat /\ M > 0 /\ M \div 2 \in Nat /\ M = 2 * (M \div 2)
              /\ WINDOW <= M \div 2 /\ MAX_QLEN < M \div 2
  BY FlowAssumption

LEMMA DivMod ==
  ASSUME NEW x \in Int
  PROVE  x \div M \in Int /\ x = (M * (x \div M)) + (x % M) /\ x % M \in Int
  BY Half

LEMMA SmallMod ==
  ASSUME NEW d \in Int, NEW q \in Int, 0 <= d, d < M
  PROVE  (d + M * q) % M = d
<1>1. M \in Nat \ {0}
  BY Half
<1> QED BY <1>1

\* A count less than half the modulus away from the reference is completed to itself.
LEMMA CountCompletes ==
  ASSUME NEW x \in Int, NEW ref \in Int, ref <= x + M \div 2, x < ref + M \div 2
  PROVE  full_count(x % M, ref) = x
<1> DEFINE a == ref - M \div 2
           q == x \div M
           d == x - a
<1>1. a \in Int /\ d \in Int /\ 0 <= d /\ d < M
  BY Half
<1> HIDE DEF a
<1>2. q \in Int /\ x % M = x - M * q /\ M * q \in Int
  BY DivMod, Half
<1>3. -q \in Int /\ M * (-q) = -(M * q)
  BY <1>2, Half
<1>4. (x % M) - a = d + M * (-q)
  BY <1>1, <1>2, <1>3
<1>5. (d + M * (-q)) % M = d
  BY <1>1, <1>3, SmallMod
<1>6. ((x % M) - a) % M = d
  BY <1>4, <1>5
<1>7. a + d = x
  BY <1>1
<1> HIDE DEF d
<1> QED BY <1>6, <1>7 DEF full_count, a

\* handle_areq of the arbiter: a request within the window is counted exactly.
LEMMA RxAgrees ==
  ASSUME FlowTypeOK, FlowTypeOK', Agreed, WorkOK, Recent, NEW s \in ReqSlots, arbiter_rx(s)
  PROVE  Agreed'
<1> DEFINE p == reqs[s]
           demand == demand_of(p.body % M, en.demands)
           grows == p.body > 0 /\ demand > en.demands
           x == IF grows THEN demand ELSE en.demands
           b == en.triggered \/ p.body > 0
<1>1. p # FREE /\ p.live
  BY DEF arbiter_rx, arrives
<1>2. p.body \in Nat /\ p.epoch = 0 /\ p.body <= dst.requested /\ epoch[C] = 0
  BY <1>1, NotFree DEF Packet, Agreed, RequestsCounted, OneEpoch
<1>3. /\ epoch' = [epoch EXCEPT ![C] = p.epoch]
      /\ en' = [en EXCEPT !.demands = x, !.triggered = b]
      /\ work' = IF grows THEN add_backlog(work, demand - en.demands) ELSE work
      /\ reqs' = processed(reqs, s) /\ allocs' = allocs
      /\ UNCHANGED endnode
  <2> HIDE DEF p
  <2>0. \A i, j : i = 0 /\ j = 0 => ~(i > j)
    OBVIOUS
  <2>1. ~(p.epoch > epoch[C])
    BY <1>2, <2>0, Zenon
  <2> QED BY <2>1, Zenon DEF arbiter_rx, p
<1> HIDE DEF p, demand
<1>4. p.body > 0 => demand = p.body
  <2> SUFFICES ASSUME p.body > 0 PROVE demand = p.body
    OBVIOUS
  <2>1. en.demands <= p.body + M \div 2
    BY <1>1 DEF Recent, p
  <2>2. p.body < en.demands + M \div 2
    BY <1>2, Half, FlowNumbers DEF Agreed, InStep
  <2> QED BY <1>2, <2>1, <2>2, CountCompletes, FlowNumbers DEF demand, demand_of
<1>5. /\ x \in Int /\ en.demands <= x /\ p.body <= x /\ x <= dst.requested
      /\ grows => x = demand /\ x = p.body /\ x - en.demands \in Nat
      /\ ~grows => x = en.demands
  <2>1. en.demands <= dst.requested /\ 0 <= en.demands /\ dst.requested \in Int /\ en.demands \in Int
    <3>1. dst.acked \in Nat
      BY DEF FlowTypeOK, Dsts
    <3> QED BY <3>1, FlowNumbers DEF Agreed, InStep
  <2>2. CASE p.body > 0
    BY <1>2, <1>4, <2>1, <2>2
  <2>3. CASE ~(p.body > 0)
    BY <1>2, <2>1, <2>3
  <2> QED BY <2>2, <2>3
<1> HIDE DEF x, b, grows
<1>6. en'.demands = x /\ en'.alloc_to_dst = en.alloc_to_dst
  BY <1>3, <1>5 DEF FlowTypeOK, Accounts
<1>7. InStep'
  BY <1>3, <1>5, <1>6, FlowNumbers DEF Agreed, InStep, endnode
<1>8. OneEpoch'
  BY <1>2, <1>3 DEF Agreed, OneEpoch, endnode, FlowTypeOK, E, C
<1>9. RequestsCounted' /\ ReportsCounted'
  <2>1. reqs[s] # FREE /\ reqs' = processed(reqs, s) /\ reqs[s].body <= en'.demands
    BY <1>1, <1>3, <1>5, <1>6 DEF p
  <2>2. /\ dst.requested <= dst'.requested /\ dst'.requested \in Int
        /\ en.demands <= en'.demands /\ en'.demands \in Int
        /\ en.alloc_to_dst <= en'.alloc_to_dst /\ en'.alloc_to_dst \in Int
    BY <1>3, <1>5, <1>6, FlowNumbers DEF endnode
  <2>3. UNCHANGED allocs
    BY <1>3
  <2> QED BY <2>1, <2>2, <2>3, PacketsStay, FlowNumbers DEF Agreed
<1>10. AllAdmitted'
  <2>1. work \in Edges /\ (work.active = FALSE => work.edge = 0)
    BY DEF WorkOK
  <2>2. work.n \in Nat /\ work.edge \in Nat /\ work.admitted \in Nat
    BY <2>1, EdgeFields, Zenon
  <2>3. 0 <= en.alloc_to_dst
        /\ en.alloc_to_dst + work.admitted + work.edge + work.n = en.demands
    BY DEF Agreed, AllAdmitted
  <2>4. CASE grows
    <3> DEFINE a == x - en.demands
               v == add_backlog(work, a)
    <3>1. a \in Nat /\ work' = v
      BY <1>3, <1>5, <2>4
    <3> HIDE DEF a
    <3>2. v \in Edges /\ v.admitted + v.edge + v.n = work.admitted + work.edge + work.n + a
      BY <2>1, <3>1, BacklogFields, Zenon
    <3> HIDE DEF v
    <3>3. v.n \in Nat /\ v.edge \in Nat /\ v.admitted \in Nat
      BY <3>2, EdgeFields, Zenon
    <3>4. en.alloc_to_dst + v.admitted + v.edge + v.n = x
      <4>1. en.alloc_to_dst \in Int /\ en.demands \in Int /\ x \in Int /\ en.demands + a = x
        BY <1>5, FlowNumbers DEF a
      <4>2. v.admitted + v.edge + v.n = work.admitted + work.edge + work.n + a
        BY <3>2
      <4> QED BY <2>2, <2>3, <3>1, <3>3, <4>1, <4>2
    <3> QED BY <1>6, <2>3, <3>1, <3>4 DEF AllAdmitted
  <2>5. CASE ~grows
    BY <1>3, <1>5, <1>6, <2>3, <2>5 DEF AllAdmitted
  <2> QED BY <2>4, <2>5
<1> QED BY <1>7, <1>8, <1>9, <1>10 DEF Agreed

\* handle_alloc and handle_areq of the end node: a report is of no more than was requested,
\* so it forces no reset, and the timeslots it shows to be lost are needed again.
LEMMA EndnodeRxAgrees ==
  ASSUME FlowTypeOK, FlowTypeOK', AccountsMatch, Agreed, WorkOK, Recent,
         NEW s \in AllocSlots, endnode_rx(s)
  PROVE  Agreed'
<1> DEFINE p == allocs[s]
<1>1. p # FREE /\ p.live /\ allocs' = processed(allocs, s) /\ UNCHANGED <<building, en, work>>
  BY Zenon DEF endnode_rx, arrives, arbiter
<1>2. p.epoch = 0 /\ p.body.report <= en.alloc_to_dst /\ epoch[E] = 0
  BY <1>1, Zenon DEF Agreed, ReportsCounted, OneEpoch
<1>3. p.body.n \in Nat /\ p.body.report \in Int
  BY <1>1, NotFree, Zenon DEF Packet, Allocated
<1>4. PICK missed \in 0 .. smaller(p.body.n, MAX_LOSS - losses) :
        LET d1 == after_alloc(dst, p.body.n - missed)
            count == reported(p, d1)
            larger == count > d1.alloc /\ count > d1.requested
        IN  /\ dst' = IF larger THEN d1 ELSE after_report(d1, count)
            /\ qlen' = qlen - (d1.used - dst.used)
            /\ epoch' = IF larger THEN [epoch EXCEPT ![E] = latest + 1] ELSE epoch
            /\ reqs' = IF larger THEN free_unacked(reqs) ELSE reqs
  BY Zenon DEF endnode_rx
<1> DEFINE n == p.body.n - missed
           d1 == after_alloc(dst, n)
           count == reported(p, d1)
           larger == count > d1.alloc /\ count > d1.requested
<1>5. n \in Nat /\ n <= p.body.n
  <2>1. MAX_LOSS - losses \in Int
    BY FlowAssumption DEF FlowTypeOK
  <2> QED BY <1>3, <2>1 DEF smaller
<1>6. /\ dst \in Dsts /\ dst.demand - dst.used >= 0 /\ dst.alloc = dst.used
      /\ qlen = dst.demand - dst.used /\ qlen <= MAX_QLEN /\ dst.acked <= en.demands
      /\ en.demands <= dst.requested /\ dst.requested <= dst.demand
      /\ dst.requested < dst.acked + WINDOW /\ building <= dst.requested
  BY DEF FlowTypeOK, Agreed, InStep, AccountsMatch
<1>7. en.alloc_to_dst <= en.demands
  <2>1. work.n \in Nat /\ work.edge \in Nat /\ work.admitted \in Nat
    BY EdgeFields, Zenon DEF WorkOK
  <2> QED BY <2>1, FlowNumbers DEF Agreed, AllAdmitted
<1> HIDE DEF p, n
<1>8. /\ d1 \in Dsts /\ d1.used >= dst.used /\ d1.used <= dst.demand /\ d1.demand = dst.demand
      /\ d1.requested = dst.requested /\ d1.acked = dst.acked
      /\ d1.used <= dst.used + n /\ d1.alloc = dst.alloc + (d1.used - dst.used)
  BY <1>5, <1>6, AllocFields
<1>9. dst' = (IF larger THEN d1 ELSE after_report(d1, count))
      /\ qlen' = qlen - (d1.used - dst.used)
      /\ epoch' = (IF larger THEN [epoch EXCEPT ![E] = latest + 1] ELSE epoch)
      /\ reqs' = IF larger THEN free_unacked(reqs) ELSE reqs
  BY <1>4, Zenon DEF n
<1> HIDE DEF d1
<1>10. d1.used \in Int /\ d1.alloc \in Int /\ d1.alloc = d1.used
  BY <1>6, <1>8, FlowNumbers DEF Dsts
<1> HIDE DEF larger
<1>11. p.body.report <= dst.requested
  <2>1. en.alloc_to_dst \in Int /\ en.demands \in Int /\ dst.requested \in Int
    BY FlowNumbers
  <2>2. p.body.report <= en.alloc_to_dst /\ en.demands <= dst.requested /\ p.body.report \in Int
    BY <1>2, <1>3, <1>6, Zenon
  <2>3. \A a, b, c, d \in Int : a <= b /\ b <= c /\ c <= d => a <= d
    OBVIOUS
  <2> QED BY <1>7, <2>1, <2>2, <2>3, Zenon
<1>12. count \in Int /\ (count > d1.alloc => count <= dst.requested)
  <2>1. CASE p.body.report = NONE
    BY <1>10, <2>1 DEF reported
  <2>2. CASE p.body.report # NONE
    <3>1. dst.alloc + p.body.n <= p.body.report + M \div 2
      BY <1>1, <2>2, Zenon DEF Recent, p
    <3>2. /\ dst.alloc \in Int /\ dst.demand \in Int /\ dst.requested \in Int
          /\ p.body.n \in Int /\ n \in Int /\ MAX_QLEN \in Int
      BY <1>3, <1>5, <1>6, FlowAssumption DEF Dsts
    <3>3. dst.alloc <= d1.alloc /\ d1.alloc <= dst.alloc + n
      BY <1>6, <1>8, <1>10, <3>2
    <3>4. dst.demand - dst.alloc <= MAX_QLEN
      BY <1>6, <3>2
    <3>5. full_count(p.body.report % M, d1.alloc) = p.body.report
      <4> DEFINE a == dst.alloc
                 a1 == d1.alloc
                 total == p.body.n
                 r == dst.requested
                 report == p.body.report
                 demand == dst.demand
      <4>1. report \in Int /\ a \in Int /\ a1 \in Int /\ n \in Int /\ total \in Int /\ r \in Int
            /\ demand \in Int
        BY <1>3, <1>10, <3>2, Zenon
      <4>2. n <= total /\ r <= demand /\ report <= r /\ a <= a1 /\ a1 <= a + n
            /\ a + total <= report + M \div 2 /\ demand - a <= MAX_QLEN
        BY <1>5, <1>6, <1>11, <3>1, <3>3, <3>4, Zenon
      <4> HIDE DEF a, a1, total, r, report, demand
      <4>3. MAX_QLEN \in Int /\ M \div 2 \in Int /\ MAX_QLEN < M \div 2
        BY FlowAssumption, Half
      <4>4. a1 <= report + M \div 2
        BY <4>1, <4>2, <4>3
      <4>5. report < a1 + M \div 2
        BY <4>1, <4>2, <4>3
      <4>6. full_count(report % M, a1) = report
        BY <4>1, <4>4, <4>5, CountCompletes
      <4> QED BY <4>6, Zenon DEF report, a1
    <3>6. count = p.body.report
      BY <2>2, <3>5, Zenon DEF reported
    <3> QED BY <1>3, <1>11, <3>6, Zenon
  <2> QED BY <2>1, <2>2
<1>13. larger = FALSE
  BY <1>8, <1>12, FlowNumbers DEF larger
<1> HIDE DEF count
<1>14. /\ dst' = after_report(d1, count) /\ reqs' = reqs /\ epoch' = epoch
  BY <1>2, <1>9, <1>13, Zenon
<1>15. /\ dst'.requested = d1.requested /\ dst'.acked = d1.acked /\ dst'.demand >= d1.demand
       /\ dst'.alloc = dst'.used /\ dst'.demand - dst'.used = d1.demand - d1.used
  BY <1>8, <1>10, <1>12, <1>14, ReportFields, Zenon
<1>16. dst'.demand \in Int /\ dst'.used \in Int
  BY DEF FlowTypeOK, Dsts
<1>17. InStep'
  <2>1. qlen' <= MAX_QLEN
    BY <1>6, <1>8, <1>9, <1>10, FlowNumbers
  <2>2. dst'.used <= dst'.demand
    BY <1>8, <1>10, <1>15, <1>16, FlowNumbers
  <2>3. dst'.requested <= dst'.demand
    BY <1>6, <1>8, <1>15, <1>16, FlowNumbers
  <2> QED BY <1>1, <1>6, <1>8, <1>15, <2>1, <2>2, <2>3 DEF InStep
<1>18. OneEpoch' /\ AllAdmitted'
  BY <1>1, <1>14 DEF Agreed, OneEpoch, AllAdmitted
<1>19. RequestsCounted' /\ ReportsCounted'
  <2>1. allocs[s] # FREE /\ allocs' = processed(allocs, s)
    BY <1>1 DEF p
  <2>2. /\ dst.requested <= dst'.requested /\ dst'.requested \in Int
        /\ en.demands <= en'.demands /\ en'.demands \in Int
        /\ en.alloc_to_dst <= en'.alloc_to_dst /\ en'.alloc_to_dst \in Int
    BY <1>1, <1>8, <1>15, FlowNumbers
  <2>3. UNCHANGED reqs
    BY <1>14
  <2> QED BY <2>1, <2>2, <2>3, PacketsStay, FlowNumbers DEF Agreed
<1> QED BY <1>17, <1>18, <1>19 DEF Agreed

\* process_allocated_traffic counts an admitted timeslot as allocated.
LEMMA AllocatorAgrees ==
  ASSUME FlowTypeOK, FlowTypeOK', Agreed, WorkOK, Allocator
  PROVE  Agreed'
<1>1. UNCHANGED <<endnode, epoch, reqs, allocs>> /\ work \in Edges /\ en \in Accounts
  BY DEF Allocator, try_allocation, seq_handle_spent, process_allocated_traffic, WorkOK, FlowTypeOK
<1>2. work.n \in Nat /\ work.edge \in Nat /\ work.admitted \in Nat
  BY <1>1, EdgeFields, Zenon
<1>3. 0 <= en.alloc_to_dst /\ en.alloc_to_dst + work.admitted + work.edge + work.n = en.demands
  BY DEF Agreed, AllAdmitted
<1>4. ASSUME en'.demands = en.demands, en'.alloc_to_dst >= en.alloc_to_dst, AllAdmitted'
      PROVE  Agreed'
  <2>1. OneEpoch' /\ InStep'
    BY <1>1, <1>4 DEF Agreed, OneEpoch, InStep, endnode
  <2>2. RequestsCounted' /\ ReportsCounted'
    <3>1. en'.demands \in Int /\ en'.alloc_to_dst \in Int
      BY DEF FlowTypeOK, Accounts
    <3>2. dst'.requested = dst.requested /\ UNCHANGED <<reqs, allocs>>
      BY <1>1 DEF endnode
    <3>3. /\ dst.requested <= dst'.requested /\ dst'.requested \in Int
          /\ en.demands <= en'.demands /\ en.alloc_to_dst <= en'.alloc_to_dst
      BY <1>4, <3>1, <3>2, FlowNumbers
    <3> QED BY <3>1, <3>2, <3>3, PacketsStay, FlowNumbers DEF Agreed
  <2> QED BY <1>4, <2>1, <2>2 DEF Agreed
<1>5. CASE try_allocation
  <2>1. UNCHANGED en /\ work.edge > 0 /\ work' = [work EXCEPT !.edge = @ - 1, !.admitted = @ + 1]
    BY <1>5 DEF try_allocation
  <2>2. work'.edge = work.edge - 1 /\ work'.admitted = work.admitted + 1 /\ work'.n = work.n
    BY <1>1, <2>1, EdgeFields, Zenon
  <2>3. AllAdmitted'
    BY <1>2, <1>3, <2>1, <2>2, FlowNumbers DEF AllAdmitted
  <2>4. en'.alloc_to_dst >= en.alloc_to_dst
    BY <2>1, FlowNumbers
  <2> QED BY <1>4, <2>1, <2>3, <2>4
<1>6. CASE seq_handle_spent
  <2>1. UNCHANGED en /\ work.edge = 0 /\ work.active = TRUE /\ work' = spent_backlog(work)
    BY <1>1, <1>6, EdgeFields, Zenon DEF seq_handle_spent
  <2>2. work' \in Edges
        /\ work'.admitted + work'.edge + work'.n = work.admitted + work.edge + work.n
    BY <1>1, <2>1, SpentFields, Zenon
  <2>3. work'.n \in Nat /\ work'.edge \in Nat /\ work'.admitted \in Nat
    BY <2>2, EdgeFields, Zenon
  <2>4. en.alloc_to_dst \in Int /\ en.demands \in Int
    BY FlowNumbers
  <2>5. en.alloc_to_dst + work'.admitted + work'.edge + work'.n = en.demands
    BY <1>2, <1>3, <2>2, <2>3, <2>4
  <2>6. AllAdmitted'
    BY <1>3, <2>1, <2>5 DEF AllAdmitted
  <2>7. en'.alloc_to_dst >= en.alloc_to_dst
    BY <2>1, <2>4
  <2> QED BY <1>4, <2>1, <2>6, <2>7
<1>7. CASE process_allocated_traffic
  <2> DEFINE x == en.pending + 1
             y == en.alloc_to_dst + 1
             e == [en EXCEPT !.pending = x, !.alloc_to_dst = y]
  <2>1. /\ work.admitted > 0 /\ work' = [work EXCEPT !.admitted = @ - 1]
        /\ en' = trigger_report(e)
    BY <1>7 DEF process_allocated_traffic
  <2>2. x \in Nat /\ y \in Int
    BY FlowNumbers
  <2> HIDE DEF x, y
  <2>3. e \in Accounts /\ e.demands = en.demands /\ e.alloc_to_dst = y
    BY <1>1, <2>2, Zenon DEF Accounts
  <2> HIDE DEF e
  <2>4. en'.demands = en.demands /\ en'.alloc_to_dst = en.alloc_to_dst + 1
    BY <2>1, <2>3 DEF trigger_report, Accounts, y
  <2>5. work'.admitted = work.admitted - 1 /\ work'.edge = work.edge /\ work'.n = work.n
    BY <1>1, <2>1, EdgeFields, Zenon
  <2>6. AllAdmitted'
    BY <1>2, <1>3, <2>4, <2>5, FlowNumbers DEF AllAdmitted
  <2>7. en'.alloc_to_dst >= en.alloc_to_dst
    BY <2>4, FlowNumbers
  <2> QED BY <1>4, <2>4, <2>6, <2>7
<1> QED BY <1>5, <1>6, <1>7 DEF Allocator

\* tx_end_node reports what is allocated.
LEMMA TxAgrees ==
  ASSUME FlowTypeOK, FlowTypeOK', Agreed, NEW s \in AllocSlots, tx_end_node(s)
  PROVE  Agreed'
<1> DEFINE body == [n |-> en.pending, report |-> IF en.is_pending THEN en.alloc_to_dst ELSE NONE]
<1>1. /\ en' = [en EXCEPT !.pending = 0, !.is_pending = FALSE, !.triggered = FALSE]
      /\ allocs' = allocs \/ allocs' = commit(allocs, s, epoch[C], body)
      /\ UNCHANGED <<endnode, work, epoch, reqs>>
  BY DEF tx_end_node
<1>2. en'.demands = en.demands /\ en'.alloc_to_dst = en.alloc_to_dst
  BY <1>1 DEF FlowTypeOK, Accounts
<1>3. OneEpoch' /\ InStep' /\ AllAdmitted'
  BY <1>1, <1>2 DEF Agreed, OneEpoch, InStep, AllAdmitted, endnode
<1>4. RequestsCounted'
  BY <1>1, <1>2 DEF Agreed, RequestsCounted, endnode
<1>5. ReportsCounted'
  <2>1. CASE allocs' = allocs
    BY <1>2, <2>1 DEF Agreed, ReportsCounted
  <2>2. CASE allocs' = commit(allocs, s, epoch[C], body)
    <3>1. body.report <= en.alloc_to_dst
      <4>1. CASE en.is_pending
        BY <4>1, FlowNumbers
      <4>2. CASE ~en.is_pending
        <5>1. body.report = -1
          BY <4>2 DEF NONE
        <5>2. -1 <= en.alloc_to_dst
          BY FlowNumbers DEF Agreed, AllAdmitted
        <5> QED BY <5>1, <5>2
      <4> QED BY <4>1, <4>2
    <3> HIDE DEF body
    <3>2. /\ allocs'[s].epoch = epoch[C] /\ allocs'[s].body = body
          /\ \A t \in AllocSlots \ {s} : allocs'[t] = allocs[t]
      BY <2>2 DEF commit, FlowTypeOK
    <3>3. allocs'[s].epoch = 0
      BY <3>2 DEF Agreed, OneEpoch
    <3> QED BY <1>2, <3>1, <3>2, <3>3 DEF Agreed, ReportsCounted
  <2> QED BY <1>1, <2>1, <2>2
<1> QED BY <1>3, <1>4, <1>5 DEF Agreed

LEMMA RequestsAgree ==
  ASSUME FlowTypeOK, FlowTypeOK', Agreed, WorkOK, Recent, bug = FALSE,
         NEW s \in ReqSlots, Requests(s)
  PROVE  Agreed' /\ bug' = FALSE
<1>1. CASE send_request_commit(s)
  BY <1>1, CommitAgrees DEF send_request_commit
<1>2. CASE handle_ack(s)
  BY <1>2, AckAgrees, Zenon
<1>3. CASE handle_neg_ack(s)
  <2>1. /\ reqs[s] # FREE /\ reqs' = nacked(reqs, s) /\ dst' \in {dst, enqueue(dst)}
        /\ UNCHANGED <<qlen, building, en, work, epoch, allocs, bug>>
    BY <1>3 DEF handle_neg_ack, arbiter
  <2> QED BY <2>1, QuietAgrees
<1>4. CASE fall_off(s)
  <2>1. /\ reqs[s] # FREE /\ reqs' = closed(reqs, s)
        /\ UNCHANGED <<dst, qlen, building, en, work, epoch, allocs, bug>>
    BY <1>4 DEF fall_off, arbiter, endnode
  <2> QED BY <2>1, QuietAgrees
<1>5. CASE arbiter_rx(s)
  BY <1>5, RxAgrees, Zenon DEF arbiter_rx
<1>6. CASE arbiter_got_bad_packet(s)
  <2>1. /\ reqs[s] # FREE /\ reqs' = lost(reqs, s) /\ en' = [en EXCEPT !.triggered = TRUE]
        /\ UNCHANGED <<dst, qlen, building, work, epoch, allocs, bug>>
    BY <1>6, NotFree DEF arbiter_got_bad_packet, endnode
  <2>2. en'.demands = en.demands /\ en'.alloc_to_dst = en.alloc_to_dst
    BY <2>1 DEF FlowTypeOK, Accounts
  <2> QED BY <2>1, <2>2, QuietAgrees
<1> QED BY <1>1, <1>2, <1>3, <1>4, <1>5, <1>6, Zenon DEF Requests

LEMMA AllocationsAgree ==
  ASSUME FlowTypeOK, FlowTypeOK', AccountsMatch, Agreed, WorkOK, Recent, bug = FALSE,
         NEW s \in AllocSlots, Allocations(s)
  PROVE  Agreed' /\ bug' = FALSE
<1>1. CASE tx_end_node(s)
  BY <1>1, TxAgrees DEF tx_end_node
<1>2. CASE arbiter_handle_ack(s)
  <2>1. /\ allocs[s] # FREE /\ allocs' = closed(allocs, s)
        /\ UNCHANGED <<dst, qlen, building, work, epoch, reqs, bug>>
        /\ en' = en \/ en' = [en EXCEPT !.acked_allocs = allocs[s].body.report]
    BY <1>2 DEF arbiter_handle_ack, endnode
  <2>2. en'.demands = en.demands /\ en'.alloc_to_dst = en.alloc_to_dst
    BY <2>1 DEF FlowTypeOK, Accounts
  <2> QED BY <2>1, <2>2, QuietAgrees
<1>3. CASE arbiter_handle_neg_ack(s)
  <2>1. /\ allocs[s] # FREE /\ allocs' = nacked(allocs, s)
        /\ UNCHANGED <<dst, qlen, building, work, epoch, reqs, bug>>
        /\ en' = en \/ en' = trigger_report(en)
    BY <1>3 DEF arbiter_handle_neg_ack, endnode
  <2>2. en'.demands = en.demands /\ en'.alloc_to_dst = en.alloc_to_dst
    BY <2>1, Zenon DEF FlowTypeOK, Accounts, trigger_report
  <2> QED BY <2>1, <2>2, QuietAgrees
<1>4. CASE arbiter_fall_off(s)
  <2>1. /\ allocs[s] # FREE /\ allocs' = closed(allocs, s)
        /\ UNCHANGED <<dst, qlen, building, en, work, epoch, reqs, bug>>
    BY <1>4 DEF arbiter_fall_off, endnode, arbiter
  <2> QED BY <2>1, QuietAgrees
<1>5. CASE endnode_rx(s)
  BY <1>5, EndnodeRxAgrees, Zenon DEF endnode_rx
<1>7. CASE endnode_rx_reset(s)
  <2>1. allocs[s] # FREE /\ allocs[s].epoch > epoch[E]
    BY <1>7 DEF endnode_rx_reset, arrives
  <2>2. allocs[s].epoch = 0 /\ epoch[E] = 0
    BY <2>1 DEF Agreed, ReportsCounted, OneEpoch
  <2> QED BY <2>1, <2>2
<1>6. CASE endnode_got_bad_packet(s)
  <2>1. /\ allocs[s] # FREE /\ allocs' = lost(allocs, s)
        /\ UNCHANGED <<dst, qlen, building, en, work, epoch, reqs, bug>>
    BY <1>6, NotFree DEF endnode_got_bad_packet, arbiter
  <2> QED BY <2>1, QuietAgrees
<1> QED BY <1>1, <1>2, <1>3, <1>4, <1>5, <1>6, <1>7, Zenon DEF Allocations

LEMMA LoseAgrees ==
  ASSUME FlowTypeOK, FlowTypeOK', Agreed, bug = FALSE, NEW s \in ReqSlots \cup AllocSlots, lose(s)
  PROVE  Agreed' /\ bug' = FALSE
<1>1. UNCHANGED <<dst, qlen, building, en, work, epoch, bug>>
  BY DEF lose, endnode, arbiter
<1>2. \/ s \in ReqSlots /\ reqs[s] # FREE /\ reqs' = lost(reqs, s) /\ UNCHANGED allocs
      \/ s \in AllocSlots /\ allocs[s] # FREE /\ allocs' = lost(allocs, s) /\ UNCHANGED reqs
  BY NotFree DEF lose
<1> QED BY <1>1, <1>2, QuietAgrees

LEMMA AgreeStep ==
  ASSUME FlowInv, FlowInv', AgreeInv, Recent, [Next]_vars
  PROVE  AgreeInv'
<1>1. FlowTypeOK /\ FlowTypeOK' /\ AccountsMatch /\ WorkOK /\ resets \in Nat /\ bug \in BOOLEAN
  BY DEF FlowInv, AgreeInv
<1>2. CASE UNCHANGED vars
  <2>1. UNCHANGED <<resets, bug, work, dst, en, epoch, qlen, building, reqs, allocs>>
    BY <1>2 DEF vars, endnode, arbiter, bounds
  <2>2. Agreed => Agreed'
    BY <1>1, <2>1, QuietAgrees
  <2>3. WorkOK' /\ resets' = resets /\ bug' = bug
    BY <1>1, <2>1 DEF WorkOK
  <2> QED BY <1>1, <2>2, <2>3 DEF AgreeInv
<1>3. CASE Next
  <2>1. WorkOK' /\ resets' \in Nat /\ bug' \in BOOLEAN
    BY <1>1, <1>3, WorkStep
  <2>2. ASSUME resets' = 0
        PROVE  Agreed' /\ bug' = FALSE
    <3>1. ~Resets /\ resets = 0
      <4>1. Resets => resets' = resets + 1
        BY DEF Resets, endnode_reset, arbiter_proto_reset, arbiter_restart
      <4>2. ~Resets
        BY <1>1, <2>2, <4>1
      <4>3. UNCHANGED resets
        BY <1>3, <4>2, Zenon DEF Next, add_timeslot, send_request, zero_totals, rebase, count_alloc, Requests, Allocations, lose,
           Allocator, send_request_commit, handle_ack, handle_neg_ack, fall_off,
           arbiter_got_bad_packet, tx_end_node, arbiter_handle_ack, arbiter_handle_neg_ack,
           arbiter_fall_off, endnode_rx_reset, endnode_rx, endnode_got_bad_packet, try_allocation,
           seq_handle_spent, arbiter_rx, process_allocated_traffic, bounds
      <4> QED BY <2>2, <4>2, <4>3
    <3>2. Agreed /\ bug = FALSE
      BY <3>1 DEF AgreeInv
    <3>3. CASE add_timeslot
      BY <1>1, <3>2, <3>3, AddAgrees DEF add_timeslot
    <3>4. CASE send_request
      BY <1>1, <3>2, <3>4, SendAgrees, Zenon DEF send_request
    <3>5. CASE zero_totals \/ rebase
      <4>1. resetting
        BY <3>5 DEF zero_totals, rebase, zeroed, resetting
      <4>2. epoch[E] = 0 /\ epoch[E] > 0
        BY <3>2, <4>1 DEF Agreed, OneEpoch, FlowInv, Zeroing
      <4> QED BY <4>2
    <3>10. CASE count_alloc
      <4>1. UNCHANGED <<resets, bug, work, dst, en, epoch, qlen, building, reqs, allocs>>
        BY <3>10 DEF count_alloc, arbiter, bounds
      <4> QED BY <1>1, <3>2, <4>1, QuietAgrees
    <3>6. CASE Allocator
      <4>1. UNCHANGED bug
        BY <3>6 DEF Allocator, try_allocation, seq_handle_spent, process_allocated_traffic
      <4> QED BY <1>1, <3>2, <3>6, <4>1, AllocatorAgrees
    <3>7. ASSUME NEW s \in ReqSlots, Requests(s) PROVE Agreed' /\ bug' = FALSE
      BY <1>1, <3>2, <3>7, RequestsAgree, Zenon
    <3>8. ASSUME NEW s \in AllocSlots, Allocations(s) PROVE Agreed' /\ bug' = FALSE
      BY <1>1, <3>2, <3>8, AllocationsAgree, Zenon
    <3>9. ASSUME NEW s \in ReqSlots \cup AllocSlots, lose(s) PROVE Agreed' /\ bug' = FALSE
      BY <1>1, <3>2, <3>9, LoseAgrees, Zenon
    <3> QED BY <1>3, <3>1, <3>3, <3>4, <3>5, <3>6, <3>7, <3>8, <3>9, <3>10, Zenon DEF Next
  <2> QED BY <2>1, <2>2, Zenon DEF AgreeInv
<1> QED BY <1>2, <1>3

LEMMA InitAgrees ==
  ASSUME NEW k \in Nat, AtRest(k)
  PROVE  AgreeInv
<1>1. /\ dst.demand = k /\ dst.requested = k /\ dst.acked = k /\ dst.alloc = k /\ dst.used = k
      /\ qlen = 0 /\ building = NONE /\ epoch[E] = 0 /\ epoch[C] = 0
      /\ resets = 0 /\ bug = FALSE
  BY DEF AtRest
<1>2. en.demands = k /\ en.alloc_to_dst = k
  BY DEF AtRest, no_accounts
<1>3. WorkOK /\ work.n = 0 /\ work.edge = 0 /\ work.admitted = 0
  BY DEF AtRest, WorkOK, Edges, idle
<1>4. RequestsCounted /\ ReportsCounted
  BY DEF AtRest, RequestsCounted, ReportsCounted
<1>5. OneEpoch /\ AllAdmitted
  BY <1>1, <1>2, <1>3 DEF OneEpoch, AllAdmitted
<1>6. InStep
  BY <1>1, <1>2, FlowAssumption DEF InStep, NONE
<1> QED BY <1>1, <1>3, <1>4, <1>5, <1>6, Zenon DEF AgreeInv, Agreed

LEMMA AgreeInductive == Spec /\ []Recent => []AgreeInv
<1>1. Init => AgreeInv
  BY InitAgrees DEF Init
<1>2. FlowInv /\ FlowInv' /\ AgreeInv /\ Recent /\ [Next]_vars => AgreeInv'
  BY AgreeStep
<1> QED BY <1>1, <1>2, FlowInductive, PTL DEF Spec

\* As long as no packet is overtaken by half the modulus, what handle_areq of the arbiter
\* counts lies between what handle_ack confirmed and what send_request asked for, and the
\* FASTPASS_BUG_ON of handle_ack does not fire, until one side is reset.
THEOREM SidesAgree == Spec /\ []Recent => []DemandsAgree
<1>1. AgreeInv => DemandsAgree
  BY DEF AgreeInv, Agreed, InStep, DemandsAgree
<1> QED BY <1>1, AgreeInductive, PTL

\* Under the same condition every timeslot the arbiter was asked for is waiting in the
\* allocator, admitted or counted as allocated, exactly once; and the end node's accounts
\* match its queue, whatever happens.
THEOREM TimeslotsConserved == Spec /\ []Recent => []Conserved
<1>1. AgreeInv /\ FlowInv => Conserved
  BY DEF AgreeInv, Agreed, AllAdmitted, FlowInv, AccountsMatch, Conserved
<1> QED BY <1>1, AgreeInductive, FlowInductive, PTL

=============================================================================
