-------------------------------- MODULE Pim --------------------------------
(***************************************************************************)
(* The parallel iterative matching allocator (grant-accept/pim.c, phase.h  *)
(* and their headers): each core owns a partition of the nodes, grants on  *)
(* behalf of its sources, accepts on behalf of its destinations, and waits *)
(* for the others only through one ring of "finished" entries per core.    *)
(*                                                                         *)
(* Every access of a core to what another core writes is a step of its     *)
(* own: telling the others that a phase is finished, one ring at a time,   *)
(* and picking up their results, one partition at a time.  A core's own    *)
(* work in between is one step.                                            *)
(*                                                                         *)
(* backlog_increase and backlog_decrease are taken as pim.c uses them: the *)
(* first tells whether the backlog was 0, the second what is left.         *)
(***************************************************************************)
EXTENDS Integers, Sequences, FiniteSets

CONSTANTS N_PARTITIONS,
          PARTITION_N_NODES,
          Flows,            \* the pairs of nodes with traffic between them
          NUM_ITERATIONS,   \* 3 in the code
          SMALL_BIN_SIZE,
          PHASES,           \* phases are counted modulo this, 2^16
          MAX_DEMAND,       \* bound: packets asked for of each flow
          MAX_SLOTS         \* bound: timeslots allocated

\* The nodes are numbered from 0, partition by partition; a phase that follows another
\* has another number.
ASSUME PimAssumption ==
    /\ N_PARTITIONS \in Nat \ {0} /\ PARTITION_N_NODES \in Nat \ {0}
    /\ LET all == 0 .. N_PARTITIONS * PARTITION_N_NODES - 1 IN Flows \subseteq all \X all
    /\ NUM_ITERATIONS \in Nat \ {0} /\ SMALL_BIN_SIZE \in Nat \ {0}
    /\ PHASES \in Nat /\ PHASES > 1
    /\ MAX_DEMAND \in Nat /\ MAX_SLOTS \in Nat

Partitions == 0 .. N_PARTITIONS - 1
PARTITION_OF(n) == n \div PARTITION_N_NODES
Nodes == {f[1] : f \in Flows} \cup {f[2] : f \in Flows}
NodesOf(p) == {n \in Nodes : PARTITION_OF(n) = p}

VARIABLES backlog,          \* state->backlog
          asked,            \* history: packets asked for
          new_demands,      \* the comm core's bin for each partition
          q_new_demands,    \* what is in the bins on their way to each core
          requests,         \* requests_by_src: each source's destinations
          grant_adj_index,  \* which of them each source granted
          grants,           \* the destination each source granted, if any
          grants_by_dst,    \* the sources that granted each destination
          accepts,          \* edges accepted and not yet processed
          src_endnodes, dst_endnodes,  \* nodes allocated in the timeslot
          admitted,         \* edges admitted by each core in its timeslot
          q_admitted_out,   \* timeslots each core has sent out
          stage,            \* what each core does next
          iteration,
          phase,            \* partitions[p].phase
          told,             \* cores told of the end of the phase, plus one
          heard,            \* cores heard of in this phase
          q_ready           \* entries <<phase, partition>> for each core

demands == <<backlog, asked, new_demands, q_new_demands>>
edges == <<requests, grant_adj_index, grants, grants_by_dst, accepts,
           src_endnodes, dst_endnodes, admitted, q_admitted_out>>
phases == <<stage, iteration, phase, told, heard, q_ready>>
vars == <<demands, edges, phases>>

-----------------------------------------------------------------------------
(* The comm core.                                                          *)

\* A flow that had no backlog goes into the bin of its source's partition, which is
\* sent when it is full.
pim_add_backlog(f, amount) ==
    LET p == PARTITION_OF(f[1])
        bin == IF backlog[f] = 0 THEN Append(new_demands[p], f) ELSE new_demands[p]
        full == backlog[f] = 0 /\ Len(bin) = SMALL_BIN_SIZE
    IN  /\ asked[f] + amount <= MAX_DEMAND
        /\ backlog' = [backlog EXCEPT ![f] = @ + amount]
        /\ asked' = [asked EXCEPT ![f] = @ + amount]
        /\ new_demands' = [new_demands EXCEPT ![p] = IF full THEN <<>> ELSE bin]
        /\ q_new_demands' = IF full THEN [q_new_demands EXCEPT ![p] = @ \o bin]
                            ELSE q_new_demands
        /\ UNCHANGED <<edges, phases>>

pim_flush_backlog ==
    /\ \E p \in Partitions : new_demands[p] # <<>>
    /\ q_new_demands' = [p \in Partitions |-> q_new_demands[p] \o new_demands[p]]
    /\ new_demands' = [p \in Partitions |-> <<>>]
    /\ UNCHANGED <<backlog, asked, edges, phases>>

-----------------------------------------------------------------------------
(* Phases.                                                                 *)

mut_phase_finished(p, next) ==
    /\ phase' = [phase EXCEPT ![p] = (@ + 1) % PHASES]
    /\ stage' = [stage EXCEPT ![p] = next]
    /\ told' = [told EXCEPT ![p] = 1]
    /\ heard' = [heard EXCEPT ![p] = 2]
    /\ UNCHANGED q_ready

\* phase_finished begins: the entries are put into the other cores' rings after it.
phase_finished(p, next) ==
    /\ phase' = [phase EXCEPT ![p] = (@ + 1) % PHASES]
    /\ stage' = [stage EXCEPT ![p] = next]
    /\ told' = [told EXCEPT ![p] = 1]
    /\ heard' = [heard EXCEPT ![p] = 1]
    /\ UNCHANGED q_ready

\* One entry of phase_finished.
enqueue_ready(p) ==
    LET to == (p + told[p]) % N_PARTITIONS IN
    /\ told[p] < N_PARTITIONS
    /\ told' = [told EXCEPT ![p] = @ + 1]
    /\ q_ready' = [q_ready EXCEPT ![to] = Append(@, <<phase[p], p>>)]
    /\ UNCHANGED <<demands, edges, stage, iteration, phase, heard>>

waiting(p, s) ==
    stage[p] = s /\ told[p] = N_PARTITIONS /\ heard[p] < N_PARTITIONS

\* phase_get_finished_partition returns the partition of the first entry.
is_finished(p) == q_ready[p] # <<>> /\ Head(q_ready[p])[1] = phase[p]

finished(p) == Head(q_ready[p])[2]

hear(p) ==
    /\ is_finished(p)
    /\ q_ready' = [q_ready EXCEPT ![p] = Tail(@)]
    /\ heard' = [heard EXCEPT ![p] = @ + 1]
    /\ UNCHANGED <<stage, iteration, phase, told>>

-----------------------------------------------------------------------------
(* The cores.                                                              *)

\* process_incoming_bin, for all the bins that have come (the code takes 8 at a time, more
\* than the flows of a run can fill): a destination more of each flow's source.
with_new_requests(p) ==
    LET new == q_new_demands[p]
        after[k \in 0 .. Len(new)] ==
          IF k = 0 THEN requests
          ELSE [after[k - 1] EXCEPT ![new[k][1]] = Append(@, new[k][2])]
    IN  after[Len(new)]

process_new_requests(p) ==
    /\ requests' = with_new_requests(p)
    /\ q_new_demands' = [q_new_demands EXCEPT ![p] = <<>>]
    /\ UNCHANGED <<backlog, asked, new_demands>>

\* While it waits a core polls q_new_demands whenever no entry is ready, or the
\* first one is of the phase after this one: it goes to the end of the ring.
poll(p) ==
    /\ \E s \in {"accept", "process"} : waiting(p, s)
    /\ ~is_finished(p)
    /\ q_ready[p] # <<>> \/ q_new_demands[p] # <<>>
    /\ process_new_requests(p)
    /\ q_ready' = IF q_ready[p] = <<>> THEN q_ready
                  ELSE [q_ready EXCEPT ![p] = Append(Tail(@), Head(@))]
    /\ UNCHANGED <<grant_adj_index, grants, grants_by_dst, accepts, src_endnodes,
                   dst_endnodes, admitted, q_admitted_out, stage, iteration, phase,
                   told, heard>>

pim_prepare(p) ==
    /\ stage[p] = "prepare"
    /\ Len(q_admitted_out[p]) < MAX_SLOTS
    /\ process_new_requests(p)
    /\ src_endnodes' = src_endnodes \ NodesOf(p)
    /\ dst_endnodes' = dst_endnodes \ NodesOf(p)
    /\ admitted' = [admitted EXCEPT ![p] = {}]
    /\ stage' = [stage EXCEPT ![p] = "grant"]
    /\ iteration' = [iteration EXCEPT ![p] = 1]
    /\ UNCHANGED <<grant_adj_index, grants, grants_by_dst, accepts, q_admitted_out,
                   phase, told, heard, q_ready>>

mut_may_grant(p, s) ==
    LET all == DOMAIN requests[s] IN IF all = {} THEN {0} ELSE all

\* The indexes a source may draw, 0 if it may end up with none: in the first
\* iteration any; later only that of a free destination, and none if it is
\* allocated itself or all its draws were of allocated destinations.
may_grant(p, s) ==
    LET all == DOMAIN requests[s]
        free == {i \in all : requests[s][i] \notin dst_endnodes}
    IN  CASE all = {} -> {0}
          [] all # {} /\ iteration[p] = 1 -> all
          [] all # {} /\ iteration[p] > 1 ->
               IF s \in src_endnodes THEN {0} ELSE free \cup (IF free = all THEN {} ELSE {0})

\* pim_do_grant and pim_do_grant_first_it, and pim_do_accept up to the partition's
\* own grants.
pim_do_grant(p) ==
    /\ stage[p] = "grant"
    /\ \E draw \in [NodesOf(p) -> 0 .. Cardinality(Nodes)] :
         /\ \A s \in NodesOf(p) : draw[s] \in may_grant(p, s)
         /\ grants' = [s \in Nodes |-> IF s \notin NodesOf(p) THEN grants[s]
                                       ELSE {requests[s][i] : i \in {draw[s]} \ {0}}]
         /\ grant_adj_index' = [s \in Nodes |-> IF s \in NodesOf(p) /\ draw[s] # 0
                                                THEN draw[s] ELSE grant_adj_index[s]]
    /\ grants_by_dst' = [d \in Nodes |-> IF d \in NodesOf(p)
                                         THEN {s \in NodesOf(p) : d \in grants'[s]}
                                         ELSE grants_by_dst[d]]
    /\ phase_finished(p, "accept")
    /\ UNCHANGED <<demands, requests, accepts, src_endnodes, dst_endnodes, admitted,
                   q_admitted_out, iteration>>

\* The sources of partition q that granted destination d.
add_edges_by_dst(srcs, q, d) == srcs \cup {s \in NodesOf(q) : d \in grants[s]}

\* Another partition's grants are sorted by destination.
collect_grants(p) ==
    /\ waiting(p, "accept")
    /\ hear(p)
    /\ grants_by_dst' = [d \in Nodes |->
                           IF d \in NodesOf(p)
                           THEN add_edges_by_dst(grants_by_dst[d], finished(p), d)
                           ELSE grants_by_dst[d]]
    /\ UNCHANGED <<demands, requests, grant_adj_index, grants, accepts, src_endnodes,
                   dst_endnodes, admitted, q_admitted_out>>

\* ga_adj_delete_neigh moves the last destination into the hole.
without_neigh(dsts, i) ==
    [j \in 1 .. Len(dsts) - 1 |-> IF j = i THEN dsts[Len(dsts)] ELSE dsts[j]]

mut_served(E, s) == requests[s]

\* A source's requests after its edges in E: a flow with nothing left is deleted.
served(E, s) ==
    IF \E f \in E : f[1] = s /\ backlog[f] = 1
    THEN without_neigh(requests[s], grant_adj_index[s])
    ELSE requests[s]

\* process_accepts_from_partition
process_accepts_from(p, q, acc) ==
    LET E == {f \in acc : PARTITION_OF(f[1]) = p /\ PARTITION_OF(f[2]) = q} IN
    /\ admitted' = [admitted EXCEPT ![p] = @ \cup E]
    /\ src_endnodes' = src_endnodes \cup {f[1] : f \in E}
    /\ backlog' = [f \in Flows |-> IF f \in E THEN backlog[f] - 1 ELSE backlog[f]]
    /\ requests' = [s \in Nodes |-> served(E, s)]
    /\ UNCHANGED <<asked, new_demands, q_new_demands>>

\* The choice at the end of pim_do_accept, and pim_process_accepts up to the
\* partition's own accepts.
pim_do_accept(p) ==
    /\ stage[p] = "accept" /\ told[p] = N_PARTITIONS /\ heard[p] = N_PARTITIONS
    /\ LET chosen == {d \in NodesOf(p) : grants_by_dst[d] # {}} IN
       /\ \E src \in [chosen -> Nodes] :
            /\ \A d \in chosen : src[d] \in grants_by_dst[d]
            /\ accepts' = accepts \cup {<<src[d], d>> : d \in chosen}
       /\ dst_endnodes' = dst_endnodes \cup chosen
    /\ process_accepts_from(p, p, accepts')
    /\ phase_finished(p, "process")
    /\ UNCHANGED <<grant_adj_index, grants, grants_by_dst, q_admitted_out, iteration>>

collect_accepts(p) ==
    /\ waiting(p, "process")
    /\ hear(p)
    /\ process_accepts_from(p, finished(p), accepts)
    /\ UNCHANGED <<grant_adj_index, grants, grants_by_dst, accepts, dst_endnodes,
                   q_admitted_out>>

\* The end of pim_process_accepts and, after the last iteration,
\* pim_complete_timeslot.
pim_process_accepts(p) ==
    /\ stage[p] = "process" /\ told[p] = N_PARTITIONS /\ heard[p] = N_PARTITIONS
    /\ accepts' = {f \in accepts : PARTITION_OF(f[1]) # p}
    /\ IF iteration[p] < NUM_ITERATIONS
       THEN /\ stage' = [stage EXCEPT ![p] = "grant"]
            /\ iteration' = [iteration EXCEPT ![p] = @ + 1]
            /\ UNCHANGED q_admitted_out
       ELSE /\ stage' = [stage EXCEPT ![p] = "prepare"]
            /\ q_admitted_out' = [q_admitted_out EXCEPT ![p] = Append(@, admitted[p])]
            /\ UNCHANGED iteration
    /\ UNCHANGED <<demands, requests, grant_adj_index, grants, grants_by_dst,
                   src_endnodes, dst_endnodes, admitted, phase, told, heard, q_ready>>

-----------------------------------------------------------------------------

InitCores ==
    /\ requests = [s \in Nodes |-> <<>>]
    /\ grant_adj_index = [s \in Nodes |-> 0]
    /\ grants = [s \in Nodes |-> {}]
    /\ grants_by_dst = [d \in Nodes |-> {}]
    /\ accepts = {} /\ src_endnodes = {} /\ dst_endnodes = {}
    /\ admitted = [p \in Partitions |-> {}]
    /\ q_admitted_out = [p \in Partitions |-> <<>>]
    /\ stage = [p \in Partitions |-> "prepare"]
    /\ iteration = [p \in Partitions |-> 1]
    /\ phase = [p \in Partitions |-> 0]
    /\ told = [p \in Partitions |-> N_PARTITIONS]
    /\ heard = [p \in Partitions |-> N_PARTITIONS]
    /\ q_ready = [p \in Partitions |-> <<>>]

Init ==
    /\ backlog = [f \in Flows |-> 0] /\ asked = [f \in Flows |-> 0]
    /\ new_demands = [p \in Partitions |-> <<>>]
    /\ q_new_demands = [p \in Partitions |-> <<>>]
    /\ InitCores

Step(p) ==
    \/ enqueue_ready(p) \/ poll(p) \/ pim_prepare(p) \/ pim_do_grant(p)
    \/ collect_grants(p) \/ pim_do_accept(p) \/ collect_accepts(p)
    \/ pim_process_accepts(p)

Next ==
    \/ \E f \in Flows, amount \in 1 .. MAX_DEMAND : pim_add_backlog(f, amount)
    \/ pim_flush_backlog
    \/ \E p \in Partitions : Step(p)

Spec == Init /\ [][Next]_vars

-----------------------------------------------------------------------------
(* Correctness.                                                            *)

\* The t-th timeslot of every core is the same timeslot: the comm core numbers
\* what comes out of each ring on its own.
slots_out ==
    [t \in 1 .. MAX_SLOTS |->
       UNION {IF t <= Len(q_admitted_out[p]) THEN q_admitted_out[p][t]
              ELSE IF t = Len(q_admitted_out[p]) + 1 /\ stage[p] # "prepare"
                   THEN admitted[p] ELSE {} : p \in Partitions}]

Matching(E) ==
    \A e, f \in E : e # f => e[1] # f[1] /\ e[2] # f[2]

Abs == INSTANCE AllocatorAbs
         WITH Slots <- 1 .. MAX_SLOTS, Fits <- Matching,
              demand <- backlog, slots <- slots_out

\* The cores together are an allocator: although each numbers its timeslots and marks
\* its nodes on its own, what they admit in a timeslot is a matching, and every packet
\* asked for is admitted once at most (pim_do_grant to pim_process_accepts).
PimAllocates == Abs!ASpec

\* Where the cores and the comm core may find a flow.
places(f) ==
    LET count(seq, x) == Cardinality({i \in DOMAIN seq : seq[i] = x}) IN
    LET p == PARTITION_OF(f[1]) IN
    count(new_demands[p], f) + count(q_new_demands[p], f)
      + count(requests[f[1]], f[2])

\* A flow waits in exactly one bin or request list while it has backlog and in none
\* when it has not: pim_add_backlog adds it only when the backlog was 0, and
\* process_accepts_from_partition deletes it only when the backlog reaches 0, by the
\* index that was granted a phase earlier.
OnePlace == \A f \in Flows : places(f) = (IF backlog[f] > 0 THEN 1 ELSE 0)

\* No core looks at the destinations' marks in pim_do_grant while another core may set
\* them in pim_do_accept or clear them in pim_prepare: phases are the only thing that
\* orders these accesses, which take no lock.
NoRace ==
    \A p, q \in Partitions :
        (p # q /\ stage[p] = "grant" /\ iteration[p] > 1)
        => /\ stage[q] # "prepare"
           /\ ~(stage[q] = "accept" /\ told[q] = N_PARTITIONS /\ heard[q] = N_PARTITIONS)

=============================================================================
