---------------------------- MODULE SjfAllocator ----------------------------
(***************************************************************************)
(* The shortest-job-first allocator (admissible_traffic_sjf.c and its      *)
(* headers).  Cores in a ring allocate a batch of timeslots each, from     *)
(* bins ordered by remaining backlog that each core hands to the next.     *)
(* Requests reach the core that holds the token; what that core has no     *)
(* room for goes to the next one through the urgent queue.                 *)
(*                                                                         *)
(* A flow is tried in one step, which is what the atomic operations on its *)
(* backlog allow an observer to see.  reset_sender is not modelled.        *)
(***************************************************************************)
EXTENDS Naturals, Sequences, FiniteSets, SequencesExt

CONSTANTS N_CORES,
          Flows,
          OUT_OF_BOUNDARY_NODE_ID,
          TOR_SIZE,                  \* nodes of a rack
          BATCH_SIZE,                \* 64 in the code
          NUM_BINS,                  \* 256 in the code
          PACE,                      \* timeslots output between waits, 4 in the code
          oversubscribed,
          inter_rack_capacity,
          out_of_boundary_capacity,
          MAX_DEMAND,                \* bound: packets asked for of each flow
          MAX_BATCHES                \* bound: batches allocated

Cores == 0 .. N_CORES - 1
Bins == 0 .. NUM_BINS - 1
BatchSlots == 0 .. BATCH_SIZE - 1
Nodes == {f[1] : f \in Flows} \cup {f[2] : f \in Flows}
next(c) == (c + 1) % N_CORES
get_rack_from_id(n) == n \div TOR_SIZE
URGENT_Q_HEAD_TOKEN == <<"token">>
NULL == <<<<>>>>   \* instead of a bin that was handed on

VARIABLES backlog,           \* flows[].backlog
          asked,             \* history: packets asked for
          q_head,            \* flows that got their first backlog
          q_urgent,          \* q_urgent_in of each core: <<bin, flow>> or the token
          q_bin,             \* q_bin_in of each core
          q_admitted_out,
          stage,             \* where in get_admissible_traffic each core is
          batch,             \* number of the batch
          bin,               \* the loop variable of that name
          is_head,
          work,              \* what is left of the bins being tried
          new_request_bins, outgoing_bins, admitted,
          \* of batch_state: nodes taken, as <<node, timeslot>>, flows counted for
          \* racks and the boundary, and the first timeslot still allowed
          src_endnodes, dst_endnodes, src_rack_counts, dst_rack_counts,
          out_of_boundary_counts, allowed_mask

queues == <<q_head, q_urgent, q_bin, q_admitted_out>>
batch_state == <<src_endnodes, dst_endnodes, src_rack_counts, dst_rack_counts,
                 out_of_boundary_counts, allowed_mask>>
core_state == <<stage, batch, bin, is_head, work, new_request_bins, outgoing_bins>>
vars == <<backlog, asked, queues, core_state, admitted, batch_state>>

-----------------------------------------------------------------------------
(* The comm core.                                                          *)

add_backlog(f, increase) ==
    /\ asked[f] + increase <= MAX_DEMAND
    /\ asked' = [asked EXCEPT ![f] = @ + increase]
    /\ backlog' = [backlog EXCEPT ![f] = @ + increase]
    /\ q_head' = IF backlog[f] = 0 THEN Append(q_head, f) ELSE q_head
    /\ UNCHANGED <<q_urgent, q_bin, q_admitted_out, core_state, admitted, batch_state>>

-----------------------------------------------------------------------------
(* Allocation of a flow.                                                   *)

bin_index(left) == IF left <= NUM_BINS THEN left - 1 ELSE NUM_BINS - 1

\* The timeslots get_first_timeslot may return: it takes the first.
available(c, f) ==
    {t \in BatchSlots :
        /\ t >= allowed_mask[c]
        /\ <<f[1], t>> \notin src_endnodes[c]
        /\ <<f[2], t>> \notin dst_endnodes[c]
        /\ oversubscribed =>
             /\ src_rack_counts[c][get_rack_from_id(f[1])][t] # inter_rack_capacity
             /\ f[2] # OUT_OF_BOUNDARY_NODE_ID =>
                  dst_rack_counts[c][get_rack_from_id(f[2])][t] # inter_rack_capacity}

\* try_allocation gives the flow the first timeslots, until none is left or the
\* backlog is 0.
taken(c, f) ==
    LET av == available(c, f)
    IN  {t \in av : Cardinality({u \in av : u < t}) < backlog[f]}

left(c, f) == backlog[f] - Cardinality(taken(c, f))

counted(counts, r, T) == [counts EXCEPT ![r] = [t \in BatchSlots |-> IF t \in T THEN @[t] + 1 ELSE @[t]]]

mut_set_timeslot_occupied(c, f, T) ==
    /\ src_endnodes' = [src_endnodes EXCEPT ![c] = @ \cup {<<f[1], t>> : t \in T}]
    /\ dst_endnodes' = [dst_endnodes EXCEPT ![c] = @ \cup
            {<<f[2], t>> : t \in {u \in T : f[2] # OUT_OF_BOUNDARY_NODE_ID}}]
    /\ src_rack_counts' = [src_rack_counts EXCEPT ![c] = counted(@, get_rack_from_id(f[1]), T)]
    /\ dst_rack_counts' = IF f[2] = OUT_OF_BOUNDARY_NODE_ID THEN dst_rack_counts
            ELSE [dst_rack_counts EXCEPT ![c] = counted(@, get_rack_from_id(f[2]), T)]
    /\ UNCHANGED <<out_of_boundary_counts, allowed_mask>>

\* A destination out of the boundary is full when the capacity is reached, any other
\* one after one packet.
set_timeslot_occupied(c, f, T) ==
    LET oob == [t \in BatchSlots |->
                  out_of_boundary_counts[c][t]
                    + (IF t \in T /\ f[2] = OUT_OF_BOUNDARY_NODE_ID THEN 1 ELSE 0)]
    IN  /\ src_endnodes' = [src_endnodes EXCEPT ![c] = @ \cup {<<f[1], t>> : t \in T}]
        /\ out_of_boundary_counts' = [out_of_boundary_counts EXCEPT ![c] = oob]
        /\ dst_endnodes' = [dst_endnodes EXCEPT ![c] = @ \cup
             {<<f[2], t>> : t \in {u \in T : f[2] = OUT_OF_BOUNDARY_NODE_ID
                                             => oob[u] = out_of_boundary_capacity}}]
        /\ src_rack_counts' = [src_rack_counts EXCEPT
             ![c] = counted(@, get_rack_from_id(f[1]), T)]
        /\ dst_rack_counts' = IF f[2] = OUT_OF_BOUNDARY_NODE_ID THEN dst_rack_counts
             ELSE [dst_rack_counts EXCEPT ![c] = counted(@, get_rack_from_id(f[2]), T)]
        /\ UNCHANGED allowed_mask

insert_admitted_edge(c, f, T) ==
    admitted' = [admitted EXCEPT ![c] =
      [t \in BatchSlots |-> IF t \in T THEN @[t] \cup {f} ELSE @[t]]]

try_allocation(c, f) ==
    /\ set_timeslot_occupied(c, f, taken(c, f))
    /\ insert_admitted_edge(c, f, taken(c, f))
    /\ backlog' = [backlog EXCEPT ![f] = left(c, f)]

\* process_one_new_request: a flow whose bin is passed is tried at once, and what is
\* left of it goes to the next core; any other waits in its bin.
process_one_new_request(c, f, b, urgent) ==
    IF b < bin[c]
    THEN /\ try_allocation(c, f)
         /\ q_urgent' = IF left(c, f) = 0 THEN urgent
                        ELSE [urgent EXCEPT ![next(c)] = Append(@, <<bin_index(left(c, f)), f>>)]
         /\ UNCHANGED new_request_bins
    ELSE /\ new_request_bins' = [new_request_bins EXCEPT ![c][b] = Append(@, f)]
         /\ q_urgent' = urgent
         /\ UNCHANGED <<backlog, admitted, batch_state>>

-----------------------------------------------------------------------------
(* get_admissible_traffic.                                                 *)

empty_bins == [b \in Bins |-> <<>>]
no_counts == [r \in {get_rack_from_id(n) : n \in Nodes} |-> [t \in BatchSlots |-> 0]]

alloc_core_reset(c) ==
    /\ stage[c] = "idle"
    /\ batch[c] < MAX_BATCHES
    /\ new_request_bins' = [new_request_bins EXCEPT ![c] = empty_bins]
    /\ outgoing_bins' = [outgoing_bins EXCEPT ![c] = empty_bins]
    /\ src_endnodes' = [src_endnodes EXCEPT ![c] = {}]
    /\ dst_endnodes' = [dst_endnodes EXCEPT ![c] = {}]
    /\ src_rack_counts' = [src_rack_counts EXCEPT ![c] = no_counts]
    /\ dst_rack_counts' = [dst_rack_counts EXCEPT ![c] = no_counts]
    /\ out_of_boundary_counts' = [out_of_boundary_counts EXCEPT ![c] = [t \in BatchSlots |-> 0]]
    /\ allowed_mask' = [allowed_mask EXCEPT ![c] = 0]
    /\ admitted' = [admitted EXCEPT ![c] = [t \in BatchSlots |-> {}]]
    /\ is_head' = [is_head EXCEPT ![c] = FALSE]
    /\ stage' = [stage EXCEPT ![c] = "requests"]
    /\ bin' = [bin EXCEPT ![c] = 0]
    /\ UNCHANGED <<backlog, asked, queues, batch, work>>

\* A core runs process_new_requests when it starts, when the bin it needs has not
\* come, and before it outputs every PACE-th timeslot.
in_process_new_requests(c) ==
    \/ stage[c] = "requests"
    \/ stage[c] = "output" /\ bin[c] % PACE = 0

\* process_q_urgent.  What was dequeued in one burst with the token, behind it, is
\* dropped.
process_q_urgent(c) ==
    /\ in_process_new_requests(c) /\ ~is_head[c] /\ q_urgent[c] # <<>>
    /\ LET e == Head(q_urgent[c])
           rest == [q_urgent EXCEPT ![c] = Tail(@)]
       IN  IF e = URGENT_Q_HEAD_TOKEN
           THEN /\ is_head' = [is_head EXCEPT ![c] = TRUE]
                /\ \E dropped \in 0 .. Len(rest[c]) :
                     q_urgent' = [rest EXCEPT ![c] = SubSeq(@, dropped + 1, Len(@))]
                /\ UNCHANGED <<backlog, new_request_bins, admitted, batch_state>>
           ELSE /\ process_one_new_request(c, e[2], e[1], rest)
                /\ UNCHANGED is_head
    /\ UNCHANGED <<asked, q_head, q_bin, q_admitted_out, stage, batch, bin, work, outgoing_bins>>

\* process_head
process_head(c) ==
    /\ in_process_new_requests(c) /\ is_head[c] /\ q_head # <<>>
    /\ q_head' = Tail(q_head)
    /\ process_one_new_request(c, Head(q_head), bin_index(backlog[Head(q_head)]), q_urgent)
    /\ UNCHANGED <<asked, q_bin, q_admitted_out, stage, batch, bin, is_head, work, outgoing_bins>>

drained(c) == IF is_head[c] THEN q_head = <<>> ELSE q_urgent[c] = <<>>

\* process_new_requests returns when there is none left, and the core looks for a bin.
look_for_bin(c) ==
    /\ stage[c] = "requests" /\ drained(c)
    /\ stage' = [stage EXCEPT ![c] = "bins"]
    /\ UNCHANGED <<backlog, asked, queues, batch, bin, is_head, work, new_request_bins,
                   outgoing_bins, admitted, batch_state>>

\* There is no bin: the core processes all new requests before it looks again.
wait_for_bin(c) ==
    /\ stage[c] = "bins" /\ q_bin[c] = <<>> /\ ~drained(c)
    /\ stage' = [stage EXCEPT ![c] = "requests"]
    /\ UNCHANGED <<backlog, asked, queues, batch, bin, is_head, work, new_request_bins,
                   outgoing_bins, admitted, batch_state>>

\* The bin arrives: it and the new requests of its size are tried, flow by flow.
dequeue_bin(c) ==
    /\ stage[c] = "bins" /\ q_bin[c] # <<>>
    /\ work' = [work EXCEPT ![c] = Head(q_bin[c]) \o new_request_bins[c][bin[c]]]
    /\ q_bin' = [q_bin EXCEPT ![c] = Tail(@)]
    /\ new_request_bins' = [new_request_bins EXCEPT ![c][bin[c]] = <<>>]
    /\ stage' = [stage EXCEPT ![c] = "try"]
    /\ UNCHANGED <<backlog, asked, q_head, q_urgent, q_admitted_out, batch, bin, is_head,
                   outgoing_bins, admitted, batch_state>>

\* The outgoing bin of what is left of the flow.
remaining_bin(c, f) == bin_index(left(c, f))

\* One flow of try_allocation_bin.
try_allocation_bin(c) ==
    /\ stage[c] = "try" /\ work[c] # <<>>
    /\ LET f == Head(work[c]) IN
       /\ try_allocation(c, f)
       /\ outgoing_bins' = IF left(c, f) = 0 THEN outgoing_bins
                           ELSE [outgoing_bins EXCEPT ![c][remaining_bin(c, f)] = Append(@, f)]
    /\ work' = [work EXCEPT ![c] = Tail(@)]
    /\ UNCHANGED <<asked, queues, stage, batch, bin, is_head, new_request_bins>>

\* An outgoing bin is passed on when no flow can fall into it any more.
pass_bin(c) ==
    /\ stage[c] = "try" /\ work[c] = <<>>
    /\ q_bin' = IF bin[c] < BATCH_SIZE THEN q_bin
                ELSE [q_bin EXCEPT ![next(c)] = Append(@, outgoing_bins[c][bin[c] - BATCH_SIZE])]
    /\ outgoing_bins' = IF bin[c] < BATCH_SIZE THEN outgoing_bins
                        ELSE [outgoing_bins EXCEPT ![c][bin[c] - BATCH_SIZE] = NULL]
    /\ bin' = [bin EXCEPT ![c] = (@ + 1) % NUM_BINS]
    /\ stage' = [stage EXCEPT ![c] = IF bin[c] = NUM_BINS - 1 THEN "output" ELSE "bins"]
    /\ UNCHANGED <<backlog, asked, q_head, q_urgent, q_admitted_out, batch, is_head, work,
                   new_request_bins, admitted, batch_state>>

\* A timeslot is output, by the head only, and no longer allowed.
output(c) ==
    /\ stage[c] = "output" /\ bin[c] < BATCH_SIZE
    /\ bin[c] % PACE = 0 => is_head[c] /\ drained(c)
    /\ q_admitted_out' = Append(q_admitted_out, admitted[c][bin[c]])
    /\ allowed_mask' = [allowed_mask EXCEPT ![c] = @ + 1]
    /\ bin' = [bin EXCEPT ![c] = @ + 1]
    /\ UNCHANGED <<backlog, asked, q_head, q_urgent, q_bin, stage, batch, is_head, work,
                   new_request_bins, outgoing_bins, admitted, src_endnodes, dst_endnodes,
                   src_rack_counts, dst_rack_counts, out_of_boundary_counts>>

\* All timeslots of the batch are out, and the token goes to the next core.
hand_over_token(c) ==
    /\ stage[c] = "output" /\ bin[c] = BATCH_SIZE
    /\ q_urgent' = [q_urgent EXCEPT ![next(c)] = Append(@, URGENT_Q_HEAD_TOKEN)]
    /\ stage' = [stage EXCEPT ![c] = "hand over"]
    /\ bin' = [bin EXCEPT ![c] = NUM_BINS - BATCH_SIZE]
    /\ UNCHANGED <<backlog, asked, q_head, q_bin, q_admitted_out, batch, is_head, work,
                   new_request_bins, outgoing_bins, admitted, batch_state>>

\* The bins that are left follow, one by one, the last with the new requests of its size.
hand_over_bin(c) ==
    LET b == bin[c]
        last == b = NUM_BINS - 1
    IN  /\ stage[c] = "hand over"
        /\ q_bin' = [q_bin EXCEPT ![next(c)] = Append(@, outgoing_bins[c][b]
                        \o (IF last THEN new_request_bins[c][b] ELSE <<>>))]
        /\ outgoing_bins' = [outgoing_bins EXCEPT ![c] = IF last THEN empty_bins ELSE [@ EXCEPT ![b] = NULL]]
        /\ new_request_bins' = IF last THEN [new_request_bins EXCEPT ![c][b] = <<>>] ELSE new_request_bins
        /\ bin' = [bin EXCEPT ![c] = (@ + 1) % NUM_BINS]
        /\ stage' = [stage EXCEPT ![c] = IF last THEN "idle" ELSE @]
        /\ batch' = [batch EXCEPT ![c] = IF last THEN @ + N_CORES ELSE @]
        /\ UNCHANGED <<backlog, asked, q_head, q_urgent, q_admitted_out, is_head, work, admitted, batch_state>>

-----------------------------------------------------------------------------

\* The first core has the token and the bins, all empty.
Init ==
    /\ backlog = [f \in Flows |-> 0] /\ asked = [f \in Flows |-> 0]
    /\ q_head = <<>> /\ q_admitted_out = <<>>
    /\ q_urgent = [c \in Cores |-> IF c = 0 THEN <<URGENT_Q_HEAD_TOKEN>> ELSE <<>>]
    /\ q_bin = [c \in Cores |-> IF c = 0 THEN [i \in 1 .. NUM_BINS |-> <<>>] ELSE <<>>]
    /\ stage = [c \in Cores |-> "idle"]
    /\ batch = [c \in Cores |-> c]
    /\ bin = [c \in Cores |-> 0]
    /\ is_head = [c \in Cores |-> FALSE]
    /\ work = [c \in Cores |-> <<>>]
    /\ new_request_bins = [c \in Cores |-> empty_bins]
    /\ outgoing_bins = [c \in Cores |-> empty_bins]
    /\ admitted = [c \in Cores |-> [t \in BatchSlots |-> {}]]
    /\ src_endnodes = [c \in Cores |-> {}] /\ dst_endnodes = [c \in Cores |-> {}]
    /\ src_rack_counts = [c \in Cores |-> no_counts]
    /\ dst_rack_counts = [c \in Cores |-> no_counts]
    /\ out_of_boundary_counts = [c \in Cores |-> [t \in BatchSlots |-> 0]]
    /\ allowed_mask = [c \in Cores |-> 0]

Step(c) ==
    \/ alloc_core_reset(c) \/ process_q_urgent(c) \/ process_head(c) \/ look_for_bin(c)
    \/ wait_for_bin(c) \/ dequeue_bin(c) \/ try_allocation_bin(c) \/ pass_bin(c) \/ output(c)
    \/ hand_over_token(c) \/ hand_over_bin(c)

Next ==
    \/ \E f \in Flows, increase \in 1 .. MAX_DEMAND : add_backlog(f, increase)
    \/ \E c \in Cores : Step(c)

Spec == Init /\ [][Next]_vars

-----------------------------------------------------------------------------
(* Correctness.                                                            *)

\* What a timeslot has room for.
Fits(E) ==
    /\ \A e, f \in E : e # f => /\ e[1] # f[1]
                                /\ e[2] = f[2] => e[2] = OUT_OF_BOUNDARY_NODE_ID
    /\ Cardinality({e \in E : e[2] = OUT_OF_BOUNDARY_NODE_ID}) <= out_of_boundary_capacity
    /\ oversubscribed =>
         \A n \in Nodes :
           /\ Cardinality({e \in E : get_rack_from_id(e[1]) = get_rack_from_id(n)})
                <= inter_rack_capacity
           /\ Cardinality({e \in E : /\ get_rack_from_id(e[2]) = get_rack_from_id(n)
                                     /\ e[2] # OUT_OF_BOUNDARY_NODE_ID}) <= inter_rack_capacity

\* The timeslots in the order they leave, then those the cores still fill.
slots_out ==
    [t \in 1 .. MAX_BATCHES * BATCH_SIZE |->
       IF t <= Len(q_admitted_out) THEN q_admitted_out[t]
       ELSE UNION {admitted[c][t - 1 - batch[c] * BATCH_SIZE] :
                     c \in {d \in Cores : /\ stage[d] # "idle"
                                          /\ t - 1 \in batch[d] * BATCH_SIZE ..
                                                       batch[d] * BATCH_SIZE + BATCH_SIZE - 1}}]

Abs == INSTANCE AllocatorAbs
         WITH Slots <- 1 .. MAX_BATCHES * BATCH_SIZE, Fits <- Fits,
              demand <- backlog, slots <- slots_out

\* A flow's remaining backlog never falls into an outgoing bin that was handed to the
\* next core: try_allocation_bin would write through a null pointer.
OutgoingThere ==
    \A c \in Cores : (stage[c] = "try" /\ work[c] # <<>> /\ left(c, Head(work[c])) > 0)
                     => outgoing_bins[c][remaining_bin(c, Head(work[c]))] # NULL

\* The cores together are an allocator: timeslots leave in order although cores fill
\* their batches at the same time, none changes after it left, and the nodes', racks'
\* and boundary's capacities hold in each (get_first_timeslot, set_timeslot_occupied,
\* the token, allowed_mask).  No core needs a bin that it has handed on.
SjfAllocates == Abs!ASpec /\ []OutgoingThere
=============================================================================
