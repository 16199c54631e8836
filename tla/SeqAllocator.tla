---------------------------- MODULE SeqAllocator ----------------------------
(***************************************************************************)
(* The pipelined timeslot allocator (graph-algo/admissible_traffic.c).     *)
(*                                                                         *)
(* N_CORES admission cores each allocate the BATCH_SIZE timeslots of a     *)
(* batch, every N_CORES-th batch to the same core, several batches at the  *)
(* same time.  A flow with demand is in the pipeline as one edge, and an   *)
(* edge is in a bin.  The comm core puts an edge into q_head when a flow   *)
(* becomes active; the core whose batch is next takes it, allocates it     *)
(* timeslots in order of age, and hands what it cannot allocate to the     *)
(* core of the next batch.  An edge without demand left goes back to the   *)
(* comm core through q_spent.                                              *)
(*                                                                         *)
(* Only differences of timeslots matter, and all are kept as distances     *)
(* from the present timeslot.  A metric is a uint32_t, a distance modulo   *)
(* TIME.  current_timeslot differs from first_timeslot by a constant and   *)
(* is not kept.  The rings and pools never run full.                       *)
(***************************************************************************)
EXTENDS SeqBins, Sequences, FiniteSets, FiniteSetsExt, Functions

CONSTANTS
  Flows,            \* the flows: pairs of a source and a destination
  OUT_OF_BOUNDARY,  \* the destination that stands for all nodes outside
  OUT_OF_BOUNDARY_CAPACITY,
  N_CORES, SMALL_BIN_SIZE, BURST, MAX_DEMANDS_PER_BATCH,
  START,            \* the first batch begins this many timeslots after the cores are started
  LATE,             \* a core is at most this late in its own batch
  MAX_AGE,          \* the age of an edge is not counted further, unless this is 0
  MAX_DEMAND,       \* bound on the demand of a flow that is not yet sent out,
  MAX_TOTAL,        \* and on that of all flows
  MAX_RESETS

ASSUME AllocatorAssumption ==
  /\ {N_CORES, SMALL_BIN_SIZE, BURST, MAX_DEMANDS_PER_BATCH, START, MAX_DEMAND, MAX_TOTAL} \subseteq Nat \ {0}
  /\ {LATE, MAX_AGE, MAX_RESETS, OUT_OF_BOUNDARY_CAPACITY} \subseteq Nat
  /\ N_CORES > 1
  /\ MAX_AGE < TIME

VARIABLES
  status,      \* the comm core's part: n, is_active, last_alloc_tslot, new_demands
  q_head, q_spent,
  q_bin,       \* the rings between the cores
  core,        \* the admission cores
  latest,      \* comm_core's latest_timeslot, as a distance from now
  mislabelled, \* a timeslot was taken for another by comm_core
  pending,     \* demand added and not yet sent to q_admitted_out
  resets

vars == <<status, q_head, q_spent, q_bin, core, latest, mislabelled, pending, resets>>

Cores == 0 .. N_CORES - 1

Slots == 0 .. BATCH_SIZE - 1

src(f) == f[1]

dst(f) == f[2]

next_core(c) == (c + 1) % N_CORES

\* (BATCH_SIZE + NUM_BINS) << TIMESLOT_SHIFT_PER_PRIORITY
TIMESLOTS_START_BEFORE == 2 * (BATCH_SIZE + NUM_BINS)

\* The demand of a flow is a uint32_t in n, that of its edge a uint16_t.
Edge(f, backlog, metric) == [flow |-> f, backlog |-> backlog % 65536, metric |-> metric]

----------------------------------------------------------------------------
(***************************************************************************)
(* batch_state: which timeslots of the batch a source and a destination    *)
(* still have, and how many may still go out of the boundary.              *)
(***************************************************************************)
batch_state_init == [src_endnodes |-> [s \in {src(f) : f \in Flows} |-> Slots],
                     dst_endnodes |-> [d \in {dst(f) : f \in Flows} |-> Slots],
                     out_of_boundary_counts |-> [t \in Slots |-> OUT_OF_BOUNDARY_CAPACITY]]

mut_avail_bitmap(k, f) == k.batch.src_endnodes[src(f)] \cap k.batch.dst_endnodes[dst(f)]

\* A timeslot that was sent out is not allowed any more.
avail_bitmap(k, f) == {t \in k.batch.src_endnodes[src(f)] \cap k.batch.dst_endnodes[dst(f)] : t >= k.admitted_bins}

\* out_of_boundary_counts is a uint16_t
counts_after(b, f, t) == IF dst(f) = OUT_OF_BOUNDARY
                         THEN [b.out_of_boundary_counts EXCEPT ![t] = (@ - 1) % 65536]
                         ELSE b.out_of_boundary_counts

mut_flip_mask(counts, f, t) == dst(f) = OUT_OF_BOUNDARY

\* Is the destination's bit flipped?
flip_mask(counts, f, t) == dst(f) = OUT_OF_BOUNDARY \/ counts[t] = 0

src_after(b, f, t) == [b.src_endnodes EXCEPT ![src(f)] = @ \ {t}]

set_occupied(b, f, t) ==
  LET counts == counts_after(b, f, t)
  IN [src_endnodes |-> src_after(b, f, t),
      dst_endnodes |-> IF flip_mask(counts, f, t) THEN [b.dst_endnodes EXCEPT ![dst(f)] = @ \ {t}] ELSE b.dst_endnodes,
      out_of_boundary_counts |-> counts]

----------------------------------------------------------------------------
\* alloc_core_reset, for the batch that begins in `ahead' timeslots
core_reset(ahead) ==
  [ahead |-> ahead, seen |-> FALSE, should_process_new_req |-> FALSE,
   processed_bins |-> 0, admitted_bins |-> 0, n_processed |-> 0,
   bins |-> [i \in Bin |-> <<>>], bin |-> 0, todo |-> <<>>,
   batch |-> batch_state_init, admitted |-> [t \in Slots |-> {}],
   out_bin |-> <<>>, spent_bin |-> <<>>]

Init ==
  /\ status = [n |-> [f \in Flows |-> 0], is_active |-> [f \in Flows |-> FALSE],
               last_alloc |-> [f \in Flows |-> (START - NUM_BINS) % TIME], new_demands |-> <<>>]
  /\ q_head = <<>>
  /\ q_spent = <<>>
  /\ q_bin = [c \in Cores |-> <<>>]
  /\ core = [c \in Cores |-> core_reset(START + c * BATCH_SIZE)]
  /\ latest = START - 1
  /\ mislabelled = FALSE
  /\ pending = [f \in Flows |-> 0]
  /\ resets = 0

----------------------------------------------------------------------------
(***************************************************************************)
(* The comm core.                                                          *)
(***************************************************************************)
\* enqueue_new_demand: the bin of new demands is sent when it is full.
enqueue_new_demand(s, f, amount) ==
  LET new == Append(s.new_demands, Edge(f, amount, s.last_alloc[f]))
      full == Len(new) = SMALL_BIN_SIZE
  IN /\ status' = [s EXCEPT !.new_demands = IF full THEN <<>> ELSE new]
     /\ q_head' = IF full THEN Append(q_head, new) ELSE q_head

\* A flow that is active is in the pipeline already: its new demand waits in n for the edge to come back.
seq_add_backlog(f, amount) ==
  /\ pending[f] + amount <= MAX_DEMAND
  /\ SumFunction(pending) + amount <= MAX_TOTAL
  /\ pending' = [pending EXCEPT ![f] = @ + amount]
  /\ IF status.is_active[f]
     THEN status' = [status EXCEPT !.n[f] = @ + amount] /\ UNCHANGED q_head
     ELSE enqueue_new_demand([status EXCEPT !.is_active[f] = TRUE], f, amount)
  /\ UNCHANGED <<q_spent, q_bin, core, latest, mislabelled, resets>>

seq_flush_backlog ==
  /\ status.new_demands # <<>>
  /\ q_head' = Append(q_head, status.new_demands)
  /\ status' = [status EXCEPT !.new_demands = <<>>]
  /\ UNCHANGED <<q_spent, q_bin, core, latest, mislabelled, pending, resets>>

mut_retired(s, e) == [s EXCEPT !.last_alloc[e.flow] = e.metric]

retired(s, e) == [s EXCEPT !.last_alloc[e.flow] = e.metric, !.is_active[e.flow] = FALSE]

\* One edge of the first spent bin: the comm core's own state is all that an edge is compared with.
seq_handle_spent ==
  /\ q_spent # <<>>
  /\ LET e == Head(Head(q_spent))
         rest == Tail(Head(q_spent))
     IN /\ q_spent' = IF rest = <<>> THEN Tail(q_spent) ELSE [q_spent EXCEPT ![1] = rest]
        /\ IF status.n[e.flow] = 0
           THEN status' = retired(status, e) /\ UNCHANGED q_head
           ELSE enqueue_new_demand([status EXCEPT !.n[e.flow] = 0], e.flow, status.n[e.flow])
  /\ UNCHANGED <<q_bin, core, latest, mislabelled, pending, resets>>

after_reset(s) == [status EXCEPT !.n = [f \in Flows |-> IF src(f) = s THEN 0 ELSE @[f]]]

\* The demand that waits in n is forgotten; that of the edges in the pipeline is not.
seq_reset_sender(s) ==
  /\ resets < MAX_RESETS
  /\ resets' = resets + 1
  /\ status' = after_reset(s)
  /\ pending' = [f \in Flows |-> IF src(f) = s THEN pending[f] - status.n[f] ELSE pending[f]]
  /\ UNCHANGED <<q_head, q_spent, q_bin, core, latest, mislabelled>>

----------------------------------------------------------------------------
(***************************************************************************)
(* An admission core.  Its loop reads the clock (poll), takes bins         *)
(* (handle_inputs), and allocates until no allowed bin has an edge left.   *)
(***************************************************************************)
allowed_bins(k) == {0} \cup 0 .. k.processed_bins - 1

non_empty_bins(k) == {i \in Bin : k.bins[i] # <<>>}

\* Between two rounds of try_allocation_core
at_loop_head(k) == k.todo = <<>> /\ non_empty_bins(k) \cap allowed_bins(k) = {}

\* The bins that are allowed to be processed at this distance from the end of the batch
bins_allowed(k) ==
  LET slot_gap == TIMESLOTS_START_BEFORE - (k.ahead + BATCH_SIZE - 1)
  IN IF slot_gap < 0 THEN k.processed_bins ELSE slot_gap \div 2

\* The edges of a sequence of bins, one bin after the other
edges_of(bins) ==
  LET upto[i \in 0 .. Len(bins)] == IF i = 0 THEN <<>> ELSE upto[i - 1] \o bins[i]
  IN upto[Len(bins)]

\* The edges of a bin that belong into bin i
for_bin(k, bin, i) ==
  edges_of([j \in 1 .. Len(bin) |-> IF bin_index_from_timeslot(bin[j].metric, k.ahead) = i THEN <<bin[j]>> ELSE <<>>])

\* bin_index_from_timeslot for every edge of a bin
incoming_bin_to_core(k, bin) == [i \in Bin |-> k.bins[i] \o for_bin(k, bin, i)]

\* Full bins, and one with the rest if there is any
chunks(s) == [i \in 1 .. (Len(s) + SMALL_BIN_SIZE - 1) \div SMALL_BIN_SIZE |->
                SubSeq(s, (i - 1) * SMALL_BIN_SIZE + 1, Min({i * SMALL_BIN_SIZE, Len(s)}))]

\* burst_q_in_to_q_out, after the bins `more' were put into the next core's ring
pass_bins(c, more) ==
  LET burst == Min({BURST, Len(q_bin[c])})
  IN [q_bin EXCEPT ![c] = SubSeq(@, burst + 1, Len(@)), ![next_core(c)] = @ \o more \o SubSeq(q_bin[c], 1, burst)]

\* The edges that the core still holds, in the order in which move_core_to_q_out puts them out
left_over(k) == k.out_bin \o edges_of([i \in 1 .. NUM_BINS + BATCH_SIZE |-> k.bins[i - 1]])

\* The timeslots of the batch that have come, the present one included
slots_due(k) == IF k.ahead > 0 THEN k.admitted_bins ELSE Min({BATCH_SIZE, 1 - k.ahead})

\* The timeslots that have come are put into q_admitted_out; comm_core counts them as they arrive.
send_out(k) ==
  LET due == k.admitted_bins .. slots_due(k) - 1
  IN /\ latest' = latest + Cardinality(due)
     /\ mislabelled' = (mislabelled \/ (due # {} /\ latest + 1 # k.ahead + k.admitted_bins))
     /\ pending' = [f \in Flows |-> pending[f] - Cardinality({t \in due : f \in k.admitted[t]})]

\* The clock shows a new timeslot.
poll(c) ==
  LET k == core[c]
  IN /\ at_loop_head(k)
     /\ ~k.seen
     /\ slots_due(k) < BATCH_SIZE
     /\ send_out(k)
     /\ core' = [core EXCEPT ![c] = [@ EXCEPT !.seen = TRUE,
                                              !.should_process_new_req = k.ahead > 1 /\ k.ahead <= BATCH_SIZE,
                                              !.admitted_bins = slots_due(k),
                                              !.processed_bins = bins_allowed(k)]]
     /\ UNCHANGED <<status, q_head, q_spent, q_bin, resets>>

mut_next_batch(k) == k.ahead + (N_CORES - 1) * BATCH_SIZE

\* logical_timeslot += BATCH_SIZE * N_ADMISSION_CORES
next_batch(k) == k.ahead + N_CORES * BATCH_SIZE

\* The last timeslot of the batch has come: the core goes on to its next batch.
wrap_up(c) ==
  LET k == core[c]
  IN /\ at_loop_head(k)
     /\ ~k.seen
     /\ slots_due(k) = BATCH_SIZE
     /\ send_out(k)
     /\ q_bin' = pass_bins(c, chunks(left_over(k)))
     /\ q_spent' = IF k.spent_bin = <<>> THEN q_spent ELSE Append(q_spent, k.spent_bin)
     /\ core' = [core EXCEPT ![c] = core_reset(next_batch(k))]
     /\ UNCHANGED <<status, q_head, resets>>

\* The batch has had its share of demands: bins that come in are handed on.
pass_on(c) ==
  /\ at_loop_head(core[c])
  /\ core[c].n_processed >= MAX_DEMANDS_PER_BATCH
  /\ q_bin[c] # <<>>
  /\ q_bin' = pass_bins(c, <<>>)
  /\ UNCHANGED <<status, q_head, q_spent, core, latest, mislabelled, pending, resets>>

\* How many bins of new requests a core takes: a burst, if it is its turn
process_new_requests(k) == IF k.should_process_new_req THEN Min({BURST, Len(q_head)}) ELSE 0

\* The new requests, and then one bin of the core before
handle_inputs(c) ==
  LET k == core[c]
      n_new == process_new_requests(k)
      n_in == Min({1, Len(q_bin[c])})
      edges == edges_of(SubSeq(q_head, 1, n_new) \o SubSeq(q_bin[c], 1, n_in))
  IN /\ at_loop_head(k)
     /\ k.n_processed < MAX_DEMANDS_PER_BATCH
     /\ n_new + n_in > 0
     /\ q_head' = SubSeq(q_head, n_new + 1, Len(q_head))
     /\ q_bin' = [q_bin EXCEPT ![c] = SubSeq(@, n_in + 1, Len(@))]
     /\ core' = [core EXCEPT ![c] = [k EXCEPT !.bins = incoming_bin_to_core(k, edges),
                                              !.n_processed = Min({k.n_processed + Len(edges), MAX_DEMANDS_PER_BATCH})]]
     /\ UNCHANGED <<status, q_spent, latest, mislabelled, pending, resets>>

\* try_allocation_core: the allowed bin of the oldest flows is next.  Its edges are read one by one and it is emptied at
\* the end, with whatever was added to it meanwhile.
take_bin(c) ==
  LET k == core[c]
      i == Min(non_empty_bins(k) \cap allowed_bins(k))
  IN /\ k.todo = <<>>
     /\ ~at_loop_head(k)
     /\ core' = [core EXCEPT ![c] = [@ EXCEPT !.bin = i, !.todo = k.bins[i], !.bins[i] = <<>>]]
     /\ UNCHANGED <<status, q_head, q_spent, q_bin, latest, mislabelled, pending, resets>>

\* The first edge of the bin was dealt with; k is what became of the rest of the core's state.
next_edge(k) == [k EXCEPT !.todo = Tail(@),
                          !.bins = IF Len(k.todo) = 1 THEN [@ EXCEPT ![k.bin] = <<>>] ELSE @,
                          !.bin = IF Len(k.todo) = 1 THEN 0 ELSE @]

\* The edge has no timeslot in this batch: it goes to the core of the next one.
no_available_timeslots(c) ==
  LET k == core[c]
      out == Append(k.out_bin, Head(k.todo))
      full == Len(out) = SMALL_BIN_SIZE
  IN /\ k.todo # <<>>
     /\ avail_bitmap(k, Head(k.todo).flow) = {}
     /\ core' = [core EXCEPT ![c] = next_edge([k EXCEPT !.out_bin = IF full THEN <<>> ELSE out])]
     /\ q_bin' = IF full THEN [q_bin EXCEPT ![next_core(c)] = Append(@, out)] ELSE q_bin
     /\ UNCHANGED <<status, q_head, q_spent, latest, mislabelled, pending, resets>>

mut_bin_after_alloc(t) == NUM_BINS + t - 1

bin_after_alloc(t) == NUM_BINS + t

\* Timeslot t is given to flow f.
admit(k, f, t) == [k EXCEPT !.batch = set_occupied(@, f, t), !.admitted[t] = @ \cup {f}]

\* try_allocation gives the edge the first timeslot it can have.
try_allocation(c) ==
  LET k == core[c]
      e == Head(k.todo)
      t == Min(avail_bitmap(k, e.flow))
      metric == (k.ahead + t) % TIME
      occupied == admit(k, e.flow, t)
      bins == [k.bins EXCEPT ![bin_after_alloc(t)] = Append(@, Edge(e.flow, e.backlog - 1, metric))]
      spent == Append(k.spent_bin, Edge(e.flow, 0, metric))
      full == Len(spent) = SMALL_BIN_SIZE
  IN /\ k.todo # <<>>
     /\ avail_bitmap(k, e.flow) # {}
     /\ IF e.backlog # 1
        THEN /\ core' = [core EXCEPT ![c] = next_edge([occupied EXCEPT !.bins = bins])]
             /\ UNCHANGED q_spent
        ELSE /\ core' = [core EXCEPT ![c] = next_edge([occupied EXCEPT !.spent_bin = IF full THEN <<>> ELSE spent])]
             /\ q_spent' = IF full THEN Append(q_spent, spent) ELSE q_spent
     /\ UNCHANGED <<status, q_head, q_bin, latest, mislabelled, pending, resets>>

\* A timeslot is one further in the past.  All that is MAX_AGE old is in bin 0 and need not be told apart.
aged(metric) == IF metric = TIME - MAX_AGE THEN metric ELSE (metric - 1) % TIME

aged_bin(bin) == [i \in DOMAIN bin |-> [bin[i] EXCEPT !.metric = aged(@)]]

aged_ring(ring) == [i \in DOMAIN ring |-> aged_bin(ring[i])]

\* The next timeslot begins.  A core may be LATE in reading the clock, but not later, once its own batch has begun.
Tick ==
  /\ \A c \in Cores : core[c].seen \/ core[c].ahead + LATE > 0
  /\ latest' = latest - 1
  /\ status' = [status EXCEPT !.last_alloc = [f \in Flows |-> aged(@[f])], !.new_demands = aged_bin(@)]
  /\ q_head' = aged_ring(q_head)
  /\ q_spent' = aged_ring(q_spent)
  /\ q_bin' = [c \in Cores |-> aged_ring(q_bin[c])]
  /\ core' = [c \in Cores |-> [core[c] EXCEPT !.ahead = @ - 1, !.seen = FALSE, !.bins = aged_ring(@), !.todo = aged_bin(@),
                                              !.out_bin = aged_bin(@), !.spent_bin = aged_bin(@)]]
  /\ UNCHANGED <<mislabelled, pending, resets>>

comm_core == \/ \E f \in Flows, amount \in 1 .. MAX_DEMAND : seq_add_backlog(f, amount)
             \/ seq_flush_backlog
             \/ seq_handle_spent
             \/ \E f \in Flows : seq_reset_sender(src(f))

admission_core(c) == \/ poll(c) \/ wrap_up(c) \/ pass_on(c) \/ handle_inputs(c)
                     \/ take_bin(c) \/ no_available_timeslots(c) \/ try_allocation(c)

Next == comm_core \/ Tick \/ \E c \in Cores : admission_core(c)

Spec == Init /\ [][Next]_vars

\* Cores that do all there is to do for them before the next timeslot begins
Prompt == \A c \in Cores : /\ core[c].seen /\ at_loop_head(core[c]) /\ q_bin[c] = <<>>
                           /\ \/ q_head = <<>> \/ ~core[c].should_process_new_req
                              \/ core[c].n_processed >= MAX_DEMANDS_PER_BATCH

PromptTick == Prompt /\ Tick

\* All threads spin.
Fairness == /\ WF_vars(PromptTick)
            /\ WF_vars(seq_flush_backlog)
            /\ WF_vars(seq_handle_spent)
            /\ \A c \in Cores : WF_vars(admission_core(c))

PromptNext == comm_core \/ PromptTick \/ \E c \in Cores : admission_core(c)

FairSpec == Init /\ [][PromptNext]_vars /\ Fairness

----------------------------------------------------------------------------
\* Every edge that is somewhere in the allocator
pipeline == status.new_demands \o edges_of(q_head) \o edges_of(q_spent)
            \o edges_of([i \in 1 .. N_CORES |-> LET k == core[i - 1]
                                                  IN edges_of(q_bin[i - 1]) \o k.todo \o left_over(k) \o k.spent_bin])

\* An active flow has exactly one edge in the pipeline and an idle one has none, through all bins, rings and cores: an
\* edge is neither lost when try_allocation_core empties the bin it has processed, nor is a second one made for a flow
\* by a demand that comes while its edge is on its way back.  An idle flow has no demand (the assertion of
\* backlog_increase).  The rings hold no empty bin, so that they never hold more bins than there are active flows: this,
\* and the bins that are being filled, is what the pool of bins has to supply.
OneEdge ==
  LET active == {f \in Flows : status.is_active[f]}
  IN /\ {e.flow : e \in Range(pipeline)} = active
     /\ Len(pipeline) = Cardinality(active)
     /\ \A f \in Flows \ active : status.n[f] = 0
     /\ Len(q_head) + Len(q_spent) + FoldFunction(+, 0, [c \in Cores |-> Len(q_bin[c])]) <= Cardinality(active)

\* Demand is neither lost nor made: what was asked for and is not yet sent to comm_core waits in n, is carried by the
\* flow's edge, or is admitted in a timeslot that has not come.
Conserved ==
  LET edges == pipeline
      carried(f) == {ik \in (DOMAIN edges) \X (1 .. MAX_DEMAND) : edges[ik[1]].flow = f /\ ik[2] <= edges[ik[1]].backlog}
      admitted(f) == {ct \in Cores \X Slots : ct[2] >= core[ct[1]].admitted_bins /\ f \in core[ct[1]].admitted[ct[2]]}
  IN \A f \in Flows : pending[f] = status.n[f] + Cardinality(carried(f)) + Cardinality(admitted(f))

\* What the cores admit is a matching: no source is to send two packets in one timeslot and no destination to receive
\* two, whichever flows share it, except that as many as the boundary can carry go out of it.
NodeOnce ==
  \A c \in Cores, t \in Slots :
    LET from(s) == Cardinality({f \in core[c].admitted[t] : src(f) = s})
        to(d) == Cardinality({f \in core[c].admitted[t] : dst(f) = d})
    IN \A f \in core[c].admitted[t] :
         /\ from(src(f)) = 1
         /\ to(dst(f)) <= IF dst(f) = OUT_OF_BOUNDARY THEN OUT_OF_BOUNDARY_CAPACITY ELSE 1

\* The cores send their batches out in the order of the timeslots, so that comm_core, which only counts what it takes from
\* q_admitted_out, gives each timeslot its own number.
InOrder == ~mislabelled

\* No flow starves if the cores are prompt: one that has demand is given a timeslot in the end, however the demands of
\* the others keep coming.
Served == \A f \in Flows : []<>(pending[f] = 0) \/ []<><<pending'[f] < pending[f]>>_vars
=============================================================================
