--------------------------- MODULE PathSelection ---------------------------
(***************************************************************************)
(* Path selection (path_selection.c on graph.h and euler_split.c).  The    *)
(* packets of a timeslot become the edges of a bipartite multigraph of     *)
(* racks, which is made regular with dummy edges; an Euler split halves    *)
(* it, and a second one, of both halves, spreads the packets over four     *)
(* paths.                                                                  *)
(*                                                                         *)
(* A vertex keeps its edges in a bitmap of slots, and for each slot the    *)
(* other end and the slot there.  Nodes are abstracted to their racks.     *)
(***************************************************************************)
EXTENDS Naturals, Sequences, FiniteSets, FiniteSetsExt

CONSTANT Inputs   \* pairs of a number of racks and a sequence of rack pairs

NUM_PATHS == 4
NOPATH == NUM_PATHS

VARIABLES racks,          \* structure->n
          traffic,        \* admitted: rack pairs <<src, dst>>
          path,           \* the path in the high bits of each dst, NOPATH before
          added,          \* packets added to the graph
          neighbors,      \* structure->vertices[].neighbors: slot to <<id, index>>
          neighbor_bitmaps,  \* of edges[0], edges[1] and edges[2]: slots in use
          step,           \* what select_paths does next
          graph,          \* the graph being split
          node, cur_node, \* where the split is
          turn            \* 1 or 2: the first or second edge of a round

vars == <<racks, traffic, path, added, neighbors, neighbor_bitmaps, step, graph, node,
          cur_node, turn>>

Racks == 0 .. racks - 1
Vertices == 0 .. 2 * racks - 1
get_degree(g, v) == Cardinality(neighbor_bitmaps[g][v])
has_neighbor(g, v) == neighbor_bitmaps[g][v] # {}

-----------------------------------------------------------------------------
(* construct_graph                                                         *)

first_empty(v) == Min((0 .. get_degree(0, v)) \ neighbor_bitmaps[0][v])

with_neighbor(f, i, e) == [k \in DOMAIN f \cup {i} |-> IF k = i THEN e ELSE f[k]]

add_edge(u, v) ==
    LET i == first_empty(u)
        j == first_empty(v)
    IN  /\ neighbor_bitmaps' = [neighbor_bitmaps EXCEPT ![0][u] = @ \cup {i},
                                                        ![0][v] = @ \cup {j}]
        /\ neighbors' = [neighbors EXCEPT ![u] = with_neighbor(@, i, <<v, j>>),
                                          ![v] = with_neighbor(@, j, <<u, i>>)]

add_admitted ==
    /\ step = "construct" /\ added < Len(traffic)
    /\ LET e == traffic[added + 1] IN add_edge(e[1], e[2] + racks)
    /\ added' = added + 1
    /\ UNCHANGED <<racks, traffic, path, step, graph, node, cur_node, turn>>

\* The greatest number of packets of a rack, as a multiple of NUM_PATHS.
max_degree ==
    LET most == Max({Cardinality({i \in 1 .. Len(traffic) : traffic[i][side] = r}) :
                       r \in Racks, side \in {1, 2}})
    IN  ((most + NUM_PATHS - 1) \div NUM_PATHS) * NUM_PATHS

unfilled(V) == {v \in V : get_degree(0, v) # max_degree}

\* Dummy edges, between the first racks that need one, until the graph is regular.
add_dummy ==
    /\ step = "construct" /\ added = Len(traffic)
    /\ unfilled(Racks) # {}
    /\ add_edge(Min(unfilled(Racks)), Min(unfilled(Vertices \ Racks)))
    /\ UNCHANGED <<racks, traffic, path, added, step, graph, node, cur_node, turn>>

begin_split(g, what) ==
    step' = what /\ graph' = g /\ node' = 0 /\ cur_node' = 0 /\ turn' = 1

constructed ==
    /\ step = "construct" /\ added = Len(traffic) /\ unfilled(Racks) = {}
    /\ begin_split(0, "split")
    /\ UNCHANGED <<racks, traffic, path, added, neighbors, neighbor_bitmaps>>

-----------------------------------------------------------------------------
(* split and split_and_populate_paths                                      *)

\* The edge at cur_node the walk takes: its slot there, the other end, its slot there.
next_edge ==
    LET i == Min(neighbor_bitmaps[graph][cur_node])
    IN  <<i, neighbors[cur_node][i][1], neighbors[cur_node][i][2]>>

\* A round of two edges begins only if the vertex the walk began at has an edge.
may_peel == turn = 2 \/ has_neighbor(graph, node)

walk ==
    /\ cur_node' = next_edge[2]
    /\ turn' = 3 - turn
    /\ UNCHANGED <<racks, traffic, added, neighbors, step, graph, node>>

mut_split_edge ==
    /\ step = "split" /\ may_peel /\ has_neighbor(graph, cur_node)
    /\ LET i == next_edge[1] v == next_edge[2] j == next_edge[3] IN
       neighbor_bitmaps' = [neighbor_bitmaps EXCEPT
           ![0][cur_node] = @ \ {i}, ![0][v] = @ \ {j},
           ![turn][cur_node] = @ \cup {i}, ![turn][v] = @ \cup {i}]
    /\ walk
    /\ UNCHANGED path

\* The edge goes from edges[0] to the graph of its turn.
split_edge ==
    /\ step = "split" /\ may_peel /\ has_neighbor(graph, cur_node)
    /\ LET i == next_edge[1] v == next_edge[2] j == next_edge[3] IN
       neighbor_bitmaps' = [neighbor_bitmaps EXCEPT
           ![0][cur_node] = @ \ {i}, ![0][v] = @ \ {j},
           ![turn][cur_node] = @ \cup {i}, ![turn][v] = @ \cup {j}]
    /\ walk
    /\ UNCHANGED path

\* map_racks_to_nodes: the packets between two racks.
traffic_between(src, dst) == {i \in 1 .. Len(traffic) : traffic[i] = <<src, dst>>}

\* assign_to_path takes the last packet between the racks that has no path yet; a
\* dummy edge finds none.
assigned(src, dst, p) ==
    LET left == {i \in traffic_between(src, dst) : path[i] = NOPATH}
    IN  IF left = {} THEN path ELSE [path EXCEPT ![Max(left)] = p]

remove_edge_to_neighbor ==
    /\ step = "paths" /\ may_peel /\ has_neighbor(graph, cur_node)
    /\ LET i == next_edge[1] v == next_edge[2] j == next_edge[3] IN
       /\ neighbor_bitmaps' = [neighbor_bitmaps EXCEPT
            ![graph][cur_node] = @ \ {i}, ![graph][v] = @ \ {j}]
       /\ path' = IF turn = 1 THEN assigned(cur_node, v - racks, 2 * graph - 2)
                  ELSE assigned(v, cur_node - racks, 2 * graph - 1)
    /\ walk

\* The split goes on from the next rack, then with the next graph.
next_node ==
    /\ step \in {"split", "paths"} /\ ~may_peel
    /\ IF node < racks - 1
       THEN node' = node + 1 /\ cur_node' = node + 1 /\ UNCHANGED <<step, graph, turn>>
       ELSE IF graph < 2 THEN begin_split(graph + 1, "paths")
       ELSE step' = "done" /\ UNCHANGED <<graph, node, cur_node, turn>>
    /\ UNCHANGED <<racks, traffic, path, added, neighbors, neighbor_bitmaps>>

-----------------------------------------------------------------------------

Init ==
    /\ \E in \in Inputs :
         /\ racks = in[1] /\ traffic = in[2]
         /\ path = [i \in 1 .. Len(in[2]) |-> NOPATH]
    /\ added = 0 /\ step = "construct"
    /\ neighbors = [v \in Vertices |-> <<>>]
    /\ neighbor_bitmaps = [g \in 0 .. 2 |-> [v \in Vertices |-> {}]]
    /\ graph = 0 /\ node = 0 /\ cur_node = 0 /\ turn = 1

Next ==
    \/ add_admitted \/ add_dummy \/ constructed
    \/ split_edge \/ remove_edge_to_neighbor \/ next_node

Spec == Init /\ [][Next]_vars

-----------------------------------------------------------------------------
(* Correctness.                                                            *)

\* is_consistent, which the splits assert after every edge: both ends of an edge in a
\* graph know each other and each other's slot, and both have it.
is_consistent(g) ==
    \A v \in Vertices : \A i \in neighbor_bitmaps[g][v] :
        LET e == neighbors[v][i]
        IN  neighbors[e[1]][e[2]] = <<v, i>> /\ e[2] \in neighbor_bitmaps[g][e[1]]

\* Every graph stays consistent, and the walk of an Euler split never stands at a
\* vertex without an edge, where the bit scan of split_edge is undefined, unless it is
\* back where it began.
WalkSound ==
    /\ \A g \in 0 .. 2 : is_consistent(g)
    /\ (step \in {"split", "paths"} /\ may_peel) => has_neighbor(graph, cur_node)

\* paths_are_valid, which only tests call: no rack sends or receives more packets over
\* a path than its share.
paths_are_valid ==
    \A r \in Racks, side \in {1, 2}, p \in 0 .. NUM_PATHS - 1 :
        Cardinality({i \in 1 .. Len(traffic) : traffic[i][side] = r /\ path[i] = p})
          <= max_degree \div NUM_PATHS

\* When select_paths returns every packet has a path and the paths are valid.
PathsValid ==
    step = "done" => /\ \A i \in 1 .. Len(traffic) : path[i] # NOPATH
                     /\ paths_are_valid

\* Path selection is sound on its way and in its result.
PathsSound == WalkSound /\ PathsValid
=============================================================================
