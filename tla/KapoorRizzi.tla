---------------------------- MODULE KapoorRizzi ----------------------------
(***************************************************************************)
(* The Kapoor-Rizzi edge colouring.  kr_util.py plans, from the degree of  *)
(* a regular graph alone, a list of splits; kapoor_rizzi.c carries them    *)
(* out on the graph and an arbitrary matching.  A graph is abstracted to   *)
(* its degree: a split of a regular graph of even degree adds half of it   *)
(* to each of two places (the Euler split of module PathSelection).        *)
(***************************************************************************)
EXTENDS Naturals, Sequences, FiniteSets, SequencesExt, FiniteSetsExt

CONSTANT Degrees    \* even degrees to plan for

MAX_MATCHINGS == 48
MAX_STEPS == 128

VARIABLES d,          \* the degree
          kr_step,    \* where the plan is
          indices,    \* indices in use
          steps,      \* <<src, dst1, dst2>>
          bins,       \* [a, b, c] + T, later the work list; <<degree, index>> each
          matchings,  \* bins of degree 1
          degree_at,  \* solve: the degree of the graph at each index
          done_steps  \* solve: steps done

krvars == <<d, kr_step, indices, steps, bins, matchings, degree_at, done_steps>>

num_matchings == d + 1
Workspace == num_matchings .. 2 * num_matchings - 1
MatchingArea == 0 .. num_matchings - 1

free_index(area) == Min(area \ indices)
free_index_2(area) == Min(area \ (indices \cup {free_index(area)}))

set_kr_step(list, from_i, to1_i, to2_i) == Append(list, <<from_i, to1_i, to2_i>>)

-----------------------------------------------------------------------------
(* kr_util.py                                                              *)

\* The places of two halves of that degree: the matchings area if they are matchings.
places_even(half) ==
    LET area == IF half = 1 THEN MatchingArea ELSE Workspace
    IN  <<free_index(area), free_index_2(area)>>

split_even(g) ==
    LET to == places_even(g[1] \div 2)
    IN  /\ indices' = (indices \cup {to[1], to[2]}) \ {g[2]}
        /\ steps' = set_kr_step(steps, g[2], to[1], to[2])

\* The bins it yields.
halves_even(g) ==
    LET half == g[1] \div 2
    IN  <<<<half, places_even(half)[1]>>, <<half, places_even(half)[2]>>>>

\* The last step that puts something at one of the two indices.
last_into(i, j) ==
    Max({k \in 1 .. Len(steps) : {steps[k][2], steps[k][3]} \cap {i, j} # {}})

mut_merged(i, j) == [steps |-> steps, source |-> i]

\* Instead of adding a graph to another one, that step is changed to put its half there.
merged(i, j) ==
    LET k == last_into(i, j)
        s == steps[k]
        pos == IF s[2] \in {i, j} THEN 2 ELSE 3
        other == IF s[pos] = i THEN j ELSE i
    IN  [steps |-> [steps EXCEPT ![k][pos] = other], source |-> other]

split_odd(g1, g2) ==
    LET m == merged(g1[2], g2[2])
        i1 == free_index(Workspace)
        i2 == free_index_2(Workspace)
    IN  /\ indices' = (indices \cup {i1, i2}) \ {g1[2], g2[2]}
        /\ steps' = set_kr_step(m.steps, m.source, i1, i2)

halves_odd(g1, g2) ==
    LET half == (g1[1] + g2[1]) \div 2
    IN  <<<<half, free_index(Workspace)>>, <<half, free_index_2(Workspace)>>>>

approx_normalize ==
    /\ kr_step = "normalize"
    /\ split_even(<<d, num_matchings>>)
    /\ bins' = <<<<1, 0>>>> \o halves_even(<<d, num_matchings>>)
    /\ kr_step' = "almost"
    /\ UNCHANGED <<d, matchings, degree_at, done_steps>>

\* almost_solve: b is split while it is even, then (a, b, c) go through hit_even, until
\* a and b are alike.
almost_solve ==
    /\ kr_step = "almost"
    /\ LET a == bins[1] b == bins[2] c == bins[3] T == SubSeq(bins, 4, Len(bins)) IN
       IF a[1] = b[1]
       THEN kr_step' = "solve" /\ UNCHANGED <<indices, steps, bins>>
       ELSE IF b[1] % 2 = 0
       THEN /\ split_even(b) /\ bins' = <<a>> \o halves_even(b) \o <<c>> \o T
            /\ UNCHANGED kr_step
       ELSE kr_step' = "hit" /\ UNCHANGED <<indices, steps, bins>>
    /\ UNCHANGED <<d, matchings, degree_at, done_steps>>

hit_even ==
    /\ kr_step = "hit"
    /\ LET a == bins[1] b == bins[2] c == bins[3] T == SubSeq(bins, 4, Len(bins)) IN
       IF b[1] % 2 = 0
       THEN kr_step' = "almost" /\ UNCHANGED <<indices, steps, bins>>
       ELSE /\ IF a[1] >= b[1] THEN split_odd(a, b) ELSE split_odd(b, a)
            /\ bins' = <<c>> \o halves_odd(a, b) \o T
            /\ UNCHANGED kr_step
    /\ UNCHANGED <<d, matchings, degree_at, done_steps>>

\* The work list's first graph is split until it is a matching; a graph of odd degree
\* takes the last matching with it.
solve_plan ==
    /\ kr_step = "solve" /\ bins # <<>>
    /\ LET g == Head(bins) IN
       \/ /\ g[1] = 1
          /\ matchings' = Append(matchings, g) /\ bins' = Tail(bins)
          /\ UNCHANGED <<indices, steps>>
       \/ /\ g[1] # 1 /\ g[1] % 2 = 1
          /\ split_odd(g, Last(matchings))
          /\ bins' = halves_odd(g, Last(matchings)) \o Tail(bins)
          /\ matchings' = Front(matchings)
       \/ /\ g[1] # 1 /\ g[1] % 2 = 0
          /\ split_even(g) /\ bins' = halves_even(g) \o Tail(bins)
          /\ UNCHANGED matchings
    /\ UNCHANGED <<d, kr_step, degree_at, done_steps>>

-----------------------------------------------------------------------------
(* kapoor_rizzi.c                                                          *)

\* solve puts the arbitrary matching and the graph at their indices.
solve_begin ==
    /\ kr_step = "solve" /\ bins = <<>>
    /\ kr_step' = "split"
    /\ degree_at' = [i \in 0 .. 2 * num_matchings - 1 |->
                       IF i = 0 THEN 1 ELSE IF i = num_matchings THEN d ELSE 0]
    /\ UNCHANGED <<d, indices, steps, bins, matchings, done_steps>>

\* One split: what it yields is added to what is there.
solve_split ==
    /\ kr_step = "split" /\ done_steps < Len(steps)
    /\ LET s == steps[done_steps + 1]
           half == degree_at[s[1]] \div 2
       IN  degree_at' = [i \in DOMAIN degree_at |->
                           (IF i = s[1] THEN 0 ELSE degree_at[i])
                             + (IF i \in {s[2], s[3]} THEN half ELSE 0)]
    /\ done_steps' = done_steps + 1
    /\ UNCHANGED <<d, kr_step, indices, steps, bins, matchings>>

KrInit ==
    /\ d \in Degrees
    /\ kr_step = "normalize" /\ steps = <<>> /\ bins = <<>> /\ matchings = <<>>
    /\ indices = {0, num_matchings}
    /\ degree_at = <<>> /\ done_steps = 0

KrNext ==
    \/ approx_normalize \/ almost_solve \/ hit_even \/ solve_plan
    \/ solve_begin \/ solve_split

KrDone == kr_step = "split" /\ done_steps = Len(steps)

-----------------------------------------------------------------------------
(* Correctness.                                                            *)

\* Carrying out the planned splits leaves d + 1 matchings at the first d + 1 indices
\* and nothing elsewhere: no step reads an index before all of its parts are there or
\* after another step reused it, although split_odd changes earlier steps.  The plan
\* fits the solver's arrays.
KrSolves ==
    /\ KrDone => \A i \in DOMAIN degree_at : degree_at[i] = (IF i <= d THEN 1 ELSE 0)
    /\ (kr_step = "split" /\ ~KrDone) => degree_at[steps[done_steps + 1][1]] % 2 = 0
    /\ Len(steps) <= MAX_STEPS
    /\ \A k \in 1 .. Len(steps), i \in 1 .. 3 : steps[k][i] < MAX_MATCHINGS

=============================================================================
