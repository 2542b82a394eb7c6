-------------------------- MODULE FactorReduction ---------------------------
(***************************************************************************)
(* The reduction of the factors of pairs of traces to one conversion per   *)
(* trace (factor_reduction_accuracy.c): the shortest paths between traces, *)
(* where an edge is as long as its factors are inaccurate, the reference   *)
(* of every island of traces, and the conversions along the paths.         *)
(* Factors are not multiplied: a conversion is the sequence of the pairs   *)
(* <<row, column>> whose factors it is made of.                            *)
(***************************************************************************)
EXTENDS ConvexHull

None == -1  \* UINT_MAX

HasFactors(pair) == pair.type \in {"ACCURATE", "APPROXIMATE"}

Plus(d, e) == IF d = Infinity \/ e = Infinity THEN Infinity ELSE d + e

InitialDistance(pairs, i, j) ==
  IF i = j THEN 0
  ELSE IF HasFactors(pairs[i][j]) THEN pairs[i][j].accuracy
  ELSE IF HasFactors(pairs[j][i]) THEN pairs[j][i].accuracy ELSE Infinity

\* Mutant: the predecessor is the trace the path goes through.
PredecessorThrough(paths, k, i, j) ==
  IF Plus(paths.distances[i][k], paths.distances[k][j]) < paths.distances[i][j]
  THEN k ELSE paths.predecessors[i][j]

Predecessor(paths, k, i, j) ==
  IF Plus(paths.distances[i][k], paths.distances[k][j]) < paths.distances[i][j]
  THEN paths.predecessors[k][j] ELSE paths.predecessors[i][j]

\* The iterations over k.  The row and the column of k do not change in its
\* iteration, so the matrices are updated at once.
floydWarshall(pairs) ==
  LET Paths[k \in 0 .. TraceNb] ==
        IF k = 0
        THEN [distances |-> [i \in Traces |-> [j \in Traces |-> InitialDistance(pairs, i, j)]],
              predecessors |-> [i \in Traces |-> [j \in Traces |-> IF i = j THEN None ELSE i]]]
        ELSE LET p == Paths[k - 1] IN
             [distances |-> [i \in Traces |-> [j \in Traces |->
                Min({p.distances[i][j], Plus(p.distances[i][k - 1], p.distances[k - 1][j])})]],
              predecessors |-> [i \in Traces |-> [j \in Traces |->
                Predecessor(p, k - 1, i, j)]]]
  IN  Paths[TraceNb]

\* Infinite as soon as one trace cannot be reached.
DistanceSum(distances, i) ==
  IF \E j \in Traces : distances[i][j] = Infinity THEN Infinity
  ELSE FoldSet(LAMBDA j, sum : sum + distances[i][j], 0, Traces)

Reached(distances, i) == {j \in Traces : distances[i][j] # Infinity}

\* The first trace that has the lowest finite sum among those reached, i if no
\* sum is finite.
Center(distances, i) ==
  LET finite == {j \in Reached(distances, i) : DistanceSum(distances, j) # Infinity}
  IN  IF finite = {} THEN i
      ELSE Min({j \in finite : \A k \in finite :
                  DistanceSum(distances, j) <= DistanceSum(distances, k)})

\* Traces are gone through in order: the first one of an island that has no
\* reference yet decides for all those it reaches.
References(distances) ==
  LET After[n \in 0 .. TraceNb] ==
        IF n = 0 THEN [i \in Traces |-> None]
        ELSE LET before == After[n - 1]
                 center == Center(distances, n - 1)
             IN  IF before[n - 1] # None THEN before
                 ELSE [j \in Traces |-> IF j \in Reached(distances, n - 1) THEN center
                                         ELSE before[j]]
  IN  After[TraceNb]

-----------------------------------------------------------------------------
\* The program aborts: no factors between a trace and its reference.
NotReached == <<"abort">>

PairFactors(pairs, reference, i) ==
  IF HasFactors(pairs[reference][i]) THEN <<reference, i>>
  ELSE IF HasFactors(pairs[i][reference]) THEN <<i, reference>> ELSE NotReached

\* The conversion of a trace is that of its predecessor and then the factors
\* between it and the reference, not its predecessor.
getFactors(pairs, predecessors, references, i) ==
  LET Along[n \in 0 .. TraceNb, t \in Traces] ==
        IF references[t] = t THEN << >>
        ELSE LET before == Along[n - 1, predecessors[references[t]][t]]
                 pair == PairFactors(pairs, references[t], t)
             IN  IF before = NotReached \/ pair = NotReached THEN NotReached
                 ELSE Append(before, pair)
  IN  Along[TraceNb, i]

finalizeReduction(pairs) ==
  LET paths == floydWarshall(pairs)
      references == References(paths.distances)
  IN  [distances |-> paths.distances, predecessors |-> paths.predecessors,
       references |-> references,
       factors |-> [i \in Traces |-> getFactors(pairs, paths.predecessors, references, i)]]
=============================================================================
