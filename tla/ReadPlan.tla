------------------------------ MODULE ReadPlan ------------------------------
(***************************************************************************)
(* The read plan of a ModbusPollEngine (core/ModbusPollEngine.cpp,         *)
(* rebuildReadPlan and setClusterIndex): the points of a profile are       *)
(* sorted by area and address and merged into the block reads of a round.  *)
(* An area stands for a function code with the kind of its points (words   *)
(* or bits), numbered in the order of the sort.                            *)
(***************************************************************************)
EXTENDS Integers, Sequences

CONSTANTS
  Area,        \* the areas, numbered in sorting order
  MaxCount,    \* kMaxRegCount, kMaxBitCount: area -> longest block
  PointLists,  \* the lists of points engines are built with
  Cluster      \* the values setClusterIndex is called with

\* What of a ModbusPointDef the plan looks at; span is registerSpan of its type.
Point == [area : Area, address : Int, span : {1, 2}, stride : Int]

ASSUME PlanAssumption ==
  /\ Area \subseteq Nat
  /\ MaxCount \in [Area -> Nat \ {0, 1}]
  /\ PointLists \subseteq Seq(Point)
  /\ Cluster \subseteq Int

VARIABLES
  pc,
  points,    \* profile_.points with fieldAddressBases_
  cluster,   \* the cluster the addresses are those of
  sorted,    \* spans, once sorted
  next,      \* the next of them to be merged
  plan       \* readPlan_

planVars == <<pc, points, cluster, sorted, next, plan>>

Span    == [area : Area, start : Int, end : Int]
Request == [area : Area, start : Int, count : Nat]

TypeOK ==
  /\ pc \in {"sort", "merge", "ready"}
  /\ points \in PointLists
  /\ cluster \in Nat \ {0}
  /\ sorted \in Seq(Span)
  /\ next \in 1 .. Len(sorted) + 1
  /\ plan \in Seq(Request)

Init ==
  /\ pc = "sort"
  /\ points \in PointLists
  /\ cluster = 1
  /\ sorted = <<>> /\ next = 1
  /\ plan = <<>>

------------------------------------------------------------------------------

\* The words (bits) a point takes at the addresses of cluster k.
SpanOf(p, k) ==
  LET start == p.address + (k - 1) * p.stride
  IN  [area |-> p.area, start |-> start, end |-> start + p.span]

Before(s, t) == s.area < t.area \/ (s.area = t.area /\ s.start <= t.start)

\* The results std::sort may have: spans that compare equal come in any order.
Sortings ==
  LET spans == [i \in 1 .. Len(points) |-> SpanOf(points[i], cluster)]
      \* order[i] is the point that is put in place i
      orders == {o \in [1 .. Len(points) -> 1 .. Len(points)] :
                   \A i \in 1 .. Len(points) : \E j \in 1 .. Len(points) : o[j] = i}
  IN  {s \in {[i \in 1 .. Len(points) |-> spans[o[i]]] : o \in orders} :
         \A i \in 1 .. Len(points) - 1 : Before(s[i], s[i + 1])}

SortSpans ==
  /\ pc = "sort"
  /\ sorted' \in Sortings
  /\ next' = 1 /\ plan' = <<>>
  /\ pc' = "merge"
  /\ UNCHANGED <<points, cluster>>

End(r) == r.start + r.count
Larger(m, n) == IF m < n THEN n ELSE m
Smaller(m, n) == IF m < n THEN m ELSE n

\* May span s go into the request r before it?
JoinsGap(r, s) ==
  /\ r.area = s.area /\ s.start <= End(r) + 1 /\ s.end - r.start <= MaxCount[s.area]
JoinsOverlap(r, s) ==
  /\ r.area = s.area /\ s.start < End(r) /\ s.end - r.start <= MaxCount[s.area]
Joins(r, s) ==
  /\ r.area = s.area /\ s.start <= End(r) /\ s.end - r.start <= MaxCount[s.area]

\* A request grown by a span, and one of its own.
GrownToSpan(r, s) == [r EXCEPT !.count = s.end - r.start]
Grown(r, s) == [r EXCEPT !.count = Larger(End(r), s.end) - r.start]
Alone(s) ==
  [area |-> s.area, start |-> s.start, count |-> Smaller(s.end - s.start, MaxCount[s.area])]

MergeSpan ==
  /\ pc = "merge" /\ next <= Len(sorted)
  /\ LET s == sorted[next]
         l == Len(plan)
     IN  plan' = IF l > 0 /\ Joins(plan[l], s)
                   THEN [plan EXCEPT ![l] = Grown(plan[l], s)]
                   ELSE Append(plan, Alone(s))
  /\ next' = next + 1
  /\ UNCHANGED <<pc, points, cluster, sorted>>

PlanBuilt ==
  /\ pc = "merge" /\ next > Len(sorted)
  /\ pc' = "ready"
  /\ UNCHANGED <<points, cluster, sorted, next, plan>>

\* A value below 1 stands for the first cluster.
SetClusterIndex ==
  /\ pc = "ready"
  /\ \E k \in Cluster : cluster' = Larger(k, 1)
  /\ pc' = "sort"
  /\ UNCHANGED <<points, sorted, next, plan>>

Next == SortSpans \/ MergeSpan \/ PlanBuilt \/ SetClusterIndex

Spec == Init /\ [][Next]_planVars

------------------------------------------------------------------------------

\* Does request r take in the whole of span s?
Covers(r, s) == r.area = s.area /\ r.start <= s.start /\ s.end <= End(r)

\* Every point of the cluster in force is read whole by one request of the plan: no
\* point is left out where a block has become too long, and the two words of a 32-bit
\* value come from one answer of the device.
PlanCovers ==
  pc = "ready" =>
    \A i \in 1 .. Len(points) :
      \E j \in 1 .. Len(plan) : Covers(plan[j], SpanOf(points[i], cluster))

\* A request is not longer than the protocol allows and asks for nothing but addresses
\* of points: a device refuses the whole block for a single address it does not have.
PlanReadable ==
  pc = "ready" =>
    \A j \in 1 .. Len(plan) :
      /\ plan[j].count <= MaxCount[plan[j].area]
      /\ \A a \in plan[j].start .. End(plan[j]) - 1 :
           \E i \in 1 .. Len(points) :
             LET s == SpanOf(points[i], cluster)
             IN  s.area = plan[j].area /\ s.start <= a /\ a < s.end

\* Reference: the groupings of the points into at most n requests.  A grouping serves
\* if the points of a group fill one block that is not too long.
Groupings(n) == [1 .. Len(points) -> 1 .. n]
Block(g, k) == {i \in 1 .. Len(points) : g[i] = k}
Serves(g, n) ==
  \A k \in 1 .. n :
    LET spans == {SpanOf(points[i], cluster) : i \in Block(g, k)}
        words == UNION {s.start .. s.end - 1 : s \in spans}
    IN  \A s, t \in spans :
          /\ s.area = t.area
          /\ t.end - s.start <= MaxCount[s.area]
          /\ s.start .. t.end - 1 \subseteq words

\* No other plan of that kind has fewer requests ("生成最少的批量读请求"), whichever way
\* the sort has ordered equal points and wherever the merging had to break a block.
PlanMinimal ==
  pc = "ready" /\ Len(plan) > 0 =>
    \A g \in Groupings(Len(plan) - 1) : ~Serves(g, Len(plan) - 1)
=============================================================================
