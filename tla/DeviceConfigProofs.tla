------------------------- MODULE DeviceConfigProofs -------------------------
(***************************************************************************)
(* Theorems about how a device's entry becomes an engine: module           *)
(* DeviceConfig and, for any lists of points, module ReadPlan.  They hold  *)
(* for all entries, points, block lengths and clusters.                    *)
(***************************************************************************)
EXTENDS DeviceConfig, FiniteSetTheorems, WellFoundedInduction, TLAPS

------------------------------------------------------------------------------
(* First indices.                                                            *)

\* A set of naturals that is not empty has a least element.
LEMMA LeastNatural ==
  ASSUME NEW T \in SUBSET Nat, T # {}
  PROVE  /\ Min(T) \in T
         /\ \A m \in T : Min(T) <= m
<1>1. PICK n \in T : \A m \in T : ~(<<m, n>> \in OpToRel(<, Nat))
  BY NatLessThanWellFounded, WFMin
<1>2. \A m \in T : ~(m < n)
  BY <1>1 DEF OpToRel
<1>3. \A m \in T : n <= m
  BY <1>2
<1>. QED
  BY <1>3 DEF Min

------------------------------------------------------------------------------
(* The plan: the invariant.                                                  *)

\* What of a point the plan looks at.
Shape(p) == [area |-> p.area, address |-> p.address, span |-> p.span, stride |-> p.stride]
PointsShaped ==
  /\ Len(points) \in Nat
  /\ \A i \in 1 .. Len(points) : Shape(points[i]) \in Point

PlanTyped ==
  /\ pc \in {"sort", "merge", "ready"}
  /\ cluster \in Nat \ {0}
  /\ sorted \in Seq(Span)
  /\ next \in 1 .. Len(sorted) + 1
  /\ plan \in Seq(Request)

\* The spans of the cluster in force, in order.
SpansSorted ==
  /\ Len(sorted) = Len(points)
  /\ \A i \in 1 .. Len(points) :
       \E k \in 1 .. Len(sorted) : sorted[k] = SpanOf(points[i], cluster)
  /\ \A k \in 1 .. Len(sorted) :
       \E i \in 1 .. Len(points) : sorted[k] = SpanOf(points[i], cluster)
  /\ \A i, k \in 1 .. Len(sorted) : i <= k => Before(sorted[i], sorted[k])

\* What has been merged so far is covered.
SpansCovered ==
  \A k \in 1 .. next - 1 : \E j \in 1 .. Len(plan) : Covers(plan[j], sorted[k])

\* The last request starts no later than the span merged last, in its area.
LastRequest ==
  Len(plan) > 0 =>
    /\ next > 1
    /\ plan[Len(plan)].area = sorted[next - 1].area
    /\ plan[Len(plan)].start <= sorted[next - 1].start

\* A request is short enough and consists of words of the first n - 1 spans.
Readable(r, spans, n) ==
  /\ r.count <= MaxCount[r.area]
  /\ \A a \in r.start .. End(r) - 1 :
       \E k \in 1 .. n - 1 :
         spans[k].area = r.area /\ spans[k].start <= a /\ a < spans[k].end
RequestsReadable == \A j \in 1 .. Len(plan) : Readable(plan[j], sorted, next)

\* No span merged so far in the area of request r ends beyond it.
NoneBeyond(r, n) == \A i \in 1 .. n - 1 : sorted[i].area = r.area => sorted[i].end <= End(r)

\* Request j begins with a span k that could not join the request before it, which had
\* taken in what there was before k in its area.
Begins(j, k) ==
  /\ sorted[k].area = plan[j].area /\ sorted[k].start = plan[j].start
  /\ j > 1 => ~Joins(plan[j - 1], sorted[k]) /\ NoneBeyond(plan[j - 1], k)
RequestsBroken ==
  /\ \A j \in 1 .. Len(plan) : \E k \in 1 .. next - 1 : Begins(j, k)
  /\ \A i, j \in 1 .. Len(plan) : i <= j => Before(plan[i], plan[j])
  /\ Len(plan) > 0 => NoneBeyond(plan[Len(plan)], next)

PlanInv ==
  /\ PlanTyped /\ PointsShaped
  /\ pc \in {"merge", "ready"} =>
       SpansSorted /\ SpansCovered /\ LastRequest /\ RequestsReadable /\ RequestsBroken
  /\ pc = "ready" => next = Len(sorted) + 1

------------------------------------------------------------------------------

\* A span is one or two words (bits) long and lies at an address (registerSpan).
LEMMA SpanShort ==
  ASSUME NEW p, Shape(p) \in Point, NEW k \in Nat \ {0}
  PROVE  /\ SpanOf(p, k) \in Span
         /\ SpanOf(p, k).area = p.area
         /\ SpanOf(p, k).end - SpanOf(p, k).start \in {1, 2}
<1>1. (k - 1) * p.stride \in Int
  <2>1. k - 1 \in Int /\ p.stride \in Int
    BY DEF Point, Shape
  <2>2. \A x, y \in Int : x * y \in Int
    BY SMT
  <2>. QED
    BY <2>1, <2>2
<1>2. p.address \in Int /\ p.span \in {1, 2} /\ p.area \in Area
  BY DEF Point, Shape
<1>3. DEFINE start == p.address + (k - 1) * p.stride
<1>4. start \in Int
  BY <1>1, <1>2
<1>5. SpanOf(p, k) = [area |-> p.area, start |-> start, end |-> start + p.span]
  BY DEF SpanOf
<1> HIDE DEF start
<1> QED
  BY <1>2, <1>4, <1>5 DEF Span

\* The order of the sort is transitive.
LEMMA BeforeTransitive ==
  ASSUME NEW r, NEW s, NEW t, r.area \in Nat, s.area \in Nat, t.area \in Nat,
         r.start \in Int, s.start \in Int, t.start \in Int, Before(r, s), Before(s, t)
  PROVE  Before(r, t)
BY DEF Before

\* Neighbours in order make a sequence in order.
LEMMA SortedChain ==
  ASSUME NEW s \in Seq(Span), \A k \in 1 .. Len(s) - 1 : Before(s[k], s[k + 1])
  PROVE  \A i, k \in 1 .. Len(s) : i <= k => Before(s[i], s[k])
<1>. SUFFICES ASSUME NEW i \in 1 .. Len(s) PROVE \A k \in 1 .. Len(s) : i <= k => Before(s[i], s[k])
  OBVIOUS
<1>. DEFINE T == {k \in 1 .. Len(s) : i <= k /\ ~Before(s[i], s[k])}
<1>1. \A k \in 1 .. Len(s) : s[k].area \in Nat /\ s[k].start \in Int
  <2>1. ASSUME NEW k \in 1 .. Len(s) PROVE s[k].area \in Nat /\ s[k].start \in Int
    <3>1. s[k] \in Span
      OBVIOUS
    <3>. QED
      BY <3>1, PlanAssumption DEF PlanAssumption, Span
  <2>. QED
    BY <2>1
<1>2. ASSUME T # {} PROVE FALSE
  <2>. DEFINE k == Min(T)
  <2>1. T \in SUBSET Nat
    OBVIOUS
  <2>2. k \in T /\ \A m \in T : k <= m
    BY <1>2, <2>1, LeastNatural
  <2>. HIDE DEF k
  <2>3. k # i
    BY <1>1, <2>2 DEF Before
  <2>4. k - 1 \in 1 .. Len(s) - 1 /\ k - 1 \in 1 .. Len(s) /\ i <= k - 1 /\ (k - 1) + 1 = k
    BY <2>2, <2>3
  <2>5. k - 1 \notin T
    BY <2>2, <2>4
  <2>6. Before(s[i], s[k - 1])
    BY <2>4, <2>5
  <2>7. Before(s[k - 1], s[(k - 1) + 1])
    BY <2>4
  <2>8. k \in 1 .. Len(s) /\ ~Before(s[i], s[k])
    BY <2>2
  <2>10. Before(s[k - 1], s[k])
    BY <2>4, <2>7
  <2>. QED
    BY <1>1, <2>4, <2>6, <2>8, <2>10, BeforeTransitive
<1>. QED
  BY <1>2

\* What the sort of the spans may result in (std::sort with byFcThenAddr).
LEMMA SortingsSorted ==
  ASSUME PlanInv, NEW s \in Sortings
  PROVE  /\ s \in Seq(Span)
         /\ Len(s) = Len(points)
         /\ \A i \in 1 .. Len(points) :
              \E k \in 1 .. Len(points) : s[k] = SpanOf(points[i], cluster)
         /\ \A k \in 1 .. Len(points) :
              \E i \in 1 .. Len(points) : s[k] = SpanOf(points[i], cluster)
         /\ \A i, k \in 1 .. Len(points) : i <= k => Before(s[i], s[k])
<1>1. /\ Len(points) \in Nat /\ cluster \in Nat \ {0}
      /\ \A i \in 1 .. Len(points) : Shape(points[i]) \in Point
  BY DEF PlanInv, PlanTyped, PointsShaped
<1>2. PICK o \in [1 .. Len(points) -> 1 .. Len(points)] :
        /\ \A i \in 1 .. Len(points) : \E j \in 1 .. Len(points) : o[j] = i
        /\ s = [i \in 1 .. Len(points) |-> SpanOf(points[o[i]], cluster)]
  BY DEF Sortings
<1>3. \A i \in 1 .. Len(points) : SpanOf(points[i], cluster) \in Span
  BY <1>1, SpanShort
<1>4. Len(points) \in Nat
  BY <1>1
<1>5. s \in Seq(Span) /\ Len(s) = Len(points)
  <2>1. \A i \in 1 .. Len(points) : SpanOf(points[o[i]], cluster) \in Span
    BY <1>2, <1>3
  <2>2. s \in [1 .. Len(points) -> Span]
    BY <1>2, <2>1
  <2> QED
    BY <1>4, <2>2
<1>6. \A i, k \in 1 .. Len(points) : i <= k => Before(s[i], s[k])
  <2>1. \A k \in 1 .. Len(points) - 1 : Before(s[k], s[k + 1])
    BY DEF Sortings
  <2>. QED
    BY <1>5, <2>1, SortedChain
<1>7. \A i \in 1 .. Len(points) :
        \E k \in 1 .. Len(points) : s[k] = SpanOf(points[i], cluster)
  BY <1>2
<1>8. \A k \in 1 .. Len(points) :
        \E i \in 1 .. Len(points) : s[k] = SpanOf(points[i], cluster)
  BY <1>2
<1> QED
  BY <1>5, <1>6, <1>7, <1>8

\* A span that joins a request is covered by it, and the request stays as short as it has
\* to be and takes in no word that is not the span's.
LEMMA GrownCovers ==
  ASSUME NEW r \in Request, NEW s \in Span, Joins(r, s), r.start <= s.start
  PROVE  /\ Grown(r, s) \in Request
         /\ Grown(r, s).area = r.area /\ Grown(r, s).start = r.start
         /\ Covers(Grown(r, s), s)
         /\ End(r) <= End(Grown(r, s))
         /\ r.count <= MaxCount[r.area] => Grown(r, s).count <= MaxCount[r.area]
         /\ \A a \in r.start .. End(Grown(r, s)) - 1 : a < End(r) \/ (s.start <= a /\ a < s.end)
<1>1. /\ r.area \in Area /\ r.start \in Int /\ r.count \in Nat /\ End(r) \in Int
      /\ s.start \in Int /\ s.end \in Int /\ s.area = r.area
      /\ s.start <= End(r) /\ s.end - r.start <= MaxCount[r.area]
      /\ MaxCount[r.area] \in Nat
  <2>1. r.area \in Area /\ r.start \in Int /\ r.count \in Nat
    BY DEF Request
  <2>2. s.start \in Int /\ s.end \in Int
    BY DEF Span
  <2>3. MaxCount[r.area] \in Nat
    BY <2>1, PlanAssumption DEF PlanAssumption
  <2>. QED
    BY <2>1, <2>2, <2>3 DEF Joins, End
<1>. DEFINE e == Larger(End(r), s.end)
<1>2. e \in {End(r), s.end} /\ e \in Int /\ End(r) <= e /\ s.end <= e
  BY <1>1 DEF Larger
<1>. HIDE DEF e
<1>4. End(r) = r.start + r.count /\ e - r.start \in Nat /\ r.start + (e - r.start) = e
  BY <1>1, <1>2 DEF End
<1>3. /\ Grown(r, s) \in Request
      /\ Grown(r, s).area = r.area /\ Grown(r, s).start = r.start
      /\ Grown(r, s).count = e - r.start
  BY <1>1, <1>4 DEF Grown, Request, e
<1>5. End(Grown(r, s)) = e
  BY <1>1, <1>3, <1>4 DEF End
<1>6. Covers(Grown(r, s), s)
  BY <1>1, <1>2, <1>3, <1>5 DEF Covers
<1>7. r.count <= MaxCount[r.area] => Grown(r, s).count <= MaxCount[r.area]
  BY <1>1, <1>2, <1>3, <1>4
<1>8. \A a \in r.start .. e - 1 : a < End(r) \/ (s.start <= a /\ a < s.end)
  BY <1>1, <1>2
<1>. QED
  BY <1>1, <1>2, <1>3, <1>5, <1>6, <1>7, <1>8

\* A span that a request of its area cannot take in ends beyond it.
LEMMA NotJoined ==
  ASSUME NEW r \in Request, NEW s \in Span, s.end - s.start \in {1, 2},
         r.area = s.area, ~Joins(r, s), r.count <= MaxCount[r.area]
  PROVE  End(r) < s.end
<1>1. r.start \in Int /\ r.count \in Nat /\ s.start \in Int /\ s.end \in Int
  BY DEF Request, Span
<1>2. MaxCount[s.area] \in Nat
  BY PlanAssumption DEF PlanAssumption, Span
<1>. QED
  BY <1>1, <1>2 DEF Joins, End

\* A span with a request of its own is covered by it.
LEMMA AloneCovers ==
  ASSUME NEW s \in Span, s.end - s.start \in {1, 2}
  PROVE  /\ Alone(s) \in Request
         /\ Alone(s).area = s.area /\ Alone(s).start = s.start
         /\ Covers(Alone(s), s)
         /\ End(Alone(s)) = s.end
         /\ Alone(s).count <= MaxCount[s.area]
<1>1. s.area \in Area /\ s.start \in Int /\ s.end \in Int
  BY DEF Span
<1>2. MaxCount[s.area] \in Nat /\ MaxCount[s.area] >= 2
  BY <1>1, PlanAssumption DEF PlanAssumption
<1>3. Smaller(s.end - s.start, MaxCount[s.area]) = s.end - s.start
  BY <1>1, <1>2 DEF Smaller
<1>4. Alone(s) = [area |-> s.area, start |-> s.start, count |-> s.end - s.start]
  BY <1>3 DEF Alone
<1>5. s.end - s.start \in Nat /\ s.end - s.start <= 2
  OBVIOUS
<1> QED
  BY <1>1, <1>2, <1>4, <1>5 DEF Request, Covers, End

------------------------------------------------------------------------------

\* An engine begins without a plan.
LEMMA PlanInit == Init => PlanInv
<1> SUFFICES ASSUME Init PROVE PlanInv
  OBVIOUS
<1>1. PlanTyped
  BY DEF Init, PlanTyped
<1>2. points \in Seq(Point)
  BY PlanAssumption DEF Init, PlanAssumption
<1>3. PointsShaped
  <2>1. Len(points) \in Nat /\ \A i \in 1 .. Len(points) : points[i] \in Point
    BY <1>2
  <2>2. \A p \in Point : Shape(p) \in Point
    BY DEF Shape, Point
  <2>. QED
    BY <2>1, <2>2 DEF PointsShaped
<1>. QED
  BY <1>1, <1>3 DEF Init, PlanInv

\* The sort starts a plan anew.
LEMMA SortKeeps == PlanInv /\ SortSpans => PlanInv'
<1> SUFFICES ASSUME PlanInv, SortSpans PROVE PlanInv'
  OBVIOUS
<1> USE DEF SortSpans
<1>1. PICK s \in Sortings : sorted' = s
  OBVIOUS
<1>2. /\ sorted' \in Seq(Span)
      /\ Len(sorted') = Len(points)
      /\ \A i \in 1 .. Len(points) :
           \E k \in 1 .. Len(points) : sorted'[k] = SpanOf(points[i], cluster)
      /\ \A k \in 1 .. Len(points) :
           \E i \in 1 .. Len(points) : sorted'[k] = SpanOf(points[i], cluster)
      /\ \A i, k \in 1 .. Len(points) : i <= k => Before(sorted'[i], sorted'[k])
  BY <1>1, SortingsSorted
<1>3. Len(sorted') \in Nat /\ 1 \in 1 .. Len(sorted') + 1
  BY <1>2
<1>4. PlanTyped' /\ PointsShaped'
  BY <1>2, <1>3 DEF PlanInv, PlanTyped, PointsShaped
<1>5. SpansSorted'
  BY <1>2 DEF SpansSorted
<1>6. SpansCovered' /\ LastRequest' /\ RequestsReadable' /\ RequestsBroken'
  BY DEF SpansCovered, LastRequest, RequestsReadable, RequestsBroken
<1> QED
  BY <1>4, <1>5, <1>6 DEF PlanInv

\* A span is merged into the last request or becomes one of its own.
LEMMA MergeKeeps == PlanInv /\ MergeSpan => PlanInv'
<1> SUFFICES ASSUME PlanInv, MergeSpan PROVE PlanInv'
  OBVIOUS
<1> USE DEF MergeSpan
<1> DEFINE s == sorted[next]
           l == Len(plan)
           r == plan[l]
<1>1. /\ sorted \in Seq(Span) /\ plan \in Seq(Request) /\ next \in 1 .. Len(sorted)
      /\ cluster \in Nat \ {0} /\ PointsShaped
  BY DEF PlanInv, PlanTyped
<1>2. SpansSorted /\ SpansCovered /\ LastRequest /\ RequestsReadable /\ RequestsBroken
  BY DEF PlanInv
<1>3. s \in Span /\ s.end - s.start \in {1, 2}
  <2>1. PICK i \in 1 .. Len(points) : s = SpanOf(points[i], cluster)
    BY <1>1, <1>2 DEF SpansSorted
  <2>. QED
    BY <1>1, <2>1, SpanShort DEF PointsShaped
<1>4. SpansSorted'
  BY <1>2 DEF SpansSorted
<1>5. CASE l > 0 /\ Joins(r, s)
  <2> DEFINE g == Grown(r, s)
  <2>1. plan' = [plan EXCEPT ![l] = g]
    BY <1>5
  <2>2. r \in Request /\ l \in 1 .. Len(plan)
    BY <1>1, <1>5
  <2>3. r.start <= s.start
    <3>1. next - 1 \in 1 .. Len(sorted) /\ next - 1 <= next
      BY <1>1, <1>2, <1>5 DEF LastRequest
    <3>2. Before(sorted[next - 1], s)
      BY <1>1, <1>2, <3>1 DEF SpansSorted
    <3>4. sorted[next - 1] \in Span /\ s \in Span
      BY <1>1, <3>1
    <3>5. s.area \in Nat /\ sorted[next - 1].area = s.area
      BY <1>2, <1>5, <3>4, PlanAssumption DEF LastRequest, Joins, Span, PlanAssumption
    <3>6. sorted[next - 1].start <= s.start
      BY <3>2, <3>5 DEF Before
    <3> HIDE DEF s, r, l
    <3> QED
      BY <1>2, <1>5, <2>2, <3>4, <3>6 DEF LastRequest, Request, Span, r, l
  <2>4. /\ g \in Request /\ g.area = r.area /\ g.start = r.start
        /\ Covers(g, s) /\ End(r) <= End(g)
        /\ r.count <= MaxCount[r.area] => g.count <= MaxCount[r.area]
        /\ \A a \in r.start .. End(g) - 1 : a < End(r) \/ (s.start <= a /\ a < s.end)
    BY <1>3, <1>5, <2>2, <2>3, GrownCovers
  <2> HIDE DEF s, r, l, g
  <2>5. plan' \in Seq(Request) /\ Len(plan') = Len(plan)
    BY <1>1, <2>1, <2>4
  <2>6. plan'[l] = g /\ \A j \in 1 .. Len(plan) : j # l => plan'[j] = plan[j]
    BY <1>1, <2>1, <2>2
  <2>7. PlanTyped' /\ PointsShaped'
    BY <1>1, <2>5 DEF PlanInv, PlanTyped, PointsShaped
  <2>8. SpansCovered'
    <3> SUFFICES ASSUME NEW k \in 1 .. next
                 PROVE  \E j \in 1 .. Len(plan') : Covers(plan'[j], sorted[k])
      BY <1>1 DEF SpansCovered
    <3>1. CASE k = next
      BY <2>2, <2>4, <2>5, <2>6, <3>1 DEF s
    <3>2. CASE k # next
      <4>1. k \in 1 .. next - 1
        BY <1>1, <3>2
      <4>2. PICK j \in 1 .. Len(plan) : Covers(plan[j], sorted[k])
        BY <1>2, <4>1 DEF SpansCovered
      <4>3. CASE j = l
        <5>1. Covers(g, sorted[k])
          <6>1. sorted[k] \in Span
            BY <1>1, <4>1
          <6>2. Covers(r, sorted[k])
            BY <4>2, <4>3 DEF r
          <6>3. sorted[k].end \in Int
            BY <6>1 DEF Span
          <6>4. End(r) \in Int /\ End(g) \in Int
            BY <2>2, <2>4 DEF Request, End
          <6>5. g.area = r.area /\ g.start = r.start /\ End(r) <= End(g)
            BY <2>4
          <6> QED
            BY <6>2, <6>3, <6>4, <6>5 DEF Covers
        <5> QED
          BY <2>5, <2>6, <4>3, <5>1
      <4>4. CASE j # l
        BY <2>5, <2>6, <4>2, <4>4
      <4> QED
        BY <4>3, <4>4
    <3> QED
      BY <3>1, <3>2
  <2>9. LastRequest'
    BY <1>1, <1>5, <2>3, <2>4, <2>5, <2>6 DEF LastRequest, Joins, s, l
  <2>10. RequestsReadable'
    <3> SUFFICES ASSUME NEW j \in 1 .. Len(plan') PROVE Readable(plan'[j], sorted, next + 1)
      BY DEF RequestsReadable
    <3>1. CASE j = l
      <4>1. Readable(r, sorted, next)
        BY <1>2, <2>2 DEF RequestsReadable, r
      <4>2. g.count <= MaxCount[g.area]
        BY <2>4, <4>1 DEF Readable
      <4>3. ASSUME NEW a \in g.start .. End(g) - 1
            PROVE  \E k \in 1 .. next :
                     sorted[k].area = g.area /\ sorted[k].start <= a /\ a < sorted[k].end
        <5>1. CASE s.start <= a /\ a < s.end
          BY <1>1, <1>5, <2>4, <5>1 DEF s, Joins
        <5>2. CASE a < End(r)
          <6>1. a \in r.start .. End(r) - 1
            BY <2>2, <2>4, <5>2 DEF Request, End
          <6> QED
            BY <1>1, <2>4, <4>1, <6>1 DEF Readable
        <5> QED
          BY <2>4, <4>3, <5>1, <5>2
      <4> QED
        BY <1>1, <2>6, <3>1, <4>2, <4>3 DEF Readable, End
    <3>2. CASE j # l
      <4>1. Readable(plan[j], sorted, next) /\ plan'[j] = plan[j]
        BY <1>2, <2>5, <2>6, <3>2 DEF RequestsReadable
      <4> QED
        BY <1>1, <4>1 DEF Readable, End
    <3> QED
      BY <3>1, <3>2
  <2>11. RequestsBroken'
    <3>1. \A j \in 1 .. Len(plan) : plan'[j].area = plan[j].area /\ plan'[j].start = plan[j].start
      BY <2>2, <2>4, <2>6 DEF r
    <3>2. ASSUME NEW j \in 1 .. Len(plan') PROVE \E k \in 1 .. next' - 1 : Begins(j, k)'
      <4>1. PICK k \in 1 .. next - 1 : Begins(j, k)
        BY <1>2, <2>5 DEF RequestsBroken
      <4>2. j > 1 => j - 1 \in 1 .. Len(plan) /\ j - 1 # l
        BY <2>5 DEF l
      <4>3. j > 1 => plan'[j - 1] = plan[j - 1]
        BY <2>6, <4>2
      <4>4. Begins(j, k)'
        BY <2>5, <3>1, <4>1, <4>3 DEF Begins, NoneBeyond
      <4>. QED
        BY <1>1, <4>4
    <3>3. \A i, j \in 1 .. Len(plan') : i <= j => Before(plan'[i], plan'[j])
      BY <1>2, <2>5, <3>1 DEF RequestsBroken, Before
    <3>4. NoneBeyond(plan[Len(plan)], next)'
      <4>. SUFFICES ASSUME NEW i \in 1 .. next, sorted[i].area = g.area
                    PROVE  sorted[i].end <= End(g)
        BY <1>1, <2>5, <2>6 DEF NoneBeyond, l
      <4>1. CASE i = next
        BY <2>4, <4>1 DEF Covers, s
      <4>2. CASE i # next
        <5>1. i \in 1 .. next - 1 /\ sorted[i] \in Span
          BY <1>1, <4>2
        <5>2. sorted[i].end <= End(r)
          BY <1>2, <2>2, <2>4, <5>1 DEF RequestsBroken, NoneBeyond, r, l
        <5>3. sorted[i].end \in Int /\ End(r) \in Int /\ End(g) \in Int
          BY <2>2, <2>4, <5>1 DEF Span, Request, End
        <5>. QED
          BY <2>4, <5>2, <5>3
      <4>. QED
        BY <4>1, <4>2
    <3>. QED
      BY <3>2, <3>3, <3>4 DEF RequestsBroken
  <2>. QED
    BY <1>4, <2>7, <2>8, <2>9, <2>10, <2>11 DEF PlanInv
<1>6. CASE ~(l > 0 /\ Joins(r, s))
  <2> DEFINE g == Alone(s)
  <2>1. plan' = Append(plan, g)
    BY <1>6
  <2>2. /\ g \in Request /\ g.area = s.area /\ g.start = s.start
        /\ Covers(g, s) /\ End(g) = s.end /\ g.count <= MaxCount[s.area]
    BY <1>3, AloneCovers
  <2> HIDE DEF s, r, g
  <2>3. plan' \in Seq(Request) /\ Len(plan') = l + 1 /\ l \in Nat
    BY <1>1, <2>1, <2>2
  <2>4. plan'[l + 1] = g /\ \A j \in 1 .. l : plan'[j] = plan[j]
    BY <1>1, <2>1
  <2> HIDE DEF l
  <2>5. PlanTyped' /\ PointsShaped'
    BY <1>1, <2>3 DEF PlanInv, PlanTyped, PointsShaped
  <2>6. SpansCovered'
    <3> SUFFICES ASSUME NEW k \in 1 .. next
                 PROVE  \E j \in 1 .. Len(plan') : Covers(plan'[j], sorted[k])
      BY <1>1 DEF SpansCovered
    <3>1. CASE k = next
      BY <2>2, <2>3, <2>4, <3>1 DEF s
    <3>2. CASE k # next
      <4>1. k \in 1 .. next - 1
        BY <1>1, <3>2
      <4>2. PICK j \in 1 .. l : Covers(plan[j], sorted[k])
        BY <1>2, <4>1 DEF SpansCovered, l
      <4> QED
        BY <2>3, <2>4, <4>2
    <3> QED
      BY <3>1, <3>2
  <2>7. LastRequest'
    BY <1>1, <1>3, <2>2, <2>3, <2>4 DEF LastRequest, s, Span
  <2>8. RequestsReadable'
    <3> SUFFICES ASSUME NEW j \in 1 .. Len(plan') PROVE Readable(plan'[j], sorted, next + 1)
      BY DEF RequestsReadable
    <3>1. CASE j = l + 1
      <4>1. \A a \in g.start .. End(g) - 1 :
              sorted[next].area = g.area /\ sorted[next].start <= a /\ a < sorted[next].end
        BY <1>3, <2>2 DEF s, Span
      <4> QED
        BY <1>1, <2>2, <2>4, <3>1, <4>1 DEF Readable, End
    <3>2. CASE j # l + 1
      <4>1. j \in 1 .. l
        BY <2>3, <3>2
      <4>2. Readable(plan[j], sorted, next) /\ plan'[j] = plan[j]
        BY <1>2, <2>4, <4>1 DEF RequestsReadable, l
      <4> QED
        BY <1>1, <4>2 DEF Readable, End
    <3> QED
      BY <3>1, <3>2
  <2>9. RequestsBroken'
    <3>1. ASSUME l > 0
          PROVE  /\ ~Joins(plan[l], s) /\ plan[l] \in Request
                 /\ NoneBeyond(plan[l], next)
                 /\ plan[l].count <= MaxCount[plan[l].area]
      BY <1>1, <1>2, <1>6, <2>3, <3>1 DEF RequestsBroken, RequestsReadable, Readable, l, r
    <3>2. l = 0 => next = 1
      BY <1>1, <1>2, <2>3 DEF SpansCovered, l
    <3>3. ASSUME NEW j, j = l + 1, NEW k, k = next PROVE Begins(j, k)'
      <4>1. j > 1 => j - 1 = l /\ l > 0 /\ plan'[j - 1] = plan[l]
        BY <2>3, <2>4, <3>3
      <4>2. sorted[k] = s /\ plan'[j] = g
        BY <2>4, <3>3 DEF s
      <4>3. j > 1 => ~Joins(plan'[j - 1], sorted[k])
        BY <3>1, <4>1, <4>2
      <4>4. j > 1 => \A i \in 1 .. k - 1 : sorted[i].area = plan'[j - 1].area =>
                       sorted[i].end <= End(plan'[j - 1])
        BY <3>1, <3>3, <4>1 DEF NoneBeyond
      <4>. QED
        BY <2>2, <4>2, <4>3, <4>4 DEF Begins, NoneBeyond
    <3>4. ASSUME NEW j \in 1 .. Len(plan') PROVE \E k \in 1 .. next' - 1 : Begins(j, k)'
      <4>1. CASE j = l + 1
        <5>1. next \in 1 .. next' - 1
          BY <1>1
        <5>. QED
          BY <3>3, <4>1, <5>1
      <4>2. CASE j # l + 1
        <5>1. j \in 1 .. l /\ (j > 1 => j - 1 \in 1 .. l)
          BY <2>3, <4>2
        <5>2. PICK k \in 1 .. next - 1 : Begins(j, k)
          BY <1>2, <5>1 DEF RequestsBroken, l
        <5>3. Begins(j, k)'
          BY <2>4, <5>1, <5>2 DEF Begins, NoneBeyond
        <5>. QED
          BY <1>1, <5>3
      <4>. QED
        BY <4>1, <4>2
    <3>5. \A i, j \in 1 .. Len(plan') : i <= j => Before(plan'[i], plan'[j])
      <4>. SUFFICES ASSUME NEW i \in 1 .. l + 1, NEW j \in 1 .. l + 1, i <= j
                    PROVE  Before(plan'[i], plan'[j])
        BY <2>3
      <4>1. CASE j # l + 1
        <5>1. i \in 1 .. l /\ j \in 1 .. l
          BY <2>3, <4>1
        <5>. QED
          BY <1>2, <2>4, <5>1 DEF RequestsBroken, l
      <4>2. CASE i = l + 1
        <5>1. i = j /\ plan'[i] = g /\ plan'[j] = g
          BY <2>3, <2>4, <4>2
        <5>2. g.area \in Nat /\ g.start \in Int
          BY <2>2, PlanAssumption DEF PlanAssumption, Request
        <5>3. Before(g, g)
          BY <5>2 DEF Before
        <5>. QED
          BY <5>1, <5>3
      <4>3. CASE j = l + 1 /\ i # l + 1
        <5>1. i \in 1 .. l /\ plan'[i] = plan[i] /\ plan'[j] = g
          BY <2>3, <2>4, <4>3
        <5>2. PICK k \in 1 .. next - 1 : Begins(i, k)
          BY <1>2, <5>1 DEF RequestsBroken, l
        <5>3. Before(sorted[k], s)
          <6>1. k \in 1 .. Len(sorted) /\ next \in 1 .. Len(sorted) /\ k <= next
            BY <1>1
          <6>. QED
            BY <1>2, <6>1 DEF SpansSorted, s
        <5>. QED
          BY <2>2, <5>1, <5>2, <5>3 DEF Begins, Before
      <4>. QED
        BY <4>1, <4>2, <4>3
    <3>6. NoneBeyond(plan[Len(plan)], next)'
      <4>. SUFFICES ASSUME NEW i \in 1 .. next, sorted[i].area = s.area
                    PROVE  sorted[i].end <= s.end
        BY <1>1, <2>2, <2>3, <2>4 DEF NoneBeyond
      <4>1. CASE i = next
        BY <1>3, <4>1 DEF Span, s
      <4>2. CASE i # next
        <5>1. i \in 1 .. next - 1 /\ i \in 1 .. Len(sorted) /\ next - 1 \in 1 .. Len(sorted)
          BY <1>1, <4>2
        <5>2. l > 0
          BY <2>3, <3>2, <5>1
        <5>3. sorted[i] \in Span /\ sorted[next - 1] \in Span
          BY <1>1, <5>1
        <5>4. plan[l].area = s.area
          <6>1. Before(sorted[i], sorted[next - 1]) /\ Before(sorted[next - 1], s)
            <7>1. i <= next - 1 /\ next - 1 <= next /\ next \in 1 .. Len(sorted)
              BY <1>1, <5>1
            <7>. QED
              BY <1>2, <5>1, <7>1 DEF SpansSorted, s
          <6>2. sorted[next - 1].area = plan[l].area
            BY <1>2, <5>2 DEF LastRequest, l
          <6>3. s.area \in Nat /\ sorted[i].area \in Nat /\ sorted[next - 1].area \in Nat
            BY <1>3, <5>3, PlanAssumption DEF PlanAssumption, Span
          <6>. QED
            BY <6>1, <6>2, <6>3 DEF Before
        <5>5. sorted[i].end <= End(plan[l])
          BY <3>1, <5>1, <5>2, <5>4 DEF NoneBeyond
        <5>6. End(plan[l]) < s.end
          BY <1>3, <3>1, <5>2, <5>4, NotJoined
        <5>7. sorted[i].end \in Int /\ s.end \in Int
          BY <1>3, <5>3 DEF Span
        <5>8. End(plan[l]) \in Int
          BY <3>1, <5>2 DEF Request, End
        <5>. QED
          BY <5>5, <5>6, <5>7, <5>8
      <4>. QED
        BY <4>1, <4>2
    <3>. QED
      BY <3>4, <3>5, <3>6 DEF RequestsBroken
  <2>. QED
    BY <1>4, <2>5, <2>6, <2>7, <2>8, <2>9 DEF PlanInv
<1> QED
  BY <1>5, <1>6

\* Every step of an engine keeps the invariant.
LEMMA PlanStep == PlanInv /\ [Next]_planVars => PlanInv'
<1>. SUFFICES ASSUME PlanInv, [Next]_planVars PROVE PlanInv'
  OBVIOUS
<1>1. CASE SortSpans
  BY <1>1, SortKeeps
<1>2. CASE MergeSpan
  BY <1>2, MergeKeeps
<1>3. CASE PlanBuilt \/ UNCHANGED planVars
  <2>1. UNCHANGED <<points, cluster, sorted, next, plan>> /\ pc' \in {pc, "ready"}
    BY <1>3 DEF PlanBuilt, planVars
  <2>2. PlanTyped' /\ PointsShaped'
    BY <2>1 DEF PlanInv, PlanTyped, PointsShaped
  <2>3. pc' \in {"merge", "ready"} =>
          SpansSorted' /\ SpansCovered' /\ LastRequest' /\ RequestsReadable' /\ RequestsBroken'
    BY <1>3, <2>1 DEF PlanInv, PlanBuilt, planVars, SpansSorted, SpansCovered, LastRequest,
                      RequestsReadable, RequestsBroken, Begins, NoneBeyond
  <2>4. pc' = "ready" => next' = Len(sorted') + 1
    BY <1>3, <2>1 DEF PlanInv, PlanTyped, PlanBuilt, planVars
  <2>. QED
    BY <2>2, <2>3, <2>4 DEF PlanInv
<1>4. CASE SetClusterIndex
  <2>1. cluster' \in Nat \ {0}
    BY <1>4, PlanAssumption DEF SetClusterIndex, Larger, PlanAssumption
  <2>2. PlanTyped' /\ PointsShaped' /\ pc' = "sort"
    BY <1>4, <2>1 DEF SetClusterIndex, PlanInv, PlanTyped, PointsShaped
  <2>. QED
    BY <2>2 DEF PlanInv
<1>. QED
  BY <1>1, <1>2, <1>3, <1>4 DEF Next

\* PlanInv is an invariant of an engine with any list of points.
LEMMA PlanInvariant == Spec => []PlanInv
BY PlanInit, PlanStep, PTL DEF Spec

------------------------------------------------------------------------------
(* The plan: what the invariant implies.                                     *)

\* Once every span is merged, every point of the cluster in force is covered.
LEMMA InvCovers == PlanInv => PlanCovers
<1>. SUFFICES ASSUME PlanInv, pc = "ready", NEW i \in 1 .. Len(points)
              PROVE  \E j \in 1 .. Len(plan) : Covers(plan[j], SpanOf(points[i], cluster))
  BY DEF PlanCovers
<1>1. PICK k \in 1 .. Len(sorted) : sorted[k] = SpanOf(points[i], cluster)
  BY DEF PlanInv, SpansSorted
<1>2. k \in 1 .. next - 1
  BY DEF PlanInv, PlanTyped
<1>. QED
  BY <1>1, <1>2 DEF PlanInv, SpansCovered

\* The words of a request are words of points.
LEMMA InvReadable == PlanInv => PlanReadable
<1>. SUFFICES ASSUME PlanInv, pc = "ready", NEW j \in 1 .. Len(plan)
              PROVE  /\ plan[j].count <= MaxCount[plan[j].area]
                     /\ \A a \in plan[j].start .. End(plan[j]) - 1 :
                          \E i \in 1 .. Len(points) :
                            LET s == SpanOf(points[i], cluster)
                            IN  s.area = plan[j].area /\ s.start <= a /\ a < s.end
  BY DEF PlanReadable
<1>1. Readable(plan[j], sorted, next) /\ next = Len(sorted) + 1 /\ Len(sorted) \in Nat
  BY DEF PlanInv, RequestsReadable, PlanTyped
<1>2. ASSUME NEW a \in plan[j].start .. End(plan[j]) - 1
      PROVE  \E i \in 1 .. Len(points) :
               LET s == SpanOf(points[i], cluster)
               IN  s.area = plan[j].area /\ s.start <= a /\ a < s.end
  <2>1. PICK k \in 1 .. Len(sorted) :
          sorted[k].area = plan[j].area /\ sorted[k].start <= a /\ a < sorted[k].end
    BY <1>1 DEF Readable
  <2>2. PICK i \in 1 .. Len(points) : sorted[k] = SpanOf(points[i], cluster)
    BY DEF PlanInv, SpansSorted
  <2>. QED
    BY <2>1, <2>2
<1>. QED
  BY <1>1, <1>2 DEF Readable

\* The request before the one that begins with span k ends before it, if a block could
\* take in both, and a word between them belongs to no point.
LEMMA BrokenAtGap ==
  ASSUME PlanInv, pc = "ready", NEW j \in 1 .. Len(plan), j > 1,
         NEW k \in 1 .. Len(sorted), Begins(j, k), plan[j - 1].area = sorted[k].area,
         sorted[k].end - plan[j - 1].start <= MaxCount[sorted[k].area]
  PROVE  /\ End(plan[j - 1]) < sorted[k].start
         /\ \A m \in 1 .. Len(sorted) :
              ~ /\ sorted[m].area = sorted[k].area
                /\ sorted[m].start <= End(plan[j - 1]) /\ End(plan[j - 1]) < sorted[m].end
<1>. DEFINE r == plan[j - 1]
<1>1. ~Joins(r, sorted[k]) /\ NoneBeyond(r, k)
  BY DEF Begins
<1>2. r \in Request /\ \A m \in 1 .. Len(sorted) : sorted[m] \in Span
  BY DEF PlanInv, PlanTyped
<1>3. r.start \in Int /\ End(r) \in Int
  BY <1>2 DEF Request, End
<1>4. \A m \in 1 .. Len(sorted) :
        sorted[m].start \in Int /\ sorted[m].end \in Int /\ sorted[m].area \in Nat
  BY <1>2, PlanAssumption DEF PlanAssumption, Span
<1>5. \A m \in 1 .. Len(sorted) : k <= m => Before(sorted[k], sorted[m])
  BY DEF PlanInv, SpansSorted
<1>. HIDE DEF r
<1>6. End(r) < sorted[k].start
  <2>1. ~(sorted[k].start <= End(r))
    BY <1>1 DEF Joins, r
  <2>2. sorted[k].start \in Int
    BY <1>4
  <2>. QED
    BY <1>3, <2>1, <2>2
<1>7. ASSUME NEW m \in 1 .. Len(sorted), sorted[m].area = sorted[k].area,
             sorted[m].start <= End(r), End(r) < sorted[m].end
      PROVE  FALSE
  <2>1. CASE m < k
    <3>1. m \in 1 .. k - 1
      BY <2>1
    <3>2. sorted[m].end <= End(r)
      BY <1>1, <1>7, <3>1 DEF NoneBeyond, r
    <3>. QED
      BY <1>3, <1>4, <1>7, <3>2
  <2>2. CASE k <= m
    <3>1. sorted[k].start <= sorted[m].start
      BY <1>4, <1>5, <1>7, <2>2 DEF Before
    <3>2. sorted[k].start \in Int /\ sorted[m].start \in Int
      BY <1>4
    <3>. QED
      BY <1>3, <1>6, <1>7, <3>1, <3>2
  <2>. QED
    BY <2>1, <2>2
<1>. QED
  BY <1>6, <1>7 DEF r

\* Of n indices two have one value, when there are n - 1 values.
LEMMA Pigeonhole ==
  ASSUME NEW n \in Nat, n > 0, NEW f \in [1 .. n -> 1 .. n - 1]
  PROVE  \E x, y \in 1 .. n : x < y /\ f[x] = f[y]
<1>1. IsFiniteSet(1 .. n) /\ Cardinality(1 .. n) = n
  <2>1. ~(1 > n) /\ n - 1 + 1 = n /\ n \in Int
    OBVIOUS
  <2>. QED
    BY <2>1, FS_Interval
<1>2. IsFiniteSet(1 .. n - 1) /\ Cardinality(1 .. n - 1) = n - 1
  <2>1. n - 1 \in Int /\ (1 > n - 1 => n - 1 = 0) /\ (n - 1) - 1 + 1 = n - 1
    OBVIOUS
  <2>. QED
    BY <2>1, FS_Interval
<1>3. n - 1 < n
  OBVIOUS
<1>4. \E x, y \in 1 .. n : x # y /\ f[x] = f[y]
  BY <1>1, <1>2, <1>3, FS_PigeonHole, Zenon
<1>5. PICK x, y \in 1 .. n : x # y /\ f[x] = f[y]
  BY <1>4
<1>6. x < y \/ y < x
  BY <1>5
<1>. QED
  BY <1>5, <1>6

\* Two requests of a plan begin with points of different groups in every grouping that
\* serves, so that it has at least as many groups as the plan has requests.
LEMMA InvMinimal == PlanInv => PlanMinimal
<1>. DEFINE l == Len(plan)
            BeginsWith(j, i) ==
              \E k \in 1 .. Len(sorted) : Begins(j, k) /\ sorted[k] = SpanOf(points[i], cluster)
<1>. SUFFICES ASSUME PlanInv, pc = "ready", l > 0,
                     NEW g \in Groupings(l - 1), Serves(g, l - 1)
              PROVE  FALSE
  BY DEF PlanMinimal
<1>1. /\ plan \in Seq(Request) /\ l \in Nat /\ Len(points) \in Nat /\ cluster \in Nat \ {0}
      /\ next = Len(sorted) + 1 /\ Len(sorted) \in Nat
      /\ \A i \in 1 .. Len(points) : Shape(points[i]) \in Point
      /\ SpansSorted /\ RequestsBroken
  BY DEF PlanInv, PlanTyped, PointsShaped
<1>2. ASSUME NEW j \in 1 .. l PROVE \E i \in 1 .. Len(points) : BeginsWith(j, i)
  <2>1. PICK k \in 1 .. Len(sorted) : Begins(j, k)
    BY <1>1 DEF RequestsBroken
  <2>2. PICK i \in 1 .. Len(points) : sorted[k] = SpanOf(points[i], cluster)
    BY <1>1 DEF SpansSorted
  <2>. QED
    BY <2>1, <2>2
<1>. DEFINE First(j) == CHOOSE i \in 1 .. Len(points) : BeginsWith(j, i)
            h == [j \in 1 .. l |-> g[First(j)]]
<1>3. \A j \in 1 .. l : First(j) \in 1 .. Len(points) /\ BeginsWith(j, First(j))
  <2>. HIDE DEF BeginsWith
  <2>. QED
    BY <1>2
<1>4. h \in [1 .. l -> 1 .. l - 1]
  <2>. HIDE DEF First
  <2>. QED
    BY <1>3 DEF Groupings
<1>5. PICK x, y \in 1 .. l : x < y /\ h[x] = h[y]
  <2>. HIDE DEF l, h
  <2>. QED
    BY <1>1, <1>4, Pigeonhole
<1>. DEFINE s == SpanOf(points[First(x)], cluster)
            t == SpanOf(points[First(y)], cluster)
            r == plan[y - 1]
<1>6. PICK p \in 1 .. Len(sorted) : Begins(x, p) /\ sorted[p] = s
  BY <1>3
<1>7. PICK q \in 1 .. Len(sorted) : Begins(y, q) /\ sorted[q] = t
  BY <1>3
<1>8. /\ s.area = t.area /\ t.end - s.start <= MaxCount[s.area]
      /\ \A a \in s.start .. t.end - 1 :
           \E i \in 1 .. Len(points) :
             LET u == SpanOf(points[i], cluster)
             IN  u.area = s.area /\ u.start <= a /\ a < u.end
  <2>1. First(x) \in Block(g, h[x]) /\ First(y) \in Block(g, h[x])
    BY <1>3, <1>5 DEF Block
  <2>2. h[x] \in 1 .. l - 1
    BY <1>4
  <2>. HIDE DEF h, First, l
  <2>. DEFINE spans == {SpanOf(points[i], cluster) : i \in Block(g, h[x])}
              words == UNION {u.start .. u.end - 1 : u \in spans}
  <2>4. s \in spans /\ t \in spans
    BY <2>1
  <2>5. \A u, v \in spans :
          /\ u.area = v.area
          /\ v.end - u.start <= MaxCount[u.area]
          /\ u.start .. v.end - 1 \subseteq words
    BY <2>2 DEF Serves
  <2>6. s.area = t.area /\ t.end - s.start <= MaxCount[s.area]
    BY <2>4, <2>5
  <2>7. ASSUME NEW a \in s.start .. t.end - 1
        PROVE  \E i \in 1 .. Len(points) :
                 LET u == SpanOf(points[i], cluster)
                 IN  u.area = s.area /\ u.start <= a /\ a < u.end
    <3>1. a \in words
      BY <2>4, <2>5
    <3>2. PICK i \in Block(g, h[x]) :
            a \in SpanOf(points[i], cluster).start .. SpanOf(points[i], cluster).end - 1
      BY <3>1
    <3>3. SpanOf(points[i], cluster).area = s.area
      BY <2>4, <2>5
    <3>4. i \in 1 .. Len(points)
      BY DEF Block
    <3>5. SpanOf(points[i], cluster).start \in Int /\ SpanOf(points[i], cluster).end \in Int
      BY <1>1, <3>4, SpanShort DEF Span
    <3>. QED
      BY <3>2, <3>3, <3>4, <3>5
  <2>. QED
    BY <2>6, <2>7
<1>. HIDE DEF First, h, BeginsWith
<1>9. /\ s \in Span /\ t \in Span /\ s.end - s.start \in {1, 2} /\ t.end - t.start \in {1, 2}
  BY <1>1, <1>3, SpanShort
<1>10. /\ plan[x].area = s.area /\ plan[x].start = s.start
       /\ plan[y].area = t.area /\ plan[y].start = t.start
  BY <1>6, <1>7 DEF Begins
<1>11. /\ y > 1 /\ y - 1 \in 1 .. l /\ x <= y - 1 /\ y - 1 <= y
       /\ r \in Request
  BY <1>1, <1>5
<1>12. Before(plan[x], r) /\ Before(r, plan[y])
  BY <1>1, <1>11 DEF RequestsBroken
<1>. HIDE DEF s, t, r, l
<1>13. /\ s.area \in Nat /\ r.area \in Nat /\ s.start \in Int /\ r.start \in Int
       /\ t.start \in Int /\ t.end \in Int /\ End(r) \in Int /\ r.start <= End(r)
       /\ MaxCount[s.area] \in Nat
  <2>1. s.area \in Area /\ r.area \in Area /\ r.start \in Int /\ r.count \in Nat
        /\ s.start \in Int /\ t.start \in Int /\ t.end \in Int
    BY <1>9, <1>11 DEF Span, Request
  <2>2. s.area \in Nat /\ r.area \in Nat /\ MaxCount[s.area] \in Nat
    BY <2>1, PlanAssumption DEF PlanAssumption
  <2>. QED
    BY <2>1, <2>2 DEF End
<1>14. r.area = s.area /\ s.start <= r.start
  BY <1>8, <1>10, <1>12, <1>13 DEF Before
<1>15. t.end - r.start <= MaxCount[t.area]
  BY <1>8, <1>13, <1>14
<1>16. /\ End(r) < t.start
       /\ \A m \in 1 .. Len(sorted) :
            ~(sorted[m].area = t.area /\ sorted[m].start <= End(r) /\ End(r) < sorted[m].end)
  BY <1>7, <1>8, <1>11, <1>14, <1>15, BrokenAtGap DEF r, l
<1>17. End(r) \in s.start .. t.end - 1
  <2>1. t.start < t.end
    BY <1>9, <1>13
  <2>2. s.start <= End(r)
    BY <1>13, <1>14
  <2>3. End(r) < t.end
    BY <1>13, <1>16, <2>1
  <2>. QED
    BY <1>13, <2>2, <2>3
<1>18. PICK i \in 1 .. Len(points) :
         LET u == SpanOf(points[i], cluster)
         IN  u.area = s.area /\ u.start <= End(r) /\ End(r) < u.end
  BY <1>8, <1>17
<1>19. PICK m \in 1 .. Len(sorted) : sorted[m] = SpanOf(points[i], cluster)
  BY <1>1 DEF SpansSorted
<1>. QED
  BY <1>8, <1>16, <1>18, <1>19

------------------------------------------------------------------------------
(* An engine with any list of points.                                        *)

PointsGiven == points \in PointLists

\* The read plan keeps its types, for all areas, block lengths and lists of points.
THEOREM PlanTypeCorrect == Spec => []TypeOK
<1>1. Init => PointsGiven
  BY DEF Init, PointsGiven
<1>2. PointsGiven /\ [Next]_planVars => PointsGiven'
  BY DEF Next, SortSpans, MergeSpan, PlanBuilt, SetClusterIndex, planVars, PointsGiven
<1>3. PlanInv /\ PointsGiven => TypeOK
  BY DEF PlanInv, PlanTyped, TypeOK, PointsGiven
<1>. QED
  BY <1>1, <1>2, <1>3, PlanInvariant, PTL DEF Spec

------------------------------------------------------------------------------
(* Loading: the invariant.                                                   *)

\* The fields of a point (ModbusPointDef).
Fields == {"name", "area", "address", "span", "stride", "pt", "ct"}

\* The points are those of the fields, and have their exponents but for those the lists pts
\* and cts name, which are multiplied once; every name of the lists has been found.
Marked(i, names) == \E n \in names : i = FirstNamed(n)
MarkedBy(fields, pts, cts) ==
  /\ Len(points) = Len(fields)
  /\ \A i \in 1 .. Len(points) :
       /\ points[i].name = fields[i].name
       /\ points[i].pt = IF Marked(i, pts) THEN 1 ELSE fields[i].pt
       /\ points[i].ct = IF Marked(i, cts) THEN 1 ELSE fields[i].ct
  /\ \A n \in pts \cup cts : FirstNamed(n) # 0

PointsMarked ==
  /\ stage = "own" => MarkedBy(config.template, {}, {})
  /\ stage = "tplLists" => MarkedBy(Declared, {}, {})
  /\ stage = "ownLists" =>
       MarkedBy(Declared, config.tplLists.pt \cup config.tplLists.both,
                          config.tplLists.ct \cup config.tplLists.both)
  /\ stage \in {"checks", "sink", "engine"} => MarkedBy(Declared, Listed("pt"), Listed("ct"))

ConfigInv ==
  /\ stage \in Stages /\ config \in Configs
  /\ PlanInv
  /\ stage # "engine" => pc = "sort"
  /\ \A i \in 1 .. Len(points) : DOMAIN points[i] = Fields
  /\ PointsMarked
  /\ stage = "engine" => writeMap = Route

------------------------------------------------------------------------------

\* What is found first under a name is one of the points of that name, if there are any.
LEMMA FirstNamedIs ==
  ASSUME NEW n, FirstNamed(n) # 0, Len(points) \in Nat
  PROVE  FirstNamed(n) \in 1 .. Len(points) /\ points[FirstNamed(n)].name = n
<1>. DEFINE I == {i \in 1 .. Len(points) : points[i].name = n}
<1>1. FirstNamed(n) = IF I # {} THEN Min(I) ELSE 0
  BY DEF FirstNamed, SelectInSeq
<1>2. I # {} /\ I \in SUBSET Nat
  BY <1>1
<1>3. Min(I) \in I
  BY <1>2, LeastNatural
<1>. QED
  BY <1>1, <1>2, <1>3

\* The length of a function on 1 .. n.
LEMMA LenIs == ASSUME NEW n \in Nat, NEW f, f = [i \in 1 .. n |-> f[i]] PROVE Len(f) = n
OBVIOUS

\* Points of the same names in the same order are found the same way.
LEMMA FirstNamedSame ==
  ASSUME Len(points') = Len(points),
         \A i \in 1 .. Len(points) : points'[i].name = points[i].name
  PROVE  \A n : FirstNamed(n)' = FirstNamed(n)
<1>. SUFFICES ASSUME NEW n PROVE FirstNamed(n)' = FirstNamed(n)
  OBVIOUS
<1>1. {i \in 1 .. Len(points') : points'[i].name = n} = {i \in 1 .. Len(points) : points[i].name = n}
  OBVIOUS
<1>. QED
  BY <1>1 DEF FirstNamed, SelectInSeq

\* parseFields makes points of the right shape with the names and exponents of the fields.
LEMMA ParsedShaped ==
  ASSUME NEW fields, FieldsAre(fields)
  PROVE  /\ Len(Parsed(fields)) = Len(fields) /\ Len(fields) \in Nat
         /\ \A i \in 1 .. Len(fields) :
              /\ Shape(Parsed(fields)[i]) \in Point
              /\ DOMAIN Parsed(fields)[i] = Fields
              /\ Parsed(fields)[i].name = fields[i].name
              /\ Parsed(fields)[i].pt = fields[i].pt /\ Parsed(fields)[i].ct = fields[i].ct
<1>1. Len(fields) \in Nat
  BY DEF FieldsAre
<1>2. Len(Parsed(fields)) = Len(fields)
  BY <1>1 DEF Parsed
<1>3. ASSUME NEW i \in 1 .. Len(fields)
      PROVE  /\ Shape(Parsed(fields)[i]) \in Point
             /\ DOMAIN Parsed(fields)[i] = Fields
             /\ Parsed(fields)[i].name = fields[i].name
             /\ Parsed(fields)[i].pt = fields[i].pt /\ Parsed(fields)[i].ct = fields[i].ct
  BY DEF Parsed, FieldsAre, Shape, Fields
<1>. QED
  BY <1>1, <1>2, <1>3

\* Before an engine runs, a step that keeps its variables keeps PlanInv, if the points it
\* leaves are of the right shape.
LEMMA LoadingKeepsPlan ==
  ASSUME PlanInv, pc = "sort", Loading, PointsShaped'
  PROVE  PlanInv' /\ pc' = "sort"
BY DEF PlanInv, PlanTyped, Loading

\* Loading starts without points.
LEMMA ConfigInit == InitConfig => ConfigInv
<1>. SUFFICES ASSUME InitConfig PROVE ConfigInv
  OBVIOUS
<1>1. PlanTyped
  BY DEF InitConfig, PlanTyped
<1>2. PointsShaped
  BY DEF InitConfig, PointsShaped
<1>. QED
  BY <1>1, <1>2 DEF InitConfig, ConfigInv, PlanInv, PointsMarked, Stages

\* New points of a section replace the ones there are.
LEMMA ParsedKeeps ==
  ASSUME ConfigInv, pc = "sort", Loading, NEW fields, FieldsAre(fields),
         points' = Parsed(fields),
         \/ stage' = "own" /\ fields = config.template
         \/ stage' = "tplLists" /\ fields = Declared
  PROVE  ConfigInv'
<1>1. /\ Len(points') = Len(fields) /\ Len(points') \in Nat
      /\ \A i \in 1 .. Len(points') :
           /\ Shape(points'[i]) \in Point /\ DOMAIN points'[i] = Fields
           /\ points'[i].name = fields[i].name
           /\ points'[i].pt = fields[i].pt /\ points'[i].ct = fields[i].ct
  BY ParsedShaped
<1>2. PointsShaped'
  BY <1>1 DEF PointsShaped
<1>3. PlanInv' /\ pc' = "sort"
  BY <1>2, LoadingKeepsPlan DEF ConfigInv
<1>4. PointsMarked'
  <2>1. MarkedBy(fields, {}, {})'
    BY <1>1 DEF MarkedBy, Marked
  <2>2. config' = config /\ Declared' = Declared
    BY DEF Loading, Declared
  <2>. QED
    BY <2>1, <2>2 DEF PointsMarked
<1>5. config' \in Configs
  BY DEF ConfigInv, Loading
<1>. QED
  BY <1>1, <1>3, <1>4, <1>5 DEF ConfigInv, Stages

\* The map a device's rows are written by is a matter of its entry alone.
LEMMA RouteSame == ASSUME UNCHANGED config PROVE Route' = Route
<1>1. FirstHit' = FirstHit
  BY DEF FirstHit, SelectInSeq, Hit
<1>. QED
  BY <1>1 DEF Route, HitMap, SoleMap

\* A step that keeps the points keeps what is known of them.
LEMMA SamePointsKeep ==
  ASSUME ConfigInv, pc = "sort", Loading, UNCHANGED points, stage' \in Stages,
         \/ stage' = "refused"
         \/ stage = "own" /\ config.own = None /\ stage' = "tplLists"
         \/ stage \in {"checks", "sink"} /\ stage' \in {"sink", "engine"},
         stage' = "engine" => writeMap' = Route
  PROVE  ConfigInv'
<1>1. PlanInv' /\ pc' = "sort"
  <2>1. PointsShaped'
    BY DEF ConfigInv, PlanInv, PointsShaped
  <2>. QED
    BY <2>1, LoadingKeepsPlan DEF ConfigInv
<1>2. UNCHANGED config
  BY DEF Loading
<1>3. \A f, pts, cts : MarkedBy(f, pts, cts)' <=> MarkedBy(f, pts, cts)
  BY FirstNamedSame DEF MarkedBy, Marked
<1>5. PointsMarked'
  BY <1>2, <1>3 DEF ConfigInv, PointsMarked, Declared, Listed, Stages
<1>4. Route' = Route
  BY <1>2, RouteSame
<1>. QED
  BY <1>1, <1>2, <1>4, <1>5 DEF ConfigInv

\* The lists of a section add their points to those that are multiplied.
LEMMA ListsMark ==
  ASSUME ConfigInv, NEW lists, NEW then, ApplyLists(lists, then), then # "refused",
         stage' # "refused", NEW fields, NEW pts, NEW cts, MarkedBy(fields, pts, cts)
  PROVE  /\ MarkedBy(fields, pts \cup (lists.pt \cup lists.both),
                             cts \cup (lists.ct \cup lists.both))'
         /\ Len(points') = Len(points)
         /\ \A i \in 1 .. Len(points) :
              Shape(points'[i]) = Shape(points[i]) /\ DOMAIN points'[i] = Fields
<1>. DEFINE ps == lists.pt \cup lists.both
            cs == lists.ct \cup lists.both
<1>1. /\ \A n \in ps \cup cs : FirstNamed(n) # 0
      /\ points' = [i \in 1 .. Len(points) |->
           [points[i] EXCEPT !.pt = Multiplied(i, ps, points[i].pt),
                             !.ct = Multiplied(i, cs, points[i].ct)]]
  BY DEF ApplyLists, Refuse
<1>2. Len(points) \in Nat /\ \A i \in 1 .. Len(points) : DOMAIN points[i] = Fields
  BY DEF ConfigInv, PlanInv, PointsShaped
<1>. HIDE DEF ps, cs
<1>3. Len(points') = Len(points)
  <2>1. points' = [i \in 1 .. Len(points) |-> points'[i]]
    BY <1>1
  <2>. QED
    BY <1>2, <2>1, LenIs
<1>4. ASSUME NEW i \in 1 .. Len(points)
      PROVE  /\ Shape(points'[i]) = Shape(points[i]) /\ points'[i].name = points[i].name
             /\ DOMAIN points'[i] = Fields
             /\ points'[i].pt = Multiplied(i, ps, points[i].pt)
             /\ points'[i].ct = Multiplied(i, cs, points[i].ct)
  BY <1>1, <1>2 DEF Shape, Fields
<1>5. \A n : FirstNamed(n)' = FirstNamed(n)
  BY <1>3, <1>4, FirstNamedSame
<1>6. \A i, names, before :
        Multiplied(i, names, before) = IF Marked(i, names) THEN 1 ELSE before
  BY DEF Multiplied, Marked
<1>7. MarkedBy(fields, pts \cup ps, cts \cup cs)'
  <2>1. ASSUME NEW i \in 1 .. Len(points')
        PROVE  /\ points'[i].name = fields[i].name
               /\ points'[i].pt =
                    IF \E n \in pts \cup ps : i = FirstNamed(n) THEN 1 ELSE fields[i].pt
               /\ points'[i].ct =
                    IF \E n \in cts \cup cs : i = FirstNamed(n) THEN 1 ELSE fields[i].ct
    <3>1. /\ points[i].name = fields[i].name
          /\ points[i].pt = IF Marked(i, pts) THEN 1 ELSE fields[i].pt
          /\ points[i].ct = IF Marked(i, cts) THEN 1 ELSE fields[i].ct
      BY <1>3 DEF MarkedBy
    <3>2. /\ (\E n \in pts \cup ps : i = FirstNamed(n)) <=> Marked(i, pts) \/ Marked(i, ps)
          /\ (\E n \in cts \cup cs : i = FirstNamed(n)) <=> Marked(i, cts) \/ Marked(i, cs)
      BY DEF Marked
    <3>. QED
      BY <1>3, <1>4, <1>6, <3>1, <3>2
  <2>2. \A n \in (pts \cup ps) \cup (cts \cup cs) : FirstNamed(n) # 0
    BY <1>1 DEF MarkedBy
  <2>. QED
    BY <1>3, <1>5, <2>1, <2>2 DEF MarkedBy, Marked
<1>. QED
  BY <1>3, <1>4, <1>7 DEF ps, cs

\* Names of lists that are not found refuse the device, and others mark their points.
LEMMA ListsKeep ==
  ASSUME ConfigInv, pc = "sort", Loading, NEW lists, NEW then \in {"ownLists", "checks"},
         ApplyLists(lists, then), NEW pts, NEW cts, MarkedBy(Declared, pts, cts),
         then = "ownLists" =>
           /\ pts \cup (lists.pt \cup lists.both) = config.tplLists.pt \cup config.tplLists.both
           /\ cts \cup (lists.ct \cup lists.both) = config.tplLists.ct \cup config.tplLists.both,
         then = "checks" =>
           /\ pts \cup (lists.pt \cup lists.both) = Listed("pt")
           /\ cts \cup (lists.ct \cup lists.both) = Listed("ct")
  PROVE  ConfigInv'
<1>1. CASE stage' = "refused"
  <2>1. UNCHANGED points
    BY <1>1 DEF ApplyLists, Refuse
  <2>. QED
    BY <1>1, <2>1, SamePointsKeep DEF Stages
<1>2. CASE stage' # "refused"
  <2>. PICK fields : fields = Declared
    OBVIOUS
  <2>1. /\ MarkedBy(fields, pts \cup (lists.pt \cup lists.both),
                            cts \cup (lists.ct \cup lists.both))'
        /\ Len(points') = Len(points)
        /\ \A i \in 1 .. Len(points) :
             Shape(points'[i]) = Shape(points[i]) /\ DOMAIN points'[i] = Fields
    BY <1>2, ListsMark
  <2>2. stage' = then
    BY <1>2 DEF ApplyLists, Refuse
  <2>3. PointsShaped'
    BY <2>1 DEF ConfigInv, PlanInv, PointsShaped
  <2>4. PlanInv' /\ pc' = "sort"
    BY <2>3, LoadingKeepsPlan DEF ConfigInv
  <2>5. config' = config
    BY DEF Loading
  <2>6. PointsMarked'
    <3>1. Declared' = fields
      BY <2>5 DEF Declared
    <3>. QED
      BY <2>1, <2>2, <2>5, <3>1 DEF PointsMarked, Listed
  <2>. QED
    BY <2>1, <2>2, <2>4, <2>5, <2>6 DEF ConfigInv, Stages
<1>. QED
  BY <1>1, <1>2

\* A running engine keeps the points and the map.
LEMMA EngineKeeps == ConfigInv /\ RunEngine => ConfigInv'
<1>. SUFFICES ASSUME ConfigInv, RunEngine PROVE ConfigInv'
  OBVIOUS
<1>1. Next /\ stage = "engine" /\ UNCHANGED loadVars
  BY DEF RunEngine
<1>2. PlanInv'
  BY <1>1, PlanStep DEF ConfigInv
<1>3. UNCHANGED points
  BY <1>1 DEF Next, SortSpans, MergeSpan, PlanBuilt, SetClusterIndex
<1>4. UNCHANGED <<stage, config, writeMap>>
  BY <1>1 DEF loadVars
<1>5. \A f, pts, cts : MarkedBy(f, pts, cts)' <=> MarkedBy(f, pts, cts)
  BY <1>3, FirstNamedSame DEF MarkedBy, Marked
<1>6. PointsMarked'
  BY <1>4, <1>5 DEF ConfigInv, PointsMarked, Declared, Listed
<1>7. Route' = Route
  BY <1>4, RouteSame
<1>. QED
  BY <1>1, <1>2, <1>3, <1>4, <1>6, <1>7 DEF ConfigInv

\* Every step of loading, and of the engine, keeps the invariant.
LEMMA ConfigStep == ConfigInv /\ [NextConfig]_vars => ConfigInv'
<1>. SUFFICES ASSUME ConfigInv, [NextConfig]_vars PROVE ConfigInv'
  OBVIOUS
<1>1. CASE ReadTemplate
  <2>1. stage = "template" /\ Loading /\ pc = "sort"
    BY <1>1 DEF ReadTemplate, ConfigInv
  <2>2. CASE config.template \in {None, Malformed}
    <3>1. Refuse
      BY <1>1, <2>2 DEF ReadTemplate
    <3>. QED
      BY <2>1, <3>1, SamePointsKeep DEF Refuse, Stages
  <2>3. CASE config.template \notin {None, Malformed}
    <3>1. stage' = "own" /\ points' = Parsed(config.template)
      BY <1>1, <2>3 DEF ReadTemplate
    <3>2. FieldsAre(config.template)
      BY <2>3, ConfigAssumption DEF ConfigInv, ConfigAssumption
    <3>. QED
      BY <2>1, <3>1, <3>2, ParsedKeeps
  <2>. QED
    BY <2>2, <2>3
<1>2. CASE ReadOwn
  <2>1. stage = "own" /\ Loading /\ pc = "sort"
    BY <1>2 DEF ReadOwn, ConfigInv
  <2>2. CASE config.own = Malformed
    <3>1. Refuse
      BY <1>2, <2>2 DEF ReadOwn
    <3>. QED
      BY <2>1, <3>1, SamePointsKeep DEF Refuse, Stages
  <2>3. CASE config.own # Malformed /\ config.own = None
    <3>1. stage' = "tplLists" /\ UNCHANGED points
      BY <1>2, <2>3 DEF ReadOwn, OwnFields
    <3>. QED
      BY <2>1, <2>3, <3>1, SamePointsKeep DEF Stages
  <2>4. CASE config.own # Malformed /\ config.own # None
    <3>1. stage' = "tplLists" /\ points' = Parsed(config.own)
      BY <1>2, <2>4 DEF ReadOwn, OwnFields
    <3>2. FieldsAre(config.own)
      BY <2>4, ConfigAssumption DEF ConfigInv, ConfigAssumption
    <3>3. config.own = Declared
      BY <2>4 DEF Declared
    <3>. QED
      BY <2>1, <3>1, <3>2, <3>3, ParsedKeeps
  <2>. QED
    BY <2>2, <2>3, <2>4
<1>3. CASE ApplyTemplateLists
  <2>1. /\ stage = "tplLists" /\ Loading /\ pc = "sort"
        /\ ApplyLists(config.tplLists, "ownLists") /\ MarkedBy(Declared, {}, {})
    BY <1>3 DEF ApplyTemplateLists, ConfigInv, PointsMarked
  <2>. QED
    BY <2>1, ListsKeep
<1>4. CASE ApplyOwnLists
  <2>. DEFINE pts == config.tplLists.pt \cup config.tplLists.both
              cts == config.tplLists.ct \cup config.tplLists.both
  <2>1. /\ stage = "ownLists" /\ Loading /\ pc = "sort"
        /\ ApplyLists(config.ownLists, "checks") /\ MarkedBy(Declared, pts, cts)
    BY <1>4 DEF ApplyOwnLists, ConfigInv, PointsMarked
  <2>2. /\ pts \cup (config.ownLists.pt \cup config.ownLists.both) = Listed("pt")
        /\ cts \cup (config.ownLists.ct \cup config.ownLists.both) = Listed("ct")
    BY DEF Listed
  <2>. HIDE DEF pts, cts
  <2>. QED
    BY <2>1, <2>2, ListsKeep
<1>5. CASE CheckProfile
  <2>1. /\ stage = "checks" /\ Loading /\ pc = "sort"
        /\ stage' \in {"refused", "sink"} /\ UNCHANGED points
    BY <1>5 DEF CheckProfile, ConfigInv, Refuse
  <2>. QED
    BY <2>1, SamePointsKeep DEF Stages
<1>6. CASE LoadSink
  <2>1. /\ stage = "sink" /\ Loading /\ pc = "sort"
        /\ \/ stage' = "engine" /\ writeMap' = Route
           \/ stage' = "refused"
        /\ UNCHANGED points
    BY <1>6 DEF LoadSink, ConfigInv, Refuse
  <2>. QED
    BY <2>1, SamePointsKeep DEF Stages
<1>7. CASE RunEngine
  BY <1>7, EngineKeeps
<1>8. CASE UNCHANGED vars
  <2>1. UNCHANGED <<stage, config, writeMap, points>>
    BY <1>8 DEF vars, loadVars, planVars
  <2>2. PlanInv' /\ pc' = pc
    BY <1>8, PlanStep DEF ConfigInv, vars, planVars
  <2>3. \A f, pts, cts : MarkedBy(f, pts, cts)' <=> MarkedBy(f, pts, cts)
    BY <2>1, FirstNamedSame DEF MarkedBy, Marked
  <2>4. PointsMarked'
    BY <2>1, <2>3 DEF ConfigInv, PointsMarked, Declared, Listed
  <2>5. Route' = Route
    BY <2>1, RouteSame
  <2>. QED
    BY <2>1, <2>2, <2>4, <2>5 DEF ConfigInv
<1>. QED
  BY <1>1, <1>2, <1>3, <1>4, <1>5, <1>6, <1>7, <1>8 DEF NextConfig

\* ConfigInv is an invariant of loading a device and of the engine that comes of it.
LEMMA ConfigInvariant == SpecConfig => []ConfigInv
BY ConfigInit, ConfigStep, PTL DEF SpecConfig

\* If names are unique, the point found first under a name is the one of that name.
LEMMA InvMultiplied == ConfigInv => MultipliedAsConfigured
<1>. SUFFICES ASSUME ConfigInv, stage = "engine", NamesUnique
              PROVE  /\ Len(points) = Len(Declared)
                     /\ \A i \in 1 .. Len(points) :
                          /\ points[i].name = Declared[i].name
                          /\ points[i].pt = IF points[i].name \in Listed("pt")
                                              THEN 1 ELSE Declared[i].pt
                          /\ points[i].ct = IF points[i].name \in Listed("ct")
                                              THEN 1 ELSE Declared[i].ct
                     /\ Listed("pt") \cup Listed("ct") \subseteq
                          {points[i].name : i \in 1 .. Len(points)}
  BY DEF MultipliedAsConfigured
<1>1. MarkedBy(Declared, Listed("pt"), Listed("ct")) /\ Len(points) \in Nat
  BY DEF ConfigInv, PointsMarked, PlanInv, PointsShaped
<1>2. \A n \in Listed("pt") \cup Listed("ct") :
        FirstNamed(n) \in 1 .. Len(points) /\ points[FirstNamed(n)].name = n
  BY <1>1, FirstNamedIs DEF MarkedBy
<1>3. \A i \in 1 .. Len(points) : \A n \in Listed("pt") \cup Listed("ct") :
        i = FirstNamed(n) <=> points[i].name = n
  BY <1>2 DEF NamesUnique
<1>4. \A i \in 1 .. Len(points) :
        /\ Marked(i, Listed("pt")) <=> points[i].name \in Listed("pt")
        /\ Marked(i, Listed("ct")) <=> points[i].name \in Listed("ct")
  BY <1>3 DEF Marked
<1>5. Listed("pt") \cup Listed("ct") \subseteq {points[i].name : i \in 1 .. Len(points)}
  BY <1>2
<1>. QED
  BY <1>1, <1>4, <1>5 DEF MarkedBy

\* The first entry of either kind is the first exact one, if there are any and no prefix
\* entry is ahead of one, and the first prefix entry, if there is no exact one.
LEMMA InvRouted == ConfigInv => RoutedByRank
<1>. SUFFICES ASSUME ConfigInv, stage = "engine",
                     ~(\E e \in ExactHits, p \in PrefixHits : p < e)
              PROVE  writeMap = RouteByRank \/ (RouteByRank = None /\ writeMap = SoleMap)
  BY DEF RoutedByRank
<1>. DEFINE hits == ExactHits \cup PrefixHits
<1>1. writeMap = Route
  BY DEF ConfigInv
<1>2. Len(config.tables) \in Nat
  BY ConfigAssumption DEF ConfigInv, ConfigAssumption
<1>3. /\ ExactHits \in SUBSET Nat /\ PrefixHits \in SUBSET Nat
      /\ ExactHits \cup PrefixHits \in SUBSET Nat
  BY DEF ExactHits, PrefixHits
<1>4. hits = {i \in 1 .. Len(config.tables) : Hit(config.tables[i])}
  BY DEF Hit, ExactHits, PrefixHits
<1>5. FirstHit = IF hits # {} THEN Min(hits) ELSE 0
  BY <1>4 DEF FirstHit, SelectInSeq
<1>6. \A T : FirstOf(T) = config.tables[Min(T)].map
  BY DEF FirstOf, Min
<1>7. ASSUME hits # {} PROVE RouteByRank = config.tables[Min(hits)].map /\ Min(hits) # 0
  <2>1. Min(hits) \in hits /\ \A m \in hits : Min(hits) <= m
    BY <1>3, <1>7, LeastNatural
  <2>2. Min(hits) # 0
    BY <2>1 DEF ExactHits, PrefixHits
  <2>3. CASE ExactHits # {}
    <3>. DEFINE a == Min(hits)
                b == Min(ExactHits)
    <3>1. b \in ExactHits /\ \A m \in ExactHits : b <= m
      BY <1>3, <2>3, LeastNatural
    <3>2. a \in hits /\ a <= b
      BY <2>1, <3>1
    <3>3. a \in Nat /\ b \in Nat
      BY <1>3, <3>1, <3>2
    <3>. HIDE DEF a, b
    <3>4. a \in ExactHits
      BY <3>1, <3>2, <3>3
    <3>5. a = b
      BY <3>1, <3>2, <3>3, <3>4
    <3>. QED
      BY <1>6, <2>2, <2>3, <3>5 DEF RouteByRank, a, b
  <2>4. CASE ExactHits = {}
    <3>1. hits = PrefixHits /\ PrefixHits # {}
      BY <1>7, <2>4
    <3>. QED
      BY <1>6, <2>2, <2>4, <3>1 DEF RouteByRank
  <2>. QED
    BY <2>3, <2>4
<1>8. CASE hits # {}
  <2>1. HitMap = config.tables[Min(hits)].map
    BY <1>5, <1>7, <1>8 DEF HitMap
  <2>. QED
    BY <1>1, <1>7, <1>8, <2>1 DEF Route
<1>9. CASE hits = {}
  BY <1>1, <1>5, <1>9 DEF Route, HitMap, RouteByRank
<1>. QED
  BY <1>8, <1>9

------------------------------------------------------------------------------
(* Loading: the theorems.                                                    *)

\* rebuildReadPlan forgets no point and tears none apart: of an engine of a configured
\* device, and of one with any list of points.
THEOREM PlanAlwaysCovers == (Spec => []PlanCovers) /\ (SpecConfig => []PlanCovers)
<1>1. ConfigInv => PlanInv
  BY DEF ConfigInv
<1>. QED
  BY <1>1, InvCovers, PlanInvariant, ConfigInvariant, PTL

\* rebuildReadPlan makes no request too long, and none that takes in an address which
\* belongs to no point.
THEOREM PlanAlwaysReadable == (Spec => []PlanReadable) /\ (SpecConfig => []PlanReadable)
<1>1. ConfigInv => PlanInv
  BY DEF ConfigInv
<1>. QED
  BY <1>1, InvReadable, PlanInvariant, ConfigInvariant, PTL

\* No plan whose requests are as short and ask for nothing but points has fewer of them
\* than the one rebuildReadPlan makes.
THEOREM PlanAlwaysMinimal == (Spec => []PlanMinimal) /\ (SpecConfig => []PlanMinimal)
<1>1. ConfigInv => PlanInv
  BY DEF ConfigInv
<1>. QED
  BY <1>1, InvMinimal, PlanInvariant, ConfigInvariant, PTL

\* Whatever fields, exponents and lists a template and a device have, each point of an engine
\* has the exponents of PT and CT of the field it was made of, but for those the lists name,
\* which are multiplied once (parseFields, applyPtCtNameList).
THEOREM ExponentsAreConfigured == SpecConfig => []MultipliedAsConfigured
BY InvMultiplied, ConfigInvariant, PTL

\* Whatever tables and field maps there are, a device's rows are written by the map the
\* documented order leads to, as long as no prefix entry is ahead of an exact one
\* (loadSinkWriteMap).
THEOREM SinkIsRouted == SpecConfig => []RoutedByRank
BY InvRouted, ConfigInvariant, PTL
=============================================================================
