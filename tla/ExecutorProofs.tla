--------------------------- MODULE ExecutorProofs ---------------------------
(***************************************************************************)
(* Proofs about Executor, for every number of workers and tasks and every  *)
(* configuration: what aggregations answer, why a dependency cannot be     *)
(* read, which models are installed, and what else a task may end with.    *)
(***************************************************************************)
EXTENDS Executor, FiniteSetTheorems, WellFoundedInduction, TLAPS

LEMMA Least ==
    ASSUME NEW S \in SUBSET Nat, S # {}
    PROVE  Min(S) \in S /\ \A y \in S : Min(S) <= y
<1> DEFINE R == {ss \in Nat \X Nat : ss[1] < ss[2]}
<1>1. IsWellFoundedOn(R, Nat)
  BY NatLessThanWellFounded DEF OpToRel
<1> HIDE DEF R
<1>2. PICK x \in S : \A y \in S : ~(<<y, x>> \in R)
  BY <1>1, WFMin, Zenon
<1>3. ASSUME NEW y \in S PROVE x <= y
  <2>1. y \in Nat /\ x \in Nat
    OBVIOUS
  <2>2. ~(<<y, x>> \in R)
    BY <1>2
  <2>3. ~(y < x)
    BY <2>1, <2>2 DEF R
  <2> QED
    BY <2>1, <2>3
<1> QED
  BY <1>3 DEF Min

\* The last element of a set of indices.
LEMMA LastIndex ==
    ASSUME NEW n \in Nat, NEW S \in SUBSET (1..n), n \in S
    PROVE  Max(S) = n
<1>1. \A y \in S : n >= y
  OBVIOUS
<1>2. \A x \in S : (\A y \in S : x >= y) => x = n
  OBVIOUS
<1> QED
  BY <1>1, <1>2 DEF Max

\* Merge applied to the sources one by one, over the subsets of the indices.
Iter(s, S, f) ==
    f = [x \in SUBSET S |-> IF x = {} THEN Unmerged
                            ELSE Merge(f[x \ {Max(x)}], s[Max(x)])]

LEMMA FoldIsIter ==
    ASSUME NEW s, NEW n, DOMAIN s = 1..n, \E f : Iter(s, 1..n, f)
    PROVE  \E f : Iter(s, 1..n, f) /\ reduceAggregationSources(s) = f[1..n]
<1> DEFINE it == CHOOSE f : Iter(s, 1..n, f)
<1>1. Iter(s, 1..n, it)
  OBVIOUS
<1>2. reduceAggregationSources(s) = it[1..n]
  BY DEF reduceAggregationSources, FoldLeft, MapThenFoldSet, Iter
<1> QED
  BY <1>1, <1>2

LEMMA IterStep ==
    ASSUME NEW s, NEW k \in Nat, NEW g, Iter(s, 1..k, g)
    PROVE  \E h : Iter(s, 1..(k + 1), h)
<1> DEFINE h == [x \in SUBSET (1..(k + 1)) |->
                    IF x \in SUBSET (1..k) THEN g[x]
                    ELSE Merge(g[x \ {k + 1}], s[k + 1])]
<1>1. SUBSET (1..k) \subseteq SUBSET (1..(k + 1))
  OBVIOUS
<1>2. ASSUME NEW x \in SUBSET (1..(k + 1))
      PROVE  h[x] = IF x = {} THEN Unmerged ELSE Merge(h[x \ {Max(x)}], s[Max(x)])
  <2>1. CASE x \in SUBSET (1..k)
    <3>1. h[x] = g[x]
      BY <2>1
    <3>2. x \ {Max(x)} \in SUBSET (1..k)
      BY <2>1
    <3>3. h[x \ {Max(x)}] = g[x \ {Max(x)}]
      BY <1>1, <3>2
    <3>4. g[x] = IF x = {} THEN Unmerged ELSE Merge(g[x \ {Max(x)}], s[Max(x)])
      BY <2>1 DEF Iter
    <3> QED
      BY <3>1, <3>3, <3>4
  <2>2. CASE x \notin SUBSET (1..k)
    <3>1. k + 1 \in x
      BY <2>2
    <3>2. Max(x) = k + 1
      BY <3>1, LastIndex
    <3>3. x \ {k + 1} \in SUBSET (1..k)
      OBVIOUS
    <3>4. h[x \ {k + 1}] = g[x \ {k + 1}]
      BY <1>1, <3>3
    <3>5. h[x] = Merge(g[x \ {k + 1}], s[k + 1])
      BY <2>2
    <3> QED
      BY <3>1, <3>2, <3>4, <3>5
  <2> QED
    BY <2>1, <2>2
<1>3. Iter(s, 1..(k + 1), h)
  <2>1. h = [x \in SUBSET (1..(k + 1)) |-> h[x]]
    OBVIOUS
  <2> HIDE DEF h
  <2> QED
    BY <1>2, <2>1 DEF Iter
<1> QED
  BY <1>3

LEMMA IterExists ==
    ASSUME NEW s, NEW n \in Nat
    PROVE  \E f : Iter(s, 1..n, f)
<1> DEFINE Bad == {k \in Nat : ~ \E f : Iter(s, 1..k, f)}
<1>1. SUFFICES ASSUME Bad # {} PROVE FALSE
  OBVIOUS
<1>2. PICK m \in Bad : \A y \in Bad : m <= y
  <2>1. Min(Bad) \in Bad /\ \A y \in Bad : Min(Bad) <= y
    BY <1>1, Least
  <2> QED
    BY <2>1
<1>3. m # 0
  <2> DEFINE h == [x \in SUBSET (1..0) |-> Unmerged]
  <2>1. \A x \in SUBSET (1..0) : x = {}
    OBVIOUS
  <2>2. h = [x \in SUBSET (1..0) |-> IF x = {} THEN Unmerged
                                      ELSE Merge(h[x \ {Max(x)}], s[Max(x)])]
    BY <2>1
  <2>3. Iter(s, 1..0, h)
    BY <2>2 DEF Iter
  <2> QED
    BY <2>3
<1>4. m - 1 \in Nat /\ ~(m <= m - 1) /\ (m - 1) + 1 = m
  BY <1>3
<1>5. PICK g : Iter(s, 1..(m - 1), g)
  BY <1>2, <1>4
<1>6. \E h : Iter(s, 1..((m - 1) + 1), h)
  BY <1>4, <1>5, IterStep
<1> QED
  BY <1>4, <1>6

\* What reduceAggregationSources returns is reached source by source.
LEMMA MergedInOrder ==
    ASSUME NEW s, NEW n \in Nat, DOMAIN s = 1..n
    PROVE  \E m : /\ m[0] = Unmerged
                  /\ \A i \in 1..n : m[i] = Merge(m[i - 1], s[i])
                  /\ reduceAggregationSources(s) = m[n]
<1>1. \E f : Iter(s, 1..n, f)
  BY IterExists
<1>2. PICK f : Iter(s, 1..n, f) /\ reduceAggregationSources(s) = f[1..n]
  BY <1>1, FoldIsIter
<1>3. f[{}] = Unmerged /\ 1..0 = {}
  BY <1>2 DEF Iter
<1>4. ASSUME NEW i \in 1..n PROVE f[1..i] = Merge(f[1..(i - 1)], s[i])
  <2>1. Max(1..i) = i
    BY LastIndex
  <2>2. (1..i) \ {i} = 1..(i - 1)
    OBVIOUS
  <2>3. i \in 1..i /\ \A x \in 1..i : x \in 1..n
    OBVIOUS
  <2>4. 1..i # {} /\ 1..i \in SUBSET (1..n)
    BY <2>3
  <2>5. f[1..i] = Merge(f[(1..i) \ {i}], s[i])
    BY <1>2, <2>1, <2>4 DEF Iter
  <2> QED
    BY <2>2, <2>5
<1> DEFINE m == [i \in 0..n |-> f[1..i]]
<1>5. \A i \in 0..n : m[i] = f[1..i]
  OBVIOUS
<1>6. 0 \in 0..n /\ n \in 0..n /\ \A i \in 1..n : i \in 0..n /\ i - 1 \in 0..n
  OBVIOUS
<1> HIDE DEF m
<1>7. m[0] = Unmerged
  BY <1>3, <1>5, <1>6
<1>8. \A i \in 1..n : m[i] = Merge(m[i - 1], s[i])
  BY <1>4, <1>5, <1>6
<1>9. reduceAggregationSources(s) = m[n]
  BY <1>2, <1>5, <1>6
<1> QED
  BY <1>7, <1>8, <1>9

\* What the first i sources say taken together.
Having(s, i) == {j \in 1..i : s[j].text # 0}
Said(s, i, m) ==
    /\ DOMAIN m = {"text", "conflicts", "provenance"}
    /\ Having(s, i) = {} => m.text = 0
    /\ \A j \in Having(s, i) : (\A k \in Having(s, i) : j <= k) => m.text = s[j].text
    /\ m.provenance = {s[j].dep : j \in Having(s, i)}
    /\ m.conflicts = IF \A j, k \in Having(s, i) : s[j].text = s[k].text THEN {}
                     ELSE {s[j].text : j \in Having(s, i)}

LEMMA SaidFirst ==
    ASSUME NEW s, NEW i \in Nat, NEW m, Said(s, i, m)
    PROVE  /\ m.text = 0 => Having(s, i) = {}
           /\ Having(s, i) # {} => \E j \in Having(s, i) :
                    m.text = s[j].text /\ \A k \in Having(s, i) : j <= k
<1>1. SUFFICES ASSUME Having(s, i) # {}
               PROVE  \E j \in Having(s, i) :
                         /\ m.text = s[j].text /\ s[j].text # 0
                         /\ \A k \in Having(s, i) : j <= k
  OBVIOUS
<1>2. Having(s, i) \in SUBSET Nat
  BY DEF Having
<1>3. PICK j \in Having(s, i) : \A k \in Having(s, i) : j <= k
  <2>1. Min(Having(s, i)) \in Having(s, i) /\ \A k \in Having(s, i) : Min(Having(s, i)) <= k
    BY <1>1, <1>2, Least
  <2> QED
    BY <2>1
<1>4. m.text = s[j].text
  BY <1>3 DEF Said
<1>5. s[j].text # 0
  BY DEF Having
<1> QED
  BY <1>3, <1>4, <1>5

LEMMA MergeSays ==
    ASSUME NEW s, NEW n \in Nat, NEW i \in 1..n, NEW m, Said(s, i - 1, m)
    PROVE  Said(s, i, Merge(m, s[i]))
<1> DEFINE H == Having(s, i - 1)
           v == s[i].text
           mm == Merge(m, s[i])
<1>0. i - 1 \in Nat
  OBVIOUS
<1>1. DOMAIN m = {"text", "conflicts", "provenance"}
  BY DEF Said
<1>2. m.text = 0 => H = {}
  BY <1>0, SaidFirst
<1>3. H # {} => \E j \in H : m.text = s[j].text /\ \A k \in H : j <= k
  BY <1>0, SaidFirst
<1>4. \A j \in H : j \in Nat /\ j <= i - 1 /\ s[j].text # 0
  BY <1>0 DEF Having
<1>5. CASE v = 0
  <2>1. Having(s, i) = H
    BY <1>5 DEF Having
  <2>2. mm = m
    BY <1>5 DEF Merge
  <2> QED
    BY <2>1, <2>2 DEF Said
<1>6. CASE v # 0
  <2>1. Having(s, i) = H \cup {i}
    BY <1>6 DEF Having
  <2>2. /\ DOMAIN mm = {"text", "conflicts", "provenance"}
        /\ mm.text = IF m.text = 0 THEN v ELSE m.text
        /\ mm.conflicts = IF m.text \in {0, v} THEN m.conflicts
                          ELSE m.conflicts \cup {m.text, v}
        /\ mm.provenance = m.provenance \cup {s[i].dep}
    BY <1>6 DEF Merge
  <2> HIDE DEF mm
  <2>3. /\ \A j \in H : (\A k \in H : j <= k) => m.text = s[j].text
        /\ m.provenance = {s[j].dep : j \in H}
        /\ m.conflicts = IF \A j, k \in H : s[j].text = s[k].text THEN {}
                         ELSE {s[j].text : j \in H}
        /\ H = {} => m.text = 0
    BY DEF Said
  <2> HIDE DEF H
  <2>4. mm.provenance = {s[j].dep : j \in H \cup {i}}
    BY <2>2, <2>3
  <2>5. \A j \in H \cup {i} : (\A k \in H \cup {i} : j <= k) => mm.text = s[j].text
    <3>1. CASE H = {}
      BY <3>1, <2>2, <2>3
    <3>2. CASE H # {}
      <4>1. m.text # 0 /\ mm.text = m.text
        BY <3>2, <1>2, <2>2
      <4>2. PICK h \in H : m.text = s[h].text /\ \A k \in H : h <= k
        BY <1>3, <3>2
      <4>3. ~(i <= h)
        BY <1>4
      <4> QED
        BY <2>3, <4>1, <4>2, <4>3
    <3> QED
      BY <3>1, <3>2
  <2>6. mm.conflicts = IF \A j, k \in H \cup {i} : s[j].text = s[k].text THEN {}
                       ELSE {s[j].text : j \in H \cup {i}}
    <3>1. CASE H = {}
      BY <3>1, <2>2, <2>3
    <3>2. CASE H # {}
      <4>1. m.text # 0
        BY <3>2, <1>2
      <4>2. PICK h \in H : m.text = s[h].text
        BY <1>3, <3>2
      <4>3. CASE \A j, k \in H : s[j].text = s[k].text
        <5>1. m.conflicts = {} /\ \A j \in H : s[j].text = m.text
          BY <4>2, <4>3, <2>3
        <5>2. CASE m.text = v
          BY <5>1, <5>2, <2>2
        <5>3. CASE m.text # v
          <6>1. mm.conflicts = {m.text, v}
            BY <5>1, <5>3, <4>1, <2>2
          <6>2. {s[j].text : j \in H \cup {i}} = {m.text, v}
            BY <5>1, <4>2
          <6> QED
            BY <6>1, <6>2, <4>2, <5>3
        <5> QED
          BY <5>2, <5>3
      <4>4. CASE ~ \A j, k \in H : s[j].text = s[k].text
        <5>1. m.conflicts = {s[j].text : j \in H}
          BY <4>4, <2>3
        <5>2. mm.conflicts = {s[j].text : j \in H} \cup {v}
          BY <5>1, <2>2, <4>1, <4>2
        <5> QED
          BY <5>2, <4>4
      <4> QED
        BY <4>3, <4>4
    <3> QED
      BY <3>1, <3>2
  <2>7. Having(s, i) # {}
    BY <2>1
  <2>8. Said(s, i, mm)
    <3> DEFINE G == H \cup {i}
    <3>1. /\ mm.provenance = {s[j].dep : j \in G}
          /\ \A j \in G : (\A k \in G : j <= k) => mm.text = s[j].text
          /\ mm.conflicts = IF \A j, k \in G : s[j].text = s[k].text THEN {}
                            ELSE {s[j].text : j \in G}
      BY <2>4, <2>5, <2>6
    <3>2. Having(s, i) = G
      BY <2>1
    <3> HIDE DEF G
    <3> QED
      BY <2>2, <2>7, <3>1, <3>2 DEF Said
  <2> QED
    BY <2>8 DEF mm
<1> QED
  BY <1>5, <1>6

LEMMA ReducedSays ==
    ASSUME NEW s, NEW n \in Nat, DOMAIN s = 1..n
    PROVE  Said(s, n, reduceAggregationSources(s))
<1>1. PICK m : /\ m[0] = Unmerged
               /\ \A i \in 1..n : m[i] = Merge(m[i - 1], s[i])
               /\ reduceAggregationSources(s) = m[n]
  BY MergedInOrder
<1> DEFINE Bad == {i \in 0..n : ~Said(s, i, m[i])}
<1>2. SUFFICES ASSUME Bad # {} PROVE FALSE
  BY <1>1
<1>3. PICK b \in Bad : \A y \in Bad : b <= y
  <2>1. Bad \in SUBSET Nat
    OBVIOUS
  <2>2. Min(Bad) \in Bad /\ \A y \in Bad : Min(Bad) <= y
    BY <1>2, <2>1, Least
  <2> QED
    BY <2>2
<1>4. b # 0
  <2>1. Having(s, 0) = {}
    BY DEF Having
  <2>2. Said(s, 0, Unmerged)
    BY <2>1 DEF Said, Unmerged
  <2> QED
    BY <1>1, <1>3, <2>2
<1>5. b \in 1..n /\ b - 1 \in 0..n /\ ~(b <= b - 1)
  BY <1>4
<1>6. Said(s, b - 1, m[b - 1])
  BY <1>3, <1>5
<1>7. Said(s, b, Merge(m[b - 1], s[b]))
  BY <1>5, <1>6, MergeSays
<1> QED
  BY <1>1, <1>5, <1>7

\* What AggregationsTrue says of the result of an aggregation.
ReducedTo(sources, m) ==
    LET having == {i \in DOMAIN sources : sources[i].text # 0}
        texts == {sources[i].text : i \in having}
    IN  /\ m.text = IF having = {} THEN 0 ELSE sources[Min(having)].text
        /\ m.provenance = {sources[i].dep : i \in having}
        /\ m.conflicts = IF Cardinality(texts) > 1 THEN texts ELSE {}

LEMMA ReducedTrue ==
    ASSUME NEW s, NEW n \in Nat, DOMAIN s = 1..n, NEW out, out = reduceAggregationSources(s)
    PROVE  ReducedTo(s, out)
<1> DEFINE H == {i \in DOMAIN s : s[i].text # 0}
           texts == {s[i].text : i \in H}
<1>1. Said(s, n, out) /\ Having(s, n) = H
  BY ReducedSays DEF Having
<1>2. IsFiniteSet(texts)
  <2>1. IsFiniteSet(1..n)
    BY FS_Interval
  <2>2. IsFiniteSet(H)
    BY <2>1, FS_Subset
  <2> HIDE DEF H
  <2> DEFINE f == [i \in H |-> s[i].text]
  <2>3. f \in Surjection(H, texts)
    BY DEF Surjection
  <2> QED
    BY <2>2, <2>3, FS_Surjection
<1>3. H # {} => Min(H) \in H /\ \A k \in H : Min(H) <= k
  <2>1. H \in SUBSET Nat
    OBVIOUS
  <2> QED
    BY <2>1, Least
<1> HIDE DEF H
<1>4. out.text = IF H = {} THEN 0 ELSE s[Min(H)].text
  BY <1>1, <1>3 DEF Said
<1>5. out.provenance = {s[i].dep : i \in H}
  BY <1>1 DEF Said
<1>6. ASSUME NEW j \in H, NEW k \in H, s[j].text # s[k].text
      PROVE  Cardinality(texts) > 1
  <2> DEFINE two == {s[j].text, s[k].text}
  <2>1. two \subseteq texts
    OBVIOUS
  <2>2. Cardinality(two) = 2
    <3>1. s[k].text \notin {s[j].text} /\ IsFiniteSet({s[j].text}) /\ Cardinality({s[j].text}) = 1
      BY <1>6, FS_Singleton
    <3>2. Cardinality({s[j].text} \cup {s[k].text}) = Cardinality({s[j].text}) + 1
      BY <3>1, FS_AddElement
    <3>3. two = {s[j].text} \cup {s[k].text}
      OBVIOUS
    <3> QED
      BY <3>1, <3>2, <3>3
  <2> HIDE DEF two
  <2>3. Cardinality(two) <= Cardinality(texts) /\ Cardinality(texts) \in Nat
    BY <1>2, <2>1, FS_Subset, FS_CardinalityType
  <2> QED
    BY <2>2, <2>3
<1>7. ASSUME \A j, k \in H : s[j].text = s[k].text
      PROVE  ~(Cardinality(texts) > 1)
  <2>1. CASE H = {}
    <3>1. texts = {}
      BY <2>1
    <3> HIDE DEF texts
    <3>2. Cardinality({}) = 0
      BY FS_EmptySet
    <3> QED
      BY <3>1, <3>2
  <2>2. CASE H # {}
    <3>1. PICK j \in H : TRUE
      BY <2>2
    <3>2. texts = {s[j].text}
      BY <1>7
    <3> HIDE DEF texts
    <3>3. Cardinality({s[j].text}) = 1
      BY FS_Singleton
    <3> QED
      BY <3>2, <3>3
  <2> QED
    BY <2>1, <2>2
<1>8. out.conflicts = IF Cardinality(texts) > 1 THEN texts ELSE {}
  BY <1>1, <1>6, <1>7 DEF Said
<1> QED
  BY <1>4, <1>5, <1>8, Zenon DEF H, ReducedTo

---------------------------------------------------------------------------
RunFields == {"pc", "task", "attempt", "todo", "tries", "lost", "error", "out"}
OutFields == {"attempt", "text", "sources", "conflicts", "provenance", "model", "excused",
              "ran", "vectors", "hits"}
Sources == Seq([dep : Nat, attempt : Nat, text : Nat])

WorkOf(r) == setup.work[r.task]

\* A running execution as a record.
Shaped(r) ==
    /\ DOMAIN r = RunFields /\ DOMAIN r.out = OutFields
    /\ r.task \in Tasks
    /\ r.todo \subseteq WorkOf(r).deps
    /\ r.out.attempt = r.attempt /\ r.out.text \in Nat /\ r.out.sources \in Sources
    /\ r.pc # "idle"
    /\ r.pc # "report" => r.error = ""

\* What is executed is what the task's type asks for.
Fitting(r) ==
    /\ r.pc \in {"install", "download"} => WorkOf(r).type \in {"model_download", "llm_inference"}
    /\ r.pc = "call" => WorkOf(r).type = "llm_inference"
    /\ r.pc \in {"tool", "command"} => WorkOf(r).type = "tool_execution"
    /\ r.pc \in {"batch", "single"} => WorkOf(r).type = "embedding"
    /\ r.pc = "search" => WorkOf(r).type = "retrieval"
    /\ r.pc = "load" => WorkOf(r).type = "aggregation"

ModelTrue(out) == out.model \in {"none", "elsewhere", "whole"} \/ out.excused

SourceDeps(out) == {s.dep : s \in ToSet(out.sources)}

\* The output of a task of each type.
Answers(work, out) ==
    /\ work.type = "tool_execution" /\ ~out.ran =>
          ~work.command /\ \A t \in catalog.tools : t.id # work.tool
    /\ work.type = "embedding" => out.vectors = work.texts
    /\ work.type = "retrieval" /\ ~work.remote =>
          /\ out.hits \subseteq work.match
          /\ Cardinality(out.hits) < work.topK => out.hits = work.match
    /\ work.type = "aggregation" =>
          /\ work.strict => work.deps \subseteq SourceDeps(out)
          /\ ReducedTo(out.sources, out)

\* What an execution is, whatever others do.
Sound(r) ==
    /\ Shaped(r)
    /\ Fitting(r)
    /\ ModelTrue(r.out)
    /\ r.pc = "load" /\ WorkOf(r).strict => WorkOf(r).deps \subseteq r.todo \cup SourceDeps(r.out)
    /\ r.pc = "write" => Answers(WorkOf(r), r.out)

\* Nothing but the attempt r can have written the file of its task.
Only(r) == attempts[r.task] <= 1

\* What it may rely on of the tasks and of the files.
Placed(w, r) ==
    /\ r.attempt \in Nat /\ r.attempt >= 1 /\ r.attempt <= attempts[r.task]
    /\ done[r.task].attempt # r.attempt
    /\ \A d \in WorkOf(r).deps : done[d] # NoOne
    /\ \A i \in DOMAIN r.out.sources :
          LET s == r.out.sources[i]
          IN  s.dep = 0 \/ (/\ s.dep \in Tasks /\ done[s.dep] # NoOne
                            /\ s.attempt >= 1 /\ s.attempt <= attempts[s.dep])
    /\ r.pc = "fill" /\ Only(r) => file[Root(w)][r.task] = Truncated
    /\ r.pc \in {"upload", "report"} /\ r.error = "" /\ Only(r) =>
          file[Root(w)][r.task] = Whole(r.out)
    /\ r.pc = "report" /\ r.error = "load" =>
          /\ Min(r.todo) \in WorkOf(r).deps
          /\ setup.minio \/ Root(done[Min(r.todo)].worker) # Root(w) \/ Repeated(Min(r.todo))

RunsInv == \A w \in Workers : run[w] = Idle \/ (Sound(run[w]) /\ Placed(w, run[w]))

\* Attempts that run at once are different ones.
AttemptsApart ==
    \A v, w \in Workers :
        v # w /\ run[v] # Idle /\ run[w] # Idle /\ run[v].task = run[w].task =>
            run[v].attempt # run[w].attempt

DoneInv ==
    \A t \in Tasks :
        /\ attempts[t] \in Nat
        /\ DOMAIN done[t] = {"worker", "attempt"}
        /\ done[t] # NoOne => /\ done[t].worker \in Workers
                              /\ done[t].attempt \in Nat
                              /\ done[t].attempt >= 1 /\ done[t].attempt <= attempts[t]

\* A task completed by its only attempt has its artifact where that attempt ran.
FilesInv ==
    /\ \A r \in Roots, t \in Tasks :
          /\ DOMAIN file[r][t] = {"state", "attempt", "text"}
          /\ file[r][t].text \in Nat /\ file[r][t].attempt \in Nat
          /\ file[r][t].state = "whole" => /\ file[r][t].attempt >= 1
                                           /\ file[r][t].attempt <= attempts[t]
    /\ \A t \in Tasks : done[t] # NoOne /\ attempts[t] <= 1 =>
          file[Root(done[t].worker)][t].state = "whole"

Domains ==
    /\ setup \in Setups
    /\ DOMAIN run = Workers /\ DOMAIN attempts = Tasks /\ DOMAIN done = Tasks
    /\ DOMAIN file = Roots /\ (\A r \in Roots : DOMAIN file[r] = Tasks)
    /\ DOMAIN model = Roots

\* A model that is partly there has a download at work on it, or one that stopped.
ModelsInv ==
    \A r \in Roots : model[r] = "partial" =>
        r \in stopped \/ \E v \in Workers : At(v, "download") /\ Root(v) = r

Inv == Domains /\ RunsInv /\ AttemptsApart /\ DoneInv /\ FilesInv /\ ModelsInv
---------------------------------------------------------------------------
\* An execution that goes on, as r2, still has what it relies on.
Moves(w, r2) ==
    /\ Sound(r2) /\ Placed(w, r2)
    /\ r2.task = run[w].task /\ r2.attempt = run[w].attempt

Runs(w) == w \in Workers /\ Sound(run[w]) /\ Placed(w, run[w])

LEMMA EmptySource ==
    <<>> \in Sources /\ DOMAIN <<>> = {} /\ ToSet(<<>>) = {}
BY DEF Sources, ToSet

LEMMA Shapes ==
    ASSUME NEW w, Runs(w)
    PROVE  /\ DOMAIN run[w] = RunFields /\ DOMAIN run[w].out = OutFields
           /\ run[w].task \in Tasks /\ run[w].attempt \in Nat
           /\ run[w].out.attempt = run[w].attempt
           /\ run[w].out.text \in Nat /\ run[w].out.sources \in Sources
BY DEF Runs, Sound, Shaped, Placed

LEMMA Fails ==
    ASSUME NEW w, Runs(w), NEW e, e # "", e # "load"
    PROVE  Moves(w, [run[w] EXCEPT !.pc = "report", !.error = e])
<1> DEFINE r == run[w]
           r2 == [r EXCEPT !.pc = "report", !.error = e]
<1>0. Sound(r) /\ Placed(w, r) /\ DOMAIN r = RunFields
  BY DEF Runs, Sound, Shaped
<1>1. /\ DOMAIN r2 = RunFields /\ r2.pc = "report" /\ r2.error = e
      /\ r2.task = r.task /\ r2.attempt = r.attempt /\ r2.todo = r.todo /\ r2.out = r.out
  BY <1>0 DEF RunFields
<1> HIDE DEF r, r2
<1>2. Shaped(r2)
  BY <1>0, <1>1 DEF Sound, Shaped, WorkOf
<1>3. Sound(r2)
  BY <1>0, <1>1, <1>2 DEF Sound, Fitting
<1>4. Placed(w, r2)
  BY <1>0, <1>1 DEF Placed, WorkOf
<1> QED
  BY <1>1, <1>3, <1>4 DEF Moves, r, r2

LEMMA Finishes ==
    ASSUME NEW w, Runs(w), run[w].pc # "report", NEW out,
           DOMAIN out = OutFields, out.attempt = run[w].attempt, out.text \in Nat,
           out.sources = <<>> \/ out.sources = run[w].out.sources,
           ModelTrue(out), Answers(Work(w), out)
    PROVE  Moves(w, [run[w] EXCEPT !.pc = "write", !.out = out])
<1> DEFINE r == run[w]
           r2 == [r EXCEPT !.pc = "write", !.out = out]
<1>0. Sound(r) /\ Placed(w, r) /\ DOMAIN r = RunFields /\ r.error = ""
  BY DEF Runs, Sound, Shaped
<1>1. /\ DOMAIN r2 = RunFields /\ r2.pc = "write" /\ r2.error = ""
      /\ r2.task = r.task /\ r2.attempt = r.attempt /\ r2.todo = r.todo /\ r2.out = out
  BY <1>0 DEF RunFields
<1>2. out.sources \in Sources
  BY <1>0, EmptySource DEF Sound, Shaped
<1>3. Answers(WorkOf(r2), out)
  BY <1>1 DEF Work, WorkOf
<1>4. out.attempt = r.attempt /\ (out.sources = <<>> \/ out.sources = r.out.sources)
  OBVIOUS
<1> HIDE DEF r, r2
<1>5. Shaped(r2)
  BY <1>0, <1>1, <1>2, <1>4 DEF Sound, Shaped, WorkOf
<1>6. Sound(r2)
  BY <1>0, <1>1, <1>3, <1>5 DEF Sound, Fitting
<1>7. Placed(w, r2)
  <2>1. \A i \in DOMAIN out.sources : i \in DOMAIN r.out.sources /\ out.sources[i] = r.out.sources[i]
    BY <1>4, EmptySource
  <2> QED
    BY <1>0, <1>1, <2>1 DEF Placed, WorkOf
<1> QED
  BY <1>1, <1>6, <1>7 DEF Moves, r, r2

\* To another program counter, perhaps with another output.
LEMMA GoesOn ==
    ASSUME NEW w, Runs(w), run[w].pc # "report",
           NEW p \in {"install", "download", "call", "command", "single", "batch", "search", "stuck"},
           NEW r2,
           /\ DOMAIN r2 = RunFields /\ r2.pc = p /\ r2.error = run[w].error
           /\ r2.task = run[w].task /\ r2.attempt = run[w].attempt /\ r2.todo = run[w].todo,
           Fitting(r2), 
           /\ DOMAIN r2.out = OutFields /\ r2.out.attempt = run[w].attempt
           /\ r2.out.text \in Nat
           /\ r2.out.sources = <<>> \/ r2.out.sources = run[w].out.sources,
           ModelTrue(r2.out)
    PROVE  Moves(w, r2)
<1> DEFINE r == run[w]
<1>0. Sound(r) /\ Placed(w, r) /\ DOMAIN r = RunFields /\ r.error = ""
  BY DEF Runs, Sound, Shaped
<1>1. /\ DOMAIN r2 = RunFields /\ r2.pc = p /\ r2.error = ""
      /\ r2.task = r.task /\ r2.attempt = r.attempt /\ r2.todo = r.todo
  BY <1>0
<1>2. r2.out.sources \in Sources
  BY <1>0, EmptySource DEF Sound, Shaped
<1>4. r2.out.attempt = r.attempt /\ (r2.out.sources = <<>> \/ r2.out.sources = r.out.sources)
  OBVIOUS
<1> HIDE DEF r
<1>5. Shaped(r2)
  BY <1>0, <1>1, <1>2, <1>4 DEF Sound, Shaped, WorkOf
<1>6. Sound(r2)
  BY <1>0, <1>1, <1>5 DEF Sound
<1>7. Placed(w, r2)
  <2>1. \A i \in DOMAIN r2.out.sources :
            i \in DOMAIN r.out.sources /\ r2.out.sources[i] = r.out.sources[i]
    BY <1>4, EmptySource
  <2> QED
    BY <1>0, <1>1, <2>1 DEF Placed, WorkOf
<1> QED
  BY <1>1, <1>6, <1>7 DEF Moves, r

LEMMA OutputFacts ==
    ASSUME NEW w
    PROVE  LET out == OutputOf(w)
           IN  /\ DOMAIN out = OutFields /\ out.attempt = run[w].attempt /\ out.text = 0
               /\ out.sources = <<>> /\ out.model = "none" /\ out.ran = FALSE
               /\ out.conflicts = {} /\ out.provenance = {} /\ out.excused = FALSE
               /\ out.vectors = 0 /\ out.hits = {}
BY DEF OutputOf, NoOutput, OutFields

---------------------------------------------------------------------------
(* Steps that change nothing but the execution itself. *)

Local(w) ==
    \E r2 : /\ r2 = Idle \/ Moves(w, r2)
            /\ run' = [run EXCEPT ![w] = r2]
            /\ UNCHANGED <<setup, attempts, done, file>>

LEMMA Running ==
    ASSUME RunsInv, NEW w \in Workers, NEW pc, At(w, pc), pc # "idle"
    PROVE  Runs(w) /\ run[w].pc = pc /\ run[w] # Idle
BY DEF RunsInv, Runs, At, Idle

LEMMA LocalKeeps ==
    ASSUME Inv, NEW w \in Workers, run[w] # Idle, Local(w)
    PROVE  RunsInv' /\ AttemptsApart' /\ DoneInv' /\ FilesInv'
<1>1. PICK r2 : /\ r2 = Idle \/ Moves(w, r2)
                /\ run' = [run EXCEPT ![w] = r2]
                /\ UNCHANGED <<setup, attempts, done, file>>
  BY DEF Local
<1>2. /\ DOMAIN run = Workers /\ run'[w] = r2
      /\ \A v \in Workers : v # w => run'[v] = run[v]
  BY <1>1 DEF Inv, Domains
<1>3. ASSUME NEW r, Sound(r) PROVE Sound(r)'
  BY <1>1, <1>3 DEF Sound, Shaped, Fitting, WorkOf, Answers, catalog
<1>4. ASSUME NEW v, NEW r, Placed(v, r) PROVE Placed(v, r)'
  BY <1>1, <1>4 DEF Placed, WorkOf, Only, Root, Repeated
<1>5. RunsInv'
  <2> SUFFICES ASSUME NEW v \in Workers
               PROVE  run'[v] = Idle \/ (Sound(run[v])' /\ Placed(v, run[v])')
    BY DEF RunsInv
  <2>1. CASE v = w
    <3>1. CASE r2 = Idle
      BY <1>2, <2>1, <3>1
    <3>2. CASE Moves(w, r2)
      <4>1. Sound(r2)' /\ Placed(w, r2)'
        BY <1>3, <1>4, <3>2 DEF Moves
      <4> QED
        BY <1>2, <2>1, <4>1
    <3> QED
      BY <1>1, <3>1, <3>2
  <2>2. CASE v # w
    <3>1. PICK r : r = run[v]
      OBVIOUS
    <3>2. CASE r = Idle
      BY <1>2, <2>2, <3>1, <3>2
    <3>3. CASE r # Idle
      <4>1. Sound(r) /\ Placed(v, r)
        BY <3>1, <3>3 DEF Inv, RunsInv
      <4>2. Sound(r)' /\ Placed(v, r)'
        BY <1>3, <1>4, <4>1
      <4>3. run'[v] = r
        BY <1>2, <2>2, <3>1
      <4> QED
        BY <4>2, <4>3
    <3> QED
      BY <3>2, <3>3
  <2> QED
    BY <2>1, <2>2
<1>6. AttemptsApart'
  <2>1. ASSUME r2 # Idle PROVE r2.task = run[w].task /\ r2.attempt = run[w].attempt
    BY <1>1, <2>1 DEF Moves
  <2> QED
    BY <1>2, <2>1 DEF AttemptsApart, Inv
<1>7. DoneInv'
  BY <1>1 DEF DoneInv, Inv
<1>8. FilesInv'
  BY <1>1 DEF FilesInv, Inv, Root
<1> QED
  BY <1>5, <1>6, <1>7, <1>8

LEMMA FailLocal ==
    ASSUME NEW w, Runs(w), NEW e, e # "", e # "load", Fail(w, e),
           UNCHANGED <<setup, attempts, done, file>>
    PROVE  Local(w)
<1>1. PICK r2 : r2 = [run[w] EXCEPT !.pc = "report", !.error = e]
  OBVIOUS
<1>2. Moves(w, r2)
  BY <1>1, Fails
<1>3. run' = [run EXCEPT ![w] = r2]
  BY <1>1 DEF Fail, Goto
<1> QED
  BY <1>2, <1>3 DEF Local

LEMMA FinishLocal ==
    ASSUME NEW w, Runs(w), run[w].pc # "report", NEW out,
           DOMAIN out = OutFields, out.attempt = run[w].attempt, out.text \in Nat,
           out.sources = <<>> \/ out.sources = run[w].out.sources,
           ModelTrue(out), Answers(Work(w), out), Finish(w, out),
           UNCHANGED <<setup, attempts, done, file>>
    PROVE  Local(w)
<1>1. PICK r2 : r2 = [run[w] EXCEPT !.pc = "write", !.out = out]
  OBVIOUS
<1>2. Moves(w, r2)
  BY <1>1, Finishes
<1>3. run' = [run EXCEPT ![w] = r2]
  BY <1>1 DEF Finish, Goto
<1> QED
  BY <1>2, <1>3 DEF Local

LEMMA GoLocal ==
    ASSUME NEW w, Runs(w), run[w].pc # "report",
           NEW p \in {"install", "download", "call", "command", "single", "batch", "search", "stuck"},
           NEW r2,
           /\ DOMAIN r2 = RunFields /\ r2.pc = p /\ r2.error = run[w].error
           /\ r2.task = run[w].task /\ r2.attempt = run[w].attempt /\ r2.todo = run[w].todo,
           Fitting(r2),
           /\ DOMAIN r2.out = OutFields /\ r2.out.attempt = run[w].attempt
           /\ r2.out.text \in Nat
           /\ r2.out.sources = <<>> \/ r2.out.sources = run[w].out.sources,
           ModelTrue(r2.out), Goto(w, r2), UNCHANGED <<setup, attempts, done, file>>
    PROVE  Local(w)
<1>1. Moves(w, r2)
  BY GoesOn
<1> QED
  BY <1>1 DEF Local, Goto

LEMMA InstalledLocal ==
    ASSUME NEW w, Runs(w), run[w].pc \in {"install", "download"}, NEW state,
           state \in {"elsewhere", "whole"} \/ Disturbed(w),
           Installed(w, state), UNCHANGED <<setup, attempts, done, file>>
    PROVE  Local(w)
<1>1. PICK out : out = [OutputOf(w) EXCEPT !.model = state, !.excused = Disturbed(w)]
  OBVIOUS
<1>2. /\ DOMAIN out = OutFields /\ out.attempt = run[w].attempt /\ out.text = 0
      /\ out.sources = <<>> /\ out.model = state /\ out.excused = Disturbed(w)
  BY <1>1, OutputFacts DEF OutFields
<1>3. ModelTrue(out) /\ out.text \in Nat
  BY <1>2 DEF ModelTrue
<1>4. Work(w).type \in {"model_download", "llm_inference"}
  BY DEF Runs, Sound, Fitting, Work, WorkOf
<1>5. CASE Work(w).type = "model_download"
  <2>1. Finish(w, out)
    BY <1>1, <1>5 DEF Installed
  <2>2. Answers(Work(w), out)
    BY <1>5 DEF Answers
  <2>3. run[w].pc # "report"
    OBVIOUS
  <2> QED
    BY <1>2, <1>3, <2>1, <2>2, <2>3, FinishLocal
<1>6. CASE Work(w).type # "model_download"
  <2>1. PICK r2 : r2 = [run[w] EXCEPT !.pc = "call", !.out = out]
    OBVIOUS
  <2>2. Goto(w, r2)
    BY <1>1, <1>6, <2>1 DEF Installed
  <2>3. DOMAIN run[w] = RunFields
    BY Shapes
  <2>4. /\ DOMAIN r2 = RunFields /\ r2.pc = "call" /\ r2.error = run[w].error
        /\ r2.task = run[w].task /\ r2.attempt = run[w].attempt /\ r2.todo = run[w].todo
        /\ r2.out = out
    BY <2>1, <2>3 DEF RunFields
  <2>5. WorkOf(r2).type = "llm_inference"
    BY <1>4, <1>6, <2>4 DEF Work, WorkOf
  <2>6. Fitting(r2)
    BY <2>4, <2>5 DEF Fitting
  <2>7. run[w].pc # "report" /\ "call" \in {"install", "download", "call", "command", "single",
                                            "batch", "search", "stuck"}
    OBVIOUS
  <2> QED
    BY <1>2, <1>3, <2>2, <2>4, <2>6, <2>7, GoLocal
<1> QED
  BY <1>5, <1>6

\* A jump that keeps everything but pc and tries.
LEMMA JumpLocal ==
    ASSUME NEW w, Runs(w), run[w].pc # "report",
           NEW p \in {"install", "download", "call", "command", "single", "batch", "search", "stuck"},
           NEW r2, DOMAIN r2 = RunFields, r2.pc = p,
           \A x \in RunFields : x \notin {"pc", "tries"} => r2[x] = run[w][x],
           Fitting(r2), Goto(w, r2), UNCHANGED <<setup, attempts, done, file>>
    PROVE  Local(w)
<1>1. /\ r2.error = run[w].error /\ r2.task = run[w].task /\ r2.attempt = run[w].attempt
      /\ r2.todo = run[w].todo /\ r2.out = run[w].out
  BY DEF RunFields
<1>2. ModelTrue(r2.out)
  BY <1>1 DEF Runs, Sound
<1> QED
  BY <1>1, <1>2, Shapes, GoLocal

LEMMA UnsupportedLocal ==
    ASSUME Inv, NEW w \in Workers, Unsupported(w)
    PROVE  run[w] # Idle /\ Local(w)
<1>1. Runs(w) /\ run[w] # Idle
  BY Running DEF Unsupported, Inv
<1> QED
  BY <1>1, FailLocal DEF Unsupported, engine

LEMMA CrashLocal ==
    ASSUME Inv, NEW w \in Workers, Crash(w)
    PROVE  run[w] # Idle /\ Local(w)
<1>1. run[w] # Idle
  BY DEF Crash, At, Idle
<1> QED
  BY <1>1 DEF Crash, Local, Goto, engine

LEMMA InstallElsewhereLocal ==
    ASSUME Inv, NEW w \in Workers, InstallElsewhere(w)
    PROVE  run[w] # Idle /\ Local(w)
<1>1. Runs(w) /\ run[w].pc = "install" /\ run[w] # Idle
  BY Running DEF InstallElsewhere, Inv
<1>2. UNCHANGED <<setup, attempts, done, file>>
  BY DEF InstallElsewhere, engine
<1>3. CASE Installed(w, "elsewhere")
  BY <1>1, <1>2, <1>3, InstalledLocal
<1>4. CASE Fail(w, "install")
  BY <1>1, <1>2, <1>4, FailLocal
<1> QED
  BY <1>1, <1>3, <1>4 DEF InstallElsewhere

LEMMA RootsKnown ==
    ASSUME NEW w \in Workers
    PROVE  Root(w) \in Roots
BY DEF Root, Roots

LEMMA InstallFoundLocal ==
    ASSUME Inv, NEW w \in Workers, InstallFound(w)
    PROVE  run[w] # Idle /\ Local(w)
<1>1. Runs(w) /\ run[w].pc = "install" /\ run[w] # Idle
  BY Running DEF InstallFound, Inv
<1>2. UNCHANGED <<setup, attempts, done, file>>
  BY DEF InstallFound, engine
<1>3. PICK state : state = model[Root(w)]
  OBVIOUS
<1>4. state \in {"partial", "whole"} /\ Installed(w, state)
  BY <1>3 DEF InstallFound, dirHasContents
<1>5. ASSUME state = "partial" PROVE Disturbed(w)
  <2>1. Root(w) \in stopped \/ \E v \in Workers : At(v, "download") /\ Root(v) = Root(w)
    BY <1>3, <1>5, RootsKnown DEF Inv, ModelsInv
  <2>2. ~At(w, "download")
    BY <1>1 DEF At
  <2> QED
    BY <2>1, <2>2 DEF Disturbed
<1> QED
  BY <1>1, <1>2, <1>4, <1>5, InstalledLocal

LEMMA DownloadEndsLocal ==
    ASSUME Inv, NEW w \in Workers, DownloadEnds(w)
    PROVE  run[w] # Idle /\ Local(w)
<1>1. Runs(w) /\ run[w].pc = "download" /\ run[w] # Idle
  BY Running DEF DownloadEnds, Inv
<1>2. UNCHANGED <<setup, attempts, done, file>>
  BY DEF DownloadEnds, engine
<1>3. PICK state : state = model'[Root(w)]
  OBVIOUS
<1>4. Installed(w, state)
  BY <1>3 DEF DownloadEnds
<1>5. DOMAIN model = Roots
  BY DEF Inv, Domains
<1>6. state = "whole" \/ run[w].lost
  BY <1>3, <1>5, RootsKnown DEF DownloadEnds
<1>7. state \in {"elsewhere", "whole"} \/ Disturbed(w)
  BY <1>6 DEF Disturbed
<1> QED
  BY <1>1, <1>2, <1>4, <1>7, InstalledLocal

LEMMA DownloadFailsLocal ==
    ASSUME Inv, NEW w \in Workers, DownloadFails(w)
    PROVE  run[w] # Idle /\ Local(w)
<1>1. Runs(w) /\ run[w] # Idle
  BY Running DEF DownloadFails, Inv
<1> QED
  BY <1>1, FailLocal DEF DownloadFails, engine

LEMMA HangLocal ==
    ASSUME NEW w, Runs(w), run[w].pc # "report",
           Goto(w, [run[w] EXCEPT !.pc = "stuck"]), UNCHANGED <<setup, attempts, done, file>>
    PROVE  Local(w)
<1>1. PICK r2 : r2 = [run[w] EXCEPT !.pc = "stuck"]
  OBVIOUS
<1>2. DOMAIN run[w] = RunFields
  BY Shapes
<1>3. /\ DOMAIN r2 = RunFields /\ r2.pc = "stuck"
      /\ \A x \in RunFields : x \notin {"pc", "tries"} => r2[x] = run[w][x]
  BY <1>1, <1>2 DEF RunFields
<1>4. Fitting(r2)
  BY <1>3 DEF Fitting
<1>5. Goto(w, r2)
  BY <1>1
<1> QED
  BY <1>3, <1>4, <1>5, JumpLocal

LEMMA HangsLocal ==
    ASSUME Inv, NEW w \in Workers, DownloadHangs(w) \/ ToolHangs(w)
    PROVE  run[w] # Idle /\ Local(w)
<1>1. Runs(w) /\ run[w].pc \in {"download", "command"} /\ run[w] # Idle
  BY Running DEF DownloadHangs, ToolHangs, Inv
<1> QED
  BY <1>1, HangLocal DEF DownloadHangs, ToolHangs, engine

LEMMA WorkFacts ==
    ASSUME Inv, NEW w, Runs(w)
    PROVE  /\ Work(w).prints \subseteq Nat /\ Work(w).deps \subseteq Tasks /\ Tasks \subseteq Nat
           /\ IsFiniteSet(Work(w).match) /\ Work(w).topK \in Nat
<1>1. setup \in Setups /\ run[w].task \in Tasks
  BY Shapes DEF Inv, Domains
<1> QED
  BY <1>1, InstanceAssumption DEF Work

LEMMA CallLocal ==
    ASSUME Inv, NEW w \in Workers, Call(w)
    PROVE  run[w] # Idle /\ Local(w)
<1>1. Runs(w) /\ run[w].pc = "call" /\ run[w] # Idle
  BY Running DEF Call, Inv
<1>2. UNCHANGED <<setup, attempts, done, file>>
  BY DEF Call, engine
<1>3. ASSUME NEW v \in Work(w).prints \ {0}, Finish(w, [run[w].out EXCEPT !.text = v])
      PROVE  Local(w)
  <2>1. PICK out : out = [run[w].out EXCEPT !.text = v]
    OBVIOUS
  <2>2. DOMAIN run[w].out = OutFields /\ run[w].out.attempt = run[w].attempt
    BY <1>1, Shapes
  <2>3. /\ DOMAIN out = OutFields /\ out.attempt = run[w].attempt /\ out.text = v
        /\ out.sources = run[w].out.sources /\ out.model = run[w].out.model
        /\ out.excused = run[w].out.excused
    BY <2>1, <2>2 DEF OutFields
  <2>4. v \in Nat
    BY <1>1, WorkFacts
  <2>5. ModelTrue(out)
    BY <1>1, <2>3 DEF Runs, Sound, ModelTrue
  <2>6. Work(w).type = "llm_inference"
    BY <1>1 DEF Runs, Sound, Fitting, Work, WorkOf
  <2>7. Answers(Work(w), out)
    BY <2>6 DEF Answers
  <2>8. Finish(w, out) /\ run[w].pc # "report"
    BY <1>1, <1>3, <2>1
  <2> QED
    BY <1>1, <1>2, <2>3, <2>4, <2>5, <2>7, <2>8, FinishLocal
<1>4. CASE Fail(w, "backend")
  BY <1>1, <1>2, <1>4, FailLocal
<1> QED
  BY <1>1, <1>3, <1>4 DEF Call

LEMMA ToolUndefinedLocal ==
    ASSUME Inv, NEW w \in Workers, ToolUndefined(w)
    PROVE  run[w] # Idle /\ Local(w)
<1>1. Runs(w) /\ run[w].pc = "tool" /\ run[w] # Idle
  BY Running DEF ToolUndefined, Inv
<1>2. PICK out : out = OutputOf(w)
  OBVIOUS
<1>3. /\ DOMAIN out = OutFields /\ out.attempt = run[w].attempt /\ out.text = 0
      /\ out.sources = <<>> /\ out.model = "none"
  BY <1>2, OutputFacts
<1>4. Work(w).type = "tool_execution"
  BY <1>1 DEF Runs, Sound, Fitting, Work, WorkOf
<1>5. ~Work(w).command /\ \A t \in catalog.tools : t.id # Work(w).tool
  BY DEF ToolUndefined, Resolve
<1>6. Answers(Work(w), out)
  BY <1>4, <1>5 DEF Answers
<1>7. ModelTrue(out)
  BY <1>3 DEF ModelTrue
<1>8. Finish(w, out) /\ run[w].pc # "report" /\ UNCHANGED <<setup, attempts, done, file>>
  BY <1>1, <1>2 DEF ToolUndefined, engine
<1>9. out.text \in Nat
  BY <1>3
<1> QED
  BY <1>1, <1>3, <1>6, <1>7, <1>8, <1>9, FinishLocal

LEMMA ToolBeginLocal ==
    ASSUME Inv, NEW w \in Workers, ToolBegin(w)
    PROVE  run[w] # Idle /\ Local(w)
<1>1. Runs(w) /\ run[w].pc = "tool" /\ run[w] # Idle
  BY Running DEF ToolBegin, Inv
<1>2. UNCHANGED <<setup, attempts, done, file>>
  BY DEF ToolBegin, engine
<1>3. CASE Goto(w, [run[w] EXCEPT !.pc = "command"])
  <2>1. PICK r2 : r2 = [run[w] EXCEPT !.pc = "command"]
    OBVIOUS
  <2>2. DOMAIN run[w] = RunFields
    BY <1>1, Shapes
  <2>3. /\ DOMAIN r2 = RunFields /\ r2.pc = "command"
        /\ \A x \in RunFields : x \notin {"pc", "tries"} => r2[x] = run[w][x]
        /\ r2.task = run[w].task
    BY <2>1, <2>2 DEF RunFields
  <2>4. WorkOf(r2).type = "tool_execution"
    BY <1>1, <2>3 DEF Runs, Sound, Fitting, WorkOf
  <2>5. Fitting(r2)
    BY <2>3, <2>4 DEF Fitting
  <2>6. Goto(w, r2)
    BY <1>3, <2>1
  <2>7. run[w].pc # "report"
    BY <1>1
  <2> QED
    BY <1>1, <1>2, <2>3, <2>5, <2>6, <2>7, JumpLocal
<1>4. CASE Fail(w, "inline") \/ Fail(w, "render")
  BY <1>1, <1>2, <1>4, FailLocal
<1> QED
  BY <1>1, <1>3, <1>4 DEF ToolBegin

LEMMA ToolEndsLocal ==
    ASSUME Inv, NEW w \in Workers, ToolEnds(w)
    PROVE  run[w] # Idle /\ Local(w)
<1>1. Runs(w) /\ run[w].pc = "command" /\ run[w] # Idle
  BY Running DEF ToolEnds, Inv
<1>2. UNCHANGED <<setup, attempts, done, file>>
  BY DEF ToolEnds, engine
<1>3. ASSUME NEW v \in Work(w).prints, Finish(w, [OutputOf(w) EXCEPT !.text = v, !.ran = TRUE])
      PROVE  Local(w)
  <2>1. PICK out : out = [OutputOf(w) EXCEPT !.text = v, !.ran = TRUE]
    OBVIOUS
  <2>2. /\ DOMAIN out = OutFields /\ out.attempt = run[w].attempt /\ out.text = v
        /\ out.sources = <<>> /\ out.model = "none" /\ out.ran = TRUE
    BY <2>1, OutputFacts DEF OutFields
  <2>3. v \in Nat
    BY <1>1, WorkFacts
  <2>4. Work(w).type = "tool_execution"
    BY <1>1 DEF Runs, Sound, Fitting, Work, WorkOf
  <2>5. Answers(Work(w), out)
    BY <2>2, <2>4 DEF Answers
  <2>6. ModelTrue(out)
    BY <2>2 DEF ModelTrue
  <2>7. Finish(w, out) /\ run[w].pc # "report"
    BY <1>1, <1>3, <2>1
  <2> QED
    BY <1>1, <1>2, <2>2, <2>3, <2>5, <2>6, <2>7, FinishLocal
<1>4. CASE Fail(w, "command")
  BY <1>1, <1>2, <1>4, FailLocal
<1> QED
  BY <1>1, <1>3, <1>4 DEF ToolEnds

---------------------------------------------------------------------------
(* Embeddings and retrievals. *)

LEMMA AgainLocal ==
    ASSUME NEW w, Runs(w), NEW p \in {"batch", "single", "search"}, run[w].pc = p,
           Goto(w, [run[w] EXCEPT !.tries = @ + 1]),
           UNCHANGED <<setup, attempts, done, file>>
    PROVE  Local(w)
<1>1. PICK r2 : r2 = [run[w] EXCEPT !.tries = @ + 1]
  OBVIOUS
<1>2. DOMAIN run[w] = RunFields
  BY Shapes
<1>3. /\ DOMAIN r2 = RunFields /\ r2.pc = p
      /\ \A x \in RunFields : x \notin {"pc", "tries"} => r2[x] = run[w][x]
      /\ r2.task = run[w].task
  BY <1>1, <1>2 DEF RunFields
<1>4. Fitting(r2)
  BY <1>3 DEF Fitting, Runs, Sound, WorkOf
<1>5. Goto(w, r2)
  BY <1>1
<1>6. run[w].pc # "report" /\ p \in {"install", "download", "call", "command", "single",
                                     "batch", "search", "stuck"}
  OBVIOUS
<1> QED
  BY <1>3, <1>4, <1>5, <1>6, JumpLocal

LEMMA OneByOneLocal ==
    ASSUME NEW w, Runs(w), run[w].pc = "batch", OneByOne(w),
           UNCHANGED <<setup, attempts, done, file>>
    PROVE  Local(w)
<1>1. PICK r2 : r2 = [run[w] EXCEPT !.pc = "single", !.tries = 0]
  OBVIOUS
<1>2. DOMAIN run[w] = RunFields
  BY Shapes
<1>3. /\ DOMAIN r2 = RunFields /\ r2.pc = "single"
      /\ \A x \in RunFields : x \notin {"pc", "tries"} => r2[x] = run[w][x]
      /\ r2.task = run[w].task
  BY <1>1, <1>2 DEF RunFields
<1>4. Fitting(r2)
  BY <1>3 DEF Fitting, Runs, Sound, WorkOf
<1>5. Goto(w, r2)
  BY <1>1 DEF OneByOne
<1>6. run[w].pc # "report"
  OBVIOUS
<1> QED
  BY <1>3, <1>4, <1>5, <1>6, JumpLocal

LEMMA EmbeddedLocal ==
    ASSUME NEW w, Runs(w), run[w].pc \in {"batch", "single"}, NEW n, n = Work(w).texts,
           Finish(w, Embedded(w, n)), UNCHANGED <<setup, attempts, done, file>>
    PROVE  Local(w)
<1>1. PICK out : out = Embedded(w, n)
  OBVIOUS
<1>2. /\ DOMAIN out = OutFields /\ out.attempt = run[w].attempt /\ out.text = 0
      /\ out.sources = <<>> /\ out.model = "none" /\ out.vectors = n
  BY <1>1, OutputFacts DEF Embedded, OutFields
<1>3. Work(w).type = "embedding"
  BY DEF Runs, Sound, Fitting, Work, WorkOf
<1>4. Answers(Work(w), out)
  BY <1>2, <1>3 DEF Answers
<1>5. ModelTrue(out) /\ out.text \in Nat
  BY <1>2 DEF ModelTrue
<1>6. Finish(w, out) /\ run[w].pc # "report"
  BY <1>1
<1> QED
  BY <1>2, <1>4, <1>5, <1>6, FinishLocal

LEMMA EmbedBatchLocal ==
    ASSUME Inv, NEW w \in Workers, EmbedBatch(w)
    PROVE  run[w] # Idle /\ Local(w)
<1>1. Runs(w) /\ run[w].pc = "batch" /\ run[w] # Idle
  BY Running DEF EmbedBatch, Inv
<1>2. UNCHANGED <<setup, attempts, done, file>>
  BY DEF EmbedBatch, engine
<1>3. PICK n : n = Work(w).texts
  OBVIOUS
<1>4. \/ Finish(w, Embedded(w, n))
      \/ Fail(w, "embed")
      \/ OneByOne(w)
      \/ Goto(w, [run[w] EXCEPT !.tries = @ + 1])
  BY <1>3 DEF EmbedBatch, Again
<1>5. CASE Finish(w, Embedded(w, n))
  BY <1>1, <1>2, <1>3, <1>5, EmbeddedLocal
<1>6. CASE Fail(w, "embed")
  BY <1>1, <1>2, <1>6, FailLocal
<1>7. CASE OneByOne(w)
  BY <1>1, <1>2, <1>7, OneByOneLocal
<1>8. CASE Goto(w, [run[w] EXCEPT !.tries = @ + 1])
  BY <1>1, <1>2, <1>8, AgainLocal
<1> QED
  BY <1>1, <1>4, <1>5, <1>6, <1>7, <1>8

LEMMA EmbedSingleLocal ==
    ASSUME Inv, NEW w \in Workers, EmbedSingle(w)
    PROVE  run[w] # Idle /\ Local(w)
<1>1. Runs(w) /\ run[w].pc = "single" /\ run[w] # Idle
  BY Running DEF EmbedSingle, Inv
<1>2. UNCHANGED <<setup, attempts, done, file>>
  BY DEF EmbedSingle, engine
<1>3. PICK n : n = run[w].out.vectors + 1
  OBVIOUS
<1>4. \/ Goto(w, [run[w] EXCEPT !.tries = 0, !.out = Embedded(w, n)])
      \/ n = Work(w).texts /\ Finish(w, Embedded(w, n))
      \/ Fail(w, "embed")
      \/ Goto(w, [run[w] EXCEPT !.tries = @ + 1])
  BY <1>3 DEF EmbedSingle, Again
<1>5. CASE Goto(w, [run[w] EXCEPT !.tries = 0, !.out = Embedded(w, n)])
  <2>1. PICK out : out = Embedded(w, n)
    OBVIOUS
  <2>2. /\ DOMAIN out = OutFields /\ out.attempt = run[w].attempt /\ out.text = 0
        /\ out.sources = <<>> /\ out.model = "none"
    BY <2>1, OutputFacts DEF Embedded, OutFields
  <2>3. PICK r2 : r2 = [run[w] EXCEPT !.tries = 0, !.out = out]
    OBVIOUS
  <2>4. DOMAIN run[w] = RunFields
    BY <1>1, Shapes
  <2>5. /\ DOMAIN r2 = RunFields /\ r2.pc = "single" /\ r2.error = run[w].error
        /\ r2.task = run[w].task /\ r2.attempt = run[w].attempt /\ r2.todo = run[w].todo
        /\ r2.out = out
    BY <1>1, <2>3, <2>4 DEF RunFields
  <2>6. Fitting(r2)
    BY <1>1, <2>5 DEF Fitting, Runs, Sound, WorkOf
  <2>7. ModelTrue(r2.out) /\ r2.out.text \in Nat
    BY <2>2, <2>5 DEF ModelTrue
  <2>8. Goto(w, r2)
    BY <1>5, <2>1, <2>3
  <2>9. run[w].pc # "report" /\ "single" \in {"install", "download", "call", "command", "single",
                                              "batch", "search", "stuck"}
    BY <1>1
  <2> QED
    BY <1>1, <1>2, <2>2, <2>5, <2>6, <2>7, <2>8, <2>9, GoLocal
<1>6. CASE n = Work(w).texts /\ Finish(w, Embedded(w, n))
  BY <1>1, <1>2, <1>6, EmbeddedLocal
<1>7. CASE Fail(w, "embed")
  BY <1>1, <1>2, <1>7, FailLocal
<1>8. CASE Goto(w, [run[w] EXCEPT !.tries = @ + 1])
  BY <1>1, <1>2, <1>8, AgainLocal
<1> QED
  BY <1>1, <1>4, <1>5, <1>6, <1>7, <1>8

\* A subset of k elements is all, or has k.
LEMMA BestOfMatches ==
    ASSUME NEW M, IsFiniteSet(M), NEW k \in Nat,
           NEW hits \in kSubset(IF Cardinality(M) < k THEN Cardinality(M) ELSE k, M)
    PROVE  hits \subseteq M /\ (Cardinality(hits) < k => hits = M)
<1>1. hits \subseteq M /\ Cardinality(hits) = IF Cardinality(M) < k THEN Cardinality(M) ELSE k
  BY DEF kSubset
<1>2. Cardinality(M) \in Nat
  BY FS_CardinalityType
<1>3. ASSUME Cardinality(hits) < k PROVE Cardinality(M) = Cardinality(hits)
  BY <1>1, <1>2, <1>3
<1> QED
  BY <1>1, <1>3, FS_Subset

LEMMA FoundLocal ==
    ASSUME NEW w, Runs(w), run[w].pc = "search", NEW hits,
           Finish(w, [OutputOf(w) EXCEPT !.hits = hits]),
           ~Work(w).remote => /\ hits \subseteq Work(w).match
                              /\ Cardinality(hits) < Work(w).topK => hits = Work(w).match,
           UNCHANGED <<setup, attempts, done, file>>
    PROVE  Local(w)
<1>1. PICK out : out = [OutputOf(w) EXCEPT !.hits = hits]
  OBVIOUS
<1>2. /\ DOMAIN out = OutFields /\ out.attempt = run[w].attempt /\ out.text = 0
      /\ out.sources = <<>> /\ out.model = "none" /\ out.hits = hits
  BY <1>1, OutputFacts DEF OutFields
<1>3. Work(w).type = "retrieval"
  BY DEF Runs, Sound, Fitting, Work, WorkOf
<1>4. Answers(Work(w), out)
  BY <1>2, <1>3 DEF Answers
<1>5. ModelTrue(out) /\ out.text \in Nat
  BY <1>2 DEF ModelTrue
<1>6. Finish(w, out) /\ run[w].pc # "report"
  BY <1>1
<1> QED
  BY <1>2, <1>4, <1>5, <1>6, FinishLocal

LEMMA SearchLocal ==
    ASSUME Inv, NEW w \in Workers, Search(w)
    PROVE  run[w] # Idle /\ Local(w)
<1>1. Runs(w) /\ run[w].pc = "search" /\ run[w] # Idle
  BY Running DEF Search, Inv
<1>2. UNCHANGED <<setup, attempts, done, file>>
  BY DEF Search, engine
<1>5. CASE Work(w).remote
  <2>1. CASE \E hits \in SUBSET Work(w).docs : Finish(w, [OutputOf(w) EXCEPT !.hits = hits])
    <3>1. PICK hits : Finish(w, [OutputOf(w) EXCEPT !.hits = hits])
      BY <2>1
    <3> QED
      BY <1>1, <1>2, <1>5, <3>1, FoundLocal
  <2>2. CASE Fail(w, "search")
    BY <1>1, <1>2, <2>2, FailLocal
  <2>3. CASE Goto(w, [run[w] EXCEPT !.tries = @ + 1])
    BY <1>1, <1>2, <2>3, AgainLocal
  <2> QED
    BY <1>5, <2>1, <2>2, <2>3 DEF Search, Again
<1>6. CASE ~Work(w).remote
  <2>1. PICK M, k : M = Work(w).match /\ k = Work(w).topK
    OBVIOUS
  <2>2. IsFiniteSet(M) /\ k \in Nat
    BY <1>1, <2>1, WorkFacts
  <2>3. PICK hits \in kSubset(IF Cardinality(M) < k THEN Cardinality(M) ELSE k, M) :
                Finish(w, [OutputOf(w) EXCEPT !.hits = hits])
    BY <1>6, <2>1 DEF Search
  <2>4. hits \subseteq M /\ (Cardinality(hits) < k => hits = M)
    BY <2>2, BestOfMatches
  <2>5. /\ hits \subseteq Work(w).match
        /\ Cardinality(hits) < Work(w).topK => hits = Work(w).match
    BY <2>1, <2>4
  <2> QED
    BY <1>1, <1>2, <2>3, <2>5, FoundLocal
<1> QED
  BY <1>1, <1>5, <1>6

---------------------------------------------------------------------------
(* Aggregations. *)

LEMMA AppendedSources ==
    ASSUME NEW s \in Sources, NEW x \in [dep : Nat, attempt : Nat, text : Nat]
    PROVE  /\ Append(s, x) \in Sources
           /\ \A i \in DOMAIN Append(s, x) :
                 (i \in DOMAIN s /\ Append(s, x)[i] = s[i]) \/ Append(s, x)[i] = x
           /\ ToSet(Append(s, x)) = ToSet(s) \cup {x}
<1>1. Append(s, x) \in Sources
  BY DEF Sources
<1>2. /\ DOMAIN s = 1..Len(s) /\ Len(s) \in Nat
      /\ DOMAIN Append(s, x) = 1..(Len(s) + 1)
      /\ \A i \in 1..Len(s) : Append(s, x)[i] = s[i]
      /\ Append(s, x)[Len(s) + 1] = x
  BY DEF Sources
<1>3. \A i \in 1..(Len(s) + 1) : i \in 1..Len(s) \/ i = Len(s) + 1
  BY <1>2
<1>4. Len(s) + 1 \in 1..(Len(s) + 1) /\ \A i \in 1..Len(s) : i \in 1..(Len(s) + 1)
  BY <1>2
<1> QED
  BY <1>1, <1>2, <1>3, <1>4 DEF ToSet

LEMMA SourceTexts ==
    ASSUME NEW s \in Sources
    PROVE  \A i \in DOMAIN s : s[i].text \in Nat
<1> DEFINE T == [dep : Nat, attempt : Nat, text : Nat]
<1>1. s \in Seq(T) /\ \A x \in T : x.text \in Nat
  BY DEF Sources
<1> HIDE DEF T
<1>2. DOMAIN s = 1..Len(s) /\ \A i \in 1..Len(s) : s[i] \in T
  BY <1>1
<1> QED
  BY <1>1, <1>2

\* The next dependency.
LEMMA NextDependency ==
    ASSUME Inv, NEW w, Runs(w), run[w].todo # {}, NEW d, d = Min(run[w].todo)
    PROVE  /\ d \in run[w].todo /\ d \in Work(w).deps /\ d \in Tasks /\ d \in Nat
           /\ done[d] # NoOne
<1>1. run[w].todo \subseteq Work(w).deps
  BY DEF Runs, Sound, Shaped, Work, WorkOf
<1>2. run[w].todo \in SUBSET Nat
  BY <1>1, WorkFacts
<1>3. d \in run[w].todo
  BY <1>2, Least
<1> QED
  BY <1>1, <1>2, <1>3, WorkFacts DEF Runs, Placed, Work, WorkOf

LEMMA LoadedLocal ==
    ASSUME Inv, NEW w \in Workers, Runs(w), run[w].pc = "load", run[w].todo # {},
           NEW d, d = Min(run[w].todo), Loadable(w, d),
           NEW r2, NEW src,
           src = [dep |-> d, attempt |-> file[Root(w)][d].attempt, text |-> file[Root(w)][d].text],
           r2 = [[run[w] EXCEPT !.todo = @ \ {d}] EXCEPT !.out.sources = Append(@, src)]
    PROVE  Moves(w, r2)
<1> DEFINE r == run[w]
           s == r.out.sources
<1>1. Sound(r) /\ Placed(w, r) /\ DOMAIN r = RunFields /\ DOMAIN r.out = OutFields /\ s \in Sources
  BY DEF Runs, Sound, Shaped
<1>2. /\ DOMAIN r2 = RunFields /\ r2.pc = "load" /\ r2.error = r.error /\ r2.task = r.task
      /\ r2.attempt = r.attempt /\ r2.todo = r.todo \ {d} /\ DOMAIN r2.out = OutFields
      /\ r2.out.attempt = r.out.attempt /\ r2.out.text = r.out.text
      /\ r2.out.sources = Append(s, src) /\ r2.out.model = r.out.model
      /\ r2.out.excused = r.out.excused
  BY <1>1 DEF RunFields, OutFields
<1>3. d \in r.todo /\ d \in WorkOf(r).deps /\ d \in Tasks /\ d \in Nat /\ done[d] # NoOne
  BY NextDependency DEF Work, WorkOf
<1>4. /\ src.dep = d /\ src.attempt \in Nat /\ src.text \in Nat
      /\ src.attempt >= 1 /\ src.attempt <= attempts[d]
  BY <1>3, RootsKnown DEF Inv, FilesInv, Loadable
<1>5. src \in [dep : Nat, attempt : Nat, text : Nat]
  BY <1>3, <1>4
<1>6. /\ Append(s, src) \in Sources
      /\ \A i \in DOMAIN Append(s, src) :
            (i \in DOMAIN s /\ Append(s, src)[i] = s[i]) \/ Append(s, src)[i] = src
      /\ ToSet(Append(s, src)) = ToSet(s) \cup {src}
  <2>1. PICK old : old = s
    OBVIOUS
  <2>2. old \in Sources
    BY <1>1, <2>1
  <2> HIDE DEF s
  <2>3. /\ Append(old, src) \in Sources
        /\ \A i \in DOMAIN Append(old, src) :
              (i \in DOMAIN old /\ Append(old, src)[i] = old[i]) \/ Append(old, src)[i] = src
        /\ ToSet(Append(old, src)) = ToSet(old) \cup {src}
    BY <1>5, <2>2, AppendedSources
  <2> QED
    BY <2>1, <2>3
<1>7. SourceDeps(r2.out) = SourceDeps(r.out) \cup {d}
  <2>1. ToSet(r2.out.sources) = ToSet(r.out.sources) \cup {src}
    BY <1>2, <1>6, Zenon
  <2> QED
    BY <1>4, <2>1 DEF SourceDeps
<1> HIDE DEF s
<1>8. Shaped(r2)
  BY <1>1, <1>2, <1>6 DEF Sound, Shaped, WorkOf
<1>9. Fitting(r2)
  BY <1>1, <1>2 DEF Sound, Fitting, WorkOf
<1>10. WorkOf(r2).strict => WorkOf(r2).deps \subseteq r2.todo \cup SourceDeps(r2.out)
  BY <1>1, <1>2, <1>7 DEF Sound, WorkOf
<1>11. Sound(r2)
  BY <1>1, <1>2, <1>8, <1>9, <1>10 DEF Sound, ModelTrue
<1>12. Placed(w, r2)
  <2>1. \A i \in DOMAIN Append(s, src) :
          LET x == Append(s, src)[i]
          IN  x.dep = 0 \/ (/\ x.dep \in Tasks /\ done[x.dep] # NoOne
                            /\ x.attempt >= 1 /\ x.attempt <= attempts[x.dep])
    <3> SUFFICES ASSUME NEW i \in DOMAIN Append(s, src)
                 PROVE  LET x == Append(s, src)[i]
                        IN  x.dep = 0 \/ (/\ x.dep \in Tasks /\ done[x.dep] # NoOne
                                          /\ x.attempt >= 1 /\ x.attempt <= attempts[x.dep])
      OBVIOUS
    <3>1. CASE i \in DOMAIN s /\ Append(s, src)[i] = s[i]
      BY <1>1, <3>1 DEF Placed, s
    <3>2. CASE Append(s, src)[i] = src
      BY <1>3, <1>4, <3>2
    <3> QED
      BY <1>6, <3>1, <3>2
  <2>2. /\ r.attempt \in Nat /\ r.attempt >= 1 /\ r.attempt <= attempts[r.task]
        /\ done[r.task].attempt # r.attempt
        /\ \A e \in WorkOf(r).deps : done[e] # NoOne
    BY <1>1 DEF Placed
  <2>3. WorkOf(r2) = WorkOf(r)
    BY <1>2 DEF WorkOf
  <2>4. \A i \in DOMAIN r2.out.sources :
          LET x == r2.out.sources[i]
          IN  x.dep = 0 \/ (/\ x.dep \in Tasks /\ done[x.dep] # NoOne
                            /\ x.attempt >= 1 /\ x.attempt <= attempts[x.dep])
    <3>1. r2.out.sources = Append(s, src)
      BY <1>2
    <3> QED
      BY <2>1, <3>1
  <2> HIDE DEF r
  <2> QED
    BY <1>2, <2>2, <2>3, <2>4 DEF Placed
<1> QED
  BY <1>2, <1>11, <1>12 DEF Moves

LEMMA SkippedLocal ==
    ASSUME Inv, NEW w \in Workers, Runs(w), run[w].pc = "load", ~Work(w).strict,
           NEW d, NEW r2, r2 = [run[w] EXCEPT !.todo = @ \ {d}]
    PROVE  Moves(w, r2)
<1> DEFINE r == run[w]
<1>1. Sound(r) /\ Placed(w, r) /\ DOMAIN r = RunFields
  BY DEF Runs, Sound, Shaped
<1>2. /\ DOMAIN r2 = RunFields /\ r2.pc = "load" /\ r2.error = r.error /\ r2.task = r.task
      /\ r2.attempt = r.attempt /\ r2.todo = r.todo \ {d} /\ r2.out = r.out
  BY <1>1 DEF RunFields
<1>3. ~WorkOf(r2).strict
  BY <1>2 DEF Work, WorkOf
<1>4. Shaped(r2)
  BY <1>1, <1>2 DEF Sound, Shaped, WorkOf
<1>5. Fitting(r2)
  BY <1>1, <1>2 DEF Sound, Fitting, WorkOf
<1>6. Sound(r2)
  BY <1>1, <1>2, <1>3, <1>4, <1>5 DEF Sound
<1>7. Placed(w, r2)
  BY <1>1, <1>2 DEF Placed, WorkOf
<1> QED
  BY <1>2, <1>6, <1>7 DEF Moves

LEMMA LoadFailsLocal ==
    ASSUME Inv, NEW w \in Workers, Runs(w), run[w].pc = "load", run[w].todo # {},
           NEW d, d = Min(run[w].todo), ~Loadable(w, d),
           NEW r2, r2 = [run[w] EXCEPT !.pc = "report", !.error = "load"]
    PROVE  Moves(w, r2)
<1> DEFINE r == run[w]
<1>1. Sound(r) /\ Placed(w, r) /\ DOMAIN r = RunFields
  BY DEF Runs, Sound, Shaped
<1>2. /\ DOMAIN r2 = RunFields /\ r2.pc = "report" /\ r2.error = "load" /\ r2.task = r.task
      /\ r2.attempt = r.attempt /\ r2.todo = r.todo /\ r2.out = r.out
  BY <1>1 DEF RunFields
<1>3. d \in WorkOf(r).deps /\ d \in Tasks /\ done[d] # NoOne
  BY NextDependency DEF Work, WorkOf
<1>4. setup.minio \/ Root(done[d].worker) # Root(w) \/ Repeated(d)
  <2> SUFFICES ASSUME ~setup.minio, Root(done[d].worker) = Root(w), ~Repeated(d)
               PROVE  FALSE
    OBVIOUS
  <2>1. attempts[d] <= 1
    BY <1>3 DEF Repeated, Inv, DoneInv
  <2>2. file[Root(w)][d].state = "whole"
    BY <1>3, <2>1 DEF Inv, FilesInv
  <2> QED
    BY <2>2 DEF Loadable
<1>5. Shaped(r2)
  BY <1>1, <1>2 DEF Sound, Shaped, WorkOf
<1>6. Sound(r2)
  BY <1>1, <1>2, <1>5 DEF Sound, Fitting
<1>7. Min(r2.todo) = d
  BY <1>2
<1>8. Placed(w, r2)
  BY <1>1, <1>2, <1>3, <1>4, <1>7 DEF Placed, WorkOf
<1> QED
  BY <1>2, <1>6, <1>8 DEF Moves

LEMMA LoadDependencyLocal ==
    ASSUME Inv, NEW w \in Workers, LoadDependency(w)
    PROVE  run[w] # Idle /\ Local(w)
<1>1. Runs(w) /\ run[w].pc = "load" /\ run[w] # Idle
  BY Running DEF LoadDependency, Inv
<1>2. UNCHANGED <<setup, attempts, done, file>> /\ run[w].todo # {}
  BY DEF LoadDependency, engine
<1>3. PICK d : d = Min(run[w].todo)
  OBVIOUS
<1>4. CASE Loadable(w, d)
  <2>1. PICK src : src = [dep |-> d, attempt |-> file[Root(w)][d].attempt,
                          text |-> file[Root(w)][d].text]
    OBVIOUS
  <2>2. PICK r2 : r2 = [[run[w] EXCEPT !.todo = @ \ {d}] EXCEPT !.out.sources = Append(@, src)]
    OBVIOUS
  <2>3. Goto(w, r2)
    BY <1>3, <1>4, <2>1, <2>2 DEF LoadDependency
  <2>4. Moves(w, r2)
    BY <1>1, <1>2, <1>3, <1>4, <2>1, <2>2, LoadedLocal
  <2> QED
    BY <1>1, <1>2, <2>3, <2>4 DEF Local, Goto
<1>5. CASE ~Loadable(w, d) /\ Work(w).strict
  <2>1. PICK r2 : r2 = [run[w] EXCEPT !.pc = "report", !.error = "load"]
    OBVIOUS
  <2>2. Goto(w, r2)
    BY <1>3, <1>5, <2>1 DEF LoadDependency
  <2>3. Moves(w, r2)
    BY <1>1, <1>2, <1>3, <1>5, <2>1, LoadFailsLocal
  <2> QED
    BY <1>1, <1>2, <2>2, <2>3 DEF Local, Goto
<1>6. CASE ~Loadable(w, d) /\ ~Work(w).strict
  <2>1. PICK r2 : r2 = [run[w] EXCEPT !.todo = @ \ {d}]
    OBVIOUS
  <2>2. Goto(w, r2)
    BY <1>3, <1>6, <2>1 DEF LoadDependency
  <2>3. Moves(w, r2)
    BY <1>1, <1>6, <2>1, SkippedLocal
  <2> QED
    BY <1>1, <1>2, <2>2, <2>3 DEF Local, Goto
<1> QED
  BY <1>4, <1>5, <1>6

LEMMA AggregateLocal ==
    ASSUME Inv, NEW w \in Workers, Aggregate(w)
    PROVE  run[w] # Idle /\ Local(w)
<1>1. Runs(w) /\ run[w].pc = "load" /\ run[w] # Idle
  BY Running DEF Aggregate, Inv
<1>2. UNCHANGED <<setup, attempts, done, file>> /\ run[w].todo = {}
  BY DEF Aggregate, engine
<1>3. PICK s : s = run[w].out.sources
  OBVIOUS
<1>4. PICK m : m = reduceAggregationSources(s)
  OBVIOUS
<1>5. CASE Fail(w, "aggregate")
  BY <1>1, <1>2, <1>5, FailLocal
<1>6. CASE Finish(w, [run[w].out EXCEPT !.text = m.text, !.conflicts = m.conflicts,
                                        !.provenance = m.provenance])
  <2>1. PICK out : out = [run[w].out EXCEPT !.text = m.text, !.conflicts = m.conflicts,
                                            !.provenance = m.provenance]
    OBVIOUS
  <2>2. DOMAIN run[w].out = OutFields /\ run[w].out.attempt = run[w].attempt /\ s \in Sources
    BY <1>1, <1>3, Shapes
  <2>3. /\ DOMAIN out = OutFields /\ out.attempt = run[w].attempt /\ out.sources = s
        /\ out.text = m.text /\ out.conflicts = m.conflicts /\ out.provenance = m.provenance
        /\ out.model = run[w].out.model /\ out.excused = run[w].out.excused
    BY <1>3, <2>1, <2>2 DEF OutFields
  <2>4. Len(s) \in Nat /\ DOMAIN s = 1..Len(s)
    BY <2>2 DEF Sources
  <2>5. ReducedTo(s, m)
    BY <1>4, <2>4, ReducedTrue
  <2>6. ReducedTo(out.sources, out)
    BY <2>3, <2>5 DEF ReducedTo
  <2>7. out.text \in Nat
    <3> DEFINE having == {i \in DOMAIN s : s[i].text # 0}
    <3>1. having \in SUBSET Nat
      BY <2>4
    <3>2. having # {} => Min(having) \in having
      BY <3>1, Least
    <3>3. \A i \in DOMAIN s : s[i].text \in Nat
      BY <2>2, SourceTexts
    <3>4. out.text = IF having = {} THEN 0 ELSE s[Min(having)].text
      BY <2>3, <2>6 DEF ReducedTo
    <3> QED
      BY <3>2, <3>3, <3>4
  <2>8. ModelTrue(out)
    BY <1>1, <2>3 DEF Runs, Sound, ModelTrue
  <2>9. Work(w).type = "aggregation"
    BY <1>1 DEF Runs, Sound, Fitting, Work, WorkOf
  <2>10. Work(w).strict => Work(w).deps \subseteq SourceDeps(out)
    <3>1. SourceDeps(out) = SourceDeps(run[w].out)
      BY <1>3, <2>3 DEF SourceDeps
    <3> QED
      BY <1>1, <1>2, <3>1 DEF Runs, Sound, Work, WorkOf
  <2>11. Answers(Work(w), out)
    BY <2>6, <2>9, <2>10 DEF Answers
  <2>12. Finish(w, out) /\ run[w].pc # "report" /\ out.sources = run[w].out.sources
    BY <1>1, <1>3, <1>6, <2>1, <2>3
  <2> QED
    BY <1>1, <1>2, <2>3, <2>7, <2>8, <2>11, <2>12, FinishLocal
<1> QED
  BY <1>1, <1>3, <1>4, <1>5, <1>6 DEF Aggregate

LEMMA EndsLocal ==
    ASSUME Inv, NEW w \in Workers, UploadEnds(w) \/ WriteFails(w)
    PROVE  run[w] # Idle /\ Local(w)
<1>1. Runs(w) /\ run[w].pc \in {"upload", "fill"} /\ run[w] # Idle
  BY Running DEF UploadEnds, WriteFails, Inv
<1>2. UNCHANGED <<setup, attempts, done, file>>
  BY DEF UploadEnds, WriteFails, engine
<1>3. CASE Fail(w, "upload") \/ Fail(w, "write")
  BY <1>1, <1>2, <1>3, FailLocal
<1>4. CASE At(w, "upload") /\ Goto(w, [run[w] EXCEPT !.pc = "report"])
  <2>1. PICK r2 : r2 = [run[w] EXCEPT !.pc = "report"]
    OBVIOUS
  <2> DEFINE r == run[w]
  <2>2. Sound(r) /\ Placed(w, r) /\ DOMAIN r = RunFields /\ r.pc = "upload" /\ r.error = ""
    BY <1>1, <1>4 DEF Runs, Sound, Shaped, At
  <2>3. /\ DOMAIN r2 = RunFields /\ r2.pc = "report" /\ r2.error = "" /\ r2.task = r.task
        /\ r2.attempt = r.attempt /\ r2.todo = r.todo /\ r2.out = r.out
    BY <2>1, <2>2 DEF RunFields
  <2>4. run' = [run EXCEPT ![w] = r2]
    BY <1>4, <2>1 DEF Goto
  <2> HIDE DEF r
  <2>5. Shaped(r2)
    BY <2>2, <2>3 DEF Sound, Shaped, WorkOf
  <2>6. Sound(r2)
    BY <2>2, <2>3, <2>5 DEF Sound, Fitting
  <2>7. Placed(w, r2)
    BY <2>2, <2>3 DEF Placed, WorkOf, Only
  <2>8. Moves(w, r2)
    BY <2>3, <2>6, <2>7 DEF Moves, r
  <2> QED
    BY <1>1, <1>2, <2>4, <2>8 DEF Local
<1> QED
  BY <1>1, <1>3, <1>4 DEF UploadEnds, WriteFails

---------------------------------------------------------------------------
(* Steps that others can see. *)

LEMMA SoundStays ==
    ASSUME NEW r, Sound(r), setup' = setup
    PROVE  Sound(r)'
BY DEF Sound, Shaped, Fitting, WorkOf, Answers, catalog

LEMMA DepsAreTasks ==
    ASSUME Inv, NEW r, Sound(r)
    PROVE  r.task \in Tasks /\ WorkOf(r).deps \subseteq Tasks
<1>1. setup \in Setups /\ r.task \in Tasks
  BY DEF Inv, Domains, Sound, Shaped
<1> QED
  BY <1>1, InstanceAssumption DEF WorkOf

\* More attempts disturb nobody.
LEMMA PlacedGrows ==
    ASSUME Inv, NEW v, NEW r, Sound(r), Placed(v, r), UNCHANGED <<setup, done, file>>,
           \A t \in Tasks : attempts'[t] \in Nat /\ attempts[t] <= attempts'[t]
    PROVE  Placed(v, r)'
<1>1. r.task \in Tasks /\ WorkOf(r).deps \subseteq Tasks
  BY DepsAreTasks
<1>2. \A t \in Tasks : attempts[t] \in Nat
  BY DEF Inv, DoneInv
<1>3. Only(r)' => Only(r)
  BY <1>1, <1>2 DEF Only
<1>4. \A t \in Tasks : Repeated(t) => Repeated(t)'
  BY <1>2 DEF Repeated
<1>5. WorkOf(r)' = WorkOf(r) /\ \A w : Root(w)' = Root(w)
  BY DEF WorkOf, Root
<1>6. r.attempt \in Nat /\ r.attempt >= 1 /\ r.attempt <= attempts'[r.task]
  <2>1. r.attempt \in Nat /\ r.attempt >= 1 /\ r.attempt <= attempts[r.task]
    BY DEF Placed
  <2>2. attempts[r.task] \in Nat /\ attempts'[r.task] \in Nat /\ attempts[r.task] <= attempts'[r.task]
    BY <1>1, <1>2
  <2> QED
    BY <2>1, <2>2
<1>7. \A i \in DOMAIN r.out.sources :
          LET s == r.out.sources[i]
          IN  s.dep = 0 \/ (/\ s.dep \in Tasks /\ done'[s.dep] # NoOne
                            /\ s.attempt >= 1 /\ s.attempt <= attempts'[s.dep])
  <2> SUFFICES ASSUME NEW i \in DOMAIN r.out.sources, r.out.sources[i].dep # 0
               PROVE  LET s == r.out.sources[i]
                      IN  /\ s.dep \in Tasks /\ done'[s.dep] # NoOne
                          /\ s.attempt >= 1 /\ s.attempt <= attempts'[s.dep]
    OBVIOUS
  <2>1. PICK d, a : d = r.out.sources[i].dep /\ a = r.out.sources[i].attempt
    OBVIOUS
  <2>2. d \in Tasks /\ done[d] # NoOne /\ a >= 1 /\ a <= attempts[d]
    BY <2>1 DEF Placed
  <2>3. a \in Nat
    <3> DEFINE T == [dep : Nat, attempt : Nat, text : Nat]
    <3>1. r.out.sources \in Seq(T) /\ \A x \in T : x.attempt \in Nat
      BY DEF Sound, Shaped, Sources
    <3> HIDE DEF T
    <3>2. r.out.sources[i] \in T
      BY <3>1
    <3> QED
      BY <2>1, <3>1, <3>2
  <2>4. a <= attempts'[d]
    BY <1>2, <2>2, <2>3
  <2> QED
    BY <2>1, <2>2, <2>4
<1>8. /\ done[r.task].attempt # r.attempt
      /\ \A d \in WorkOf(r).deps : done[d] # NoOne
      /\ r.pc = "fill" /\ Only(r) => file[Root(v)][r.task] = Truncated
      /\ r.pc \in {"upload", "report"} /\ r.error = "" /\ Only(r) =>
            file[Root(v)][r.task] = Whole(r.out)
      /\ r.pc = "report" /\ r.error = "load" =>
            /\ Min(r.todo) \in WorkOf(r).deps
            /\ setup.minio \/ Root(done[Min(r.todo)].worker) # Root(v) \/ Repeated(Min(r.todo))
  BY DEF Placed
<1>9. /\ done'[r.task].attempt # r.attempt
      /\ \A d \in WorkOf(r)'.deps : done'[d] # NoOne
      /\ r.pc = "fill" /\ Only(r)' => file'[Root(v)'][r.task] = Truncated
      /\ r.pc \in {"upload", "report"} /\ r.error = "" /\ Only(r)' =>
            file'[Root(v)'][r.task] = Whole(r.out)
  BY <1>3, <1>5, <1>8
<1>10. r.pc = "report" /\ r.error = "load" =>
            /\ Min(r.todo) \in WorkOf(r)'.deps
            /\ setup'.minio \/ Root(done[Min(r.todo)].worker)' # Root(v)' \/ Repeated(Min(r.todo))'
  <2> SUFFICES ASSUME r.pc = "report", r.error = "load"
               PROVE  /\ Min(r.todo) \in WorkOf(r)'.deps
                      /\ \/ setup'.minio \/ Root(done[Min(r.todo)].worker)' # Root(v)'
                         \/ Repeated(Min(r.todo))'
    OBVIOUS
  <2>1. PICK d : d = Min(r.todo)
    OBVIOUS
  <2>2. d \in WorkOf(r).deps /\ d \in Tasks
    BY <1>1, <1>8, <2>1
  <2>3. setup.minio \/ Root(done[d].worker) # Root(v) \/ Repeated(d)
    BY <1>8, <2>1
  <2>4. setup'.minio \/ Root(done[d].worker)' # Root(v)' \/ Repeated(d)'
    BY <1>4, <2>2, <2>3 DEF Root
  <2> QED
    BY <1>5, <2>1, <2>2, <2>4
<1> QED
  BY <1>6, <1>7, <1>9, <1>10 DEF Placed

LEMMA FirstStepFits ==
    ASSUME NEW r, r.pc = FirstStep(WorkOf(r))
    PROVE  Fitting(r) /\ r.pc \in {"install", "call", "tool", "batch", "search", "load", "unsupported"}
<1> DEFINE t == WorkOf(r).type
<1>1. CASE t = "model_download"
  BY <1>1 DEF FirstStep, Fitting
<1>2. CASE t = "llm_inference"
  BY <1>2 DEF FirstStep, Fitting
<1>3. CASE t = "tool_execution"
  BY <1>3 DEF FirstStep, Fitting
<1>4. CASE t = "embedding"
  BY <1>4 DEF FirstStep, Fitting
<1>5. CASE t = "retrieval"
  BY <1>5 DEF FirstStep, Fitting
<1>6. CASE t = "aggregation"
  BY <1>6 DEF FirstStep, Fitting
<1>7. CASE t \notin {"model_download", "llm_inference", "tool_execution", "embedding", "retrieval",
                     "aggregation"}
  BY <1>7 DEF FirstStep, Fitting
<1> QED
  BY <1>1, <1>2, <1>3, <1>4, <1>5, <1>6, <1>7

LEMMA AssignKeeps ==
    ASSUME Inv, NEW w \in Workers, NEW t \in Tasks, Assign(w, t)
    PROVE  RunsInv' /\ AttemptsApart' /\ DoneInv' /\ FilesInv'
<1>1. PICK out : out = [NoOutput EXCEPT !.attempt = attempts[t] + 1,
                                        !.sources = setup.work[t].items]
  OBVIOUS
<1>2. PICK r2 : r2 = [pc |-> FirstStep(setup.work[t]), task |-> t, attempt |-> attempts[t] + 1,
                      todo |-> setup.work[t].deps, tries |-> 0, lost |-> FALSE, error |-> "",
                      out |-> out]
  OBVIOUS
<1>3. /\ run' = [run EXCEPT ![w] = r2] /\ UNCHANGED <<setup, done, file>>
      /\ attempts' = [attempts EXCEPT ![t] = @ + 1]
      /\ done[t] = NoOne /\ \A d \in setup.work[t].deps : done[d] # NoOne
  BY <1>1, <1>2 DEF Assign, Goto
<1>4. /\ \A x \in Tasks : attempts[x] \in Nat
      /\ DOMAIN run = Workers /\ DOMAIN attempts = Tasks
  BY DEF Inv, DoneInv, Domains
<1>5. /\ attempts'[t] = attempts[t] + 1
      /\ \A x \in Tasks : x # t => attempts'[x] = attempts[x]
      /\ run'[w] = r2 /\ \A v \in Workers : v # w => run'[v] = run[v]
  BY <1>3, <1>4
<1>6. \A x \in Tasks : attempts'[x] \in Nat /\ attempts[x] <= attempts'[x]
  BY <1>4, <1>5
<1>7. /\ DOMAIN out = OutFields /\ out.attempt = attempts[t] + 1 /\ out.text = 0
      /\ out.sources = setup.work[t].items /\ out.model = "none"
  BY <1>1 DEF NoOutput, OutFields
<1>8. /\ DOMAIN r2 = RunFields /\ r2.pc = FirstStep(setup.work[t]) /\ r2.task = t
      /\ r2.attempt = attempts[t] + 1 /\ r2.todo = setup.work[t].deps
      /\ r2.error = "" /\ r2.out = out
  BY <1>2 DEF RunFields
<1>9. setup.work[t].items \in Seq([dep : {0}, attempt : {0}, text : Nat])
  BY InstanceAssumption DEF Inv, Domains
<1>10. /\ setup.work[t].items \in Sources
       /\ \A i \in DOMAIN setup.work[t].items : setup.work[t].items[i].dep = 0
  <2> DEFINE T == [dep : {0}, attempt : {0}, text : Nat]
             U == [dep : Nat, attempt : Nat, text : Nat]
  <2>1. PICK s : s = setup.work[t].items
    OBVIOUS
  <2>2. s \in Seq(T) /\ T \subseteq U /\ \A x \in T : x.dep = 0
    BY <1>9, <2>1
  <2>3. Sources = Seq(U)
    BY DEF Sources
  <2> HIDE DEF T, U
  <2>4. s \in Seq(U) /\ \A i \in DOMAIN s : s[i] \in T
    BY <2>2
  <2> QED
    BY <2>1, <2>2, <2>3, <2>4
<1> HIDE <1>9
<1>11. Fitting(r2) /\ r2.pc \in {"install", "call", "tool", "batch", "search", "load", "unsupported"}
  BY <1>8, FirstStepFits DEF WorkOf
<1>12. Shaped(r2)
  <2>1. r2.pc # "idle" /\ 0 \in Nat
    BY <1>11
  <2>2. WorkOf(r2).deps = r2.todo
    BY <1>8 DEF WorkOf
  <2>3. r2.out.attempt = r2.attempt /\ r2.out.text = 0 /\ r2.out.sources \in Sources
        /\ DOMAIN r2.out = OutFields
    BY <1>7, <1>8, <1>10
  <2> QED
    BY <1>8, <2>1, <2>2, <2>3 DEF Shaped
<1>13. Sound(r2)
  BY <1>7, <1>8, <1>11, <1>12 DEF Sound, ModelTrue, WorkOf
<1>14. Sound(r2)'
  BY <1>3, <1>13, SoundStays
<1>15. Placed(w, r2)'
  <2>1. NoOne.attempt = 0
    BY DEF NoOne
  <2>2. /\ r2.attempt \in Nat /\ r2.attempt >= 1 /\ r2.attempt <= attempts'[r2.task]
        /\ done'[r2.task].attempt # r2.attempt
    <3>1. attempts[t] \in Nat /\ attempts[t] + 1 \in Nat /\ attempts[t] + 1 >= 1
          /\ attempts[t] + 1 <= attempts[t] + 1 /\ attempts[t] + 1 # 0
      BY <1>4
    <3>2. done'[t].attempt = 0
      BY <1>3, <2>1
    <3> QED
      BY <1>5, <1>8, <3>1, <3>2
  <2>3. \A d \in WorkOf(r2)'.deps : done'[d] # NoOne
    BY <1>3, <1>8 DEF WorkOf
  <2>4. \A i \in DOMAIN r2.out.sources : r2.out.sources[i].dep = 0
    BY <1>7, <1>8, <1>10
  <2> QED
    BY <1>11, <2>2, <2>3, <2>4 DEF Placed
<1>16. RunsInv'
  <2> SUFFICES ASSUME NEW v \in Workers, v # w
               PROVE  run'[v] = Idle \/ (Sound(run[v])' /\ Placed(v, run[v])')
    BY <1>5, <1>14, <1>15 DEF RunsInv
  <2>1. PICK r : r = run[v]
    OBVIOUS
  <2>2. run'[v] = r
    BY <1>5, <2>1
  <2>3. ASSUME r # Idle PROVE Sound(r)' /\ Placed(v, r)'
    <3>1. Sound(r) /\ Placed(v, r)
      BY <2>1, <2>3 DEF Inv, RunsInv
    <3> QED
      BY <1>3, <1>6, <3>1, SoundStays, PlacedGrows
  <2> QED
    BY <2>2, <2>3
<1>17. AttemptsApart'
  <2>1. ASSUME NEW v \in Workers, v # w, run[v] # Idle, run[v].task = t
        PROVE  run[v].attempt # attempts[t] + 1
    <3>1. run[v].attempt \in Nat /\ run[v].attempt <= attempts[t]
      BY <2>1 DEF Inv, RunsInv, Placed
    <3> QED
      BY <1>4, <3>1
  <2>2. ASSUME NEW u \in Workers, NEW v \in Workers, u # v, u # w, v # w,
               run'[v] # Idle, run'[u] # Idle, run'[v].task = run'[u].task
        PROVE  run'[v].attempt # run'[u].attempt
    BY <1>5, <2>2 DEF AttemptsApart, Inv
  <2>3. ASSUME NEW v \in Workers, v # w, run'[v] # Idle, run'[v].task = run'[w].task
        PROVE  run'[v].attempt # run'[w].attempt
    BY <1>5, <1>8, <2>1, <2>3
  <2> QED
    BY <2>2, <2>3 DEF AttemptsApart
<1>18. DoneInv'
  <2>1. \A x \in Tasks : done'[x] = done[x]
    BY <1>3
  <2> QED
    BY <1>4, <1>6, <2>1 DEF DoneInv, Inv
<1>19. FilesInv'
  <2>1. \A r \in Roots, x \in Tasks : file[r][x].attempt <= attempts[x] /\ file[r][x].attempt \in Nat
                                      => file[r][x].attempt <= attempts'[x]
    BY <1>4, <1>6
  <2>2. \A x \in Tasks : attempts'[x] <= 1 => attempts[x] <= 1
    BY <1>4, <1>6
  <2>3. FilesInv
    BY DEF Inv
  <2> QED
    BY <1>3, <2>1, <2>2, <2>3 DEF FilesInv, Root
<1> QED
  BY <1>16, <1>17, <1>18, <1>19

\* Who runs a task that has been attempted once is alone with it.
LEMMA Alone ==
    ASSUME Inv, NEW v \in Workers, NEW w \in Workers, v # w, run[v] # Idle, run[w] # Idle,
           run[v].task = run[w].task
    PROVE  ~Only(run[v])
<1>1. PICK t, a, b : t = run[v].task /\ a = run[v].attempt /\ b = run[w].attempt
  OBVIOUS
<1>2. /\ a \in Nat /\ a >= 1 /\ a <= attempts[t] /\ b \in Nat /\ b >= 1 /\ b <= attempts[t]
      /\ t \in Tasks
  BY <1>1 DEF Inv, RunsInv, Placed, Sound, Shaped
<1>3. a # b
  BY <1>1 DEF Inv, AttemptsApart
<1>4. attempts[t] \in Nat
  BY <1>2 DEF Inv, DoneInv
<1>5. ~(attempts[t] <= 1)
  BY <1>2, <1>3, <1>4
<1> QED
  BY <1>1, <1>5 DEF Only

LEMMA AloneBeforeDone ==
    ASSUME Inv, NEW w \in Workers, run[w] # Idle, done[run[w].task] # NoOne
    PROVE  ~Only(run[w]) /\ Repeated(run[w].task)
<1>1. PICK t, a, b : t = run[w].task /\ a = run[w].attempt /\ b = done[t].attempt
  OBVIOUS
<1>2. a \in Nat /\ a >= 1 /\ a <= attempts[t] /\ a # b /\ t \in Tasks
  BY <1>1 DEF Inv, RunsInv, Placed, Sound, Shaped
<1>3. b \in Nat /\ b >= 1 /\ b <= attempts[t] /\ attempts[t] \in Nat
  BY <1>1, <1>2 DEF Inv, DoneInv
<1>4. ~(attempts[t] <= 1) /\ attempts[t] > 1
  BY <1>2, <1>3
<1> QED
  BY <1>1, <1>4 DEF Only, Repeated

LEMMA ReportKeeps ==
    ASSUME Inv, NEW w \in Workers, Report(w)
    PROVE  RunsInv' /\ AttemptsApart' /\ DoneInv' /\ FilesInv'
<1>1. Runs(w) /\ run[w].pc = "report" /\ run[w] # Idle
  BY Running DEF Report, Inv
<1>2. run' = [run EXCEPT ![w] = Idle] /\ UNCHANGED <<setup, attempts, file>>
  BY DEF Report, Goto
<1>3. CASE UNCHANGED done
  <2>1. Local(w)
    BY <1>2, <1>3 DEF Local
  <2> QED
    BY <1>1, <2>1, LocalKeeps
<1>4. CASE /\ run[w].error = ""
           /\ done' = [done EXCEPT ![run[w].task] = [worker |-> w, attempt |-> run[w].attempt]]
  <2>1. PICK t, a : t = run[w].task /\ a = run[w].attempt
    OBVIOUS
  <2>2. /\ t \in Tasks /\ a \in Nat /\ a >= 1 /\ a <= attempts[t]
    BY <1>1, <2>1 DEF Runs, Sound, Shaped, Placed
  <2>3. /\ DOMAIN done = Tasks /\ DOMAIN run = Workers
    BY DEF Inv, Domains
  <2>4. /\ done'[t] = [worker |-> w, attempt |-> a]
        /\ \A x \in Tasks : x # t => done'[x] = done[x]
        /\ run'[w] = Idle /\ \A v \in Workers : v # w => run'[v] = run[v]
    BY <1>2, <1>4, <2>1, <2>2, <2>3
  <2>5. done'[t] # NoOne
    <3>1. NoOne.attempt = 0 /\ [worker |-> w, attempt |-> a].attempt = a /\ a # 0
      BY <2>2 DEF NoOne
    <3> QED
      BY <2>4, <3>1
  <2>6. \A v : Root(v)' = Root(v)
    BY <1>2 DEF Root
  <2>7. ASSUME NEW v \in Workers, v # w, NEW r, r = run[v], r # Idle
        PROVE  Placed(v, r)'
    <3>1. Sound(r) /\ Placed(v, r)
      BY <2>7 DEF Inv, RunsInv
    <3>2. r.task \in Tasks /\ WorkOf(r).deps \subseteq Tasks
      BY <3>1, DepsAreTasks
    <3>3. done'[r.task].attempt # r.attempt
      <4>1. CASE r.task = t
        BY <1>1, <2>1, <2>4, <2>7, <4>1 DEF Inv, AttemptsApart
      <4>2. CASE r.task # t
        BY <2>4, <3>1, <3>2, <4>2 DEF Placed
      <4> QED
        BY <4>1, <4>2
    <3>4. \A d \in Tasks : done[d] # NoOne => done'[d] # NoOne
      BY <2>4, <2>5
    <3>5. \A d \in WorkOf(r)'.deps : done'[d] # NoOne
      BY <1>2, <3>1, <3>2, <3>4 DEF Placed, WorkOf
    <3>6. r.pc = "report" /\ r.error = "load" =>
            /\ Min(r.todo) \in WorkOf(r)'.deps
            /\ setup'.minio \/ Root(done[Min(r.todo)].worker)' # Root(v)' \/ Repeated(Min(r.todo))'
      <4> SUFFICES ASSUME r.pc = "report", r.error = "load"
                   PROVE  /\ Min(r.todo) \in WorkOf(r)'.deps
                          /\ \/ setup'.minio \/ Root(done[Min(r.todo)].worker)' # Root(v)'
                             \/ Repeated(Min(r.todo))'
        OBVIOUS
      <4>1. PICK d : d = Min(r.todo)
        OBVIOUS
      <4>2. /\ d \in WorkOf(r).deps /\ d \in Tasks /\ done[d] # NoOne
            /\ setup.minio \/ Root(done[d].worker) # Root(v) \/ Repeated(d)
        BY <3>1, <3>2, <4>1 DEF Placed
      <4>3. CASE d = t
        <5>1. Repeated(t)
          BY <1>1, <2>1, <4>2, <4>3, AloneBeforeDone
        <5> QED
          BY <1>2, <4>1, <4>2, <4>3, <5>1 DEF Repeated, WorkOf
      <4>4. CASE d # t
        <5>1. done'[d] = done[d]
          BY <2>4, <4>2, <4>4
        <5>2. setup'.minio \/ Root(done[d].worker)' # Root(v)' \/ Repeated(d)'
          BY <1>2, <4>2, <5>1 DEF Root, Repeated
        <5> QED
          BY <1>2, <4>1, <4>2, <5>2 DEF WorkOf
      <4> QED
        BY <4>3, <4>4
    <3>7. /\ r.attempt \in Nat /\ r.attempt >= 1 /\ r.attempt <= attempts'[r.task]
          /\ r.pc = "fill" /\ Only(r)' => file'[Root(v)'][r.task] = Truncated
          /\ r.pc \in {"upload", "report"} /\ r.error = "" /\ Only(r)' =>
                file'[Root(v)'][r.task] = Whole(r.out)
      BY <1>2, <2>6, <3>1 DEF Placed, Only
    <3>8. \A i \in DOMAIN r.out.sources :
            LET s == r.out.sources[i]
            IN  s.dep = 0 \/ (/\ s.dep \in Tasks /\ done'[s.dep] # NoOne
                              /\ s.attempt >= 1 /\ s.attempt <= attempts'[s.dep])
      BY <1>2, <3>1, <3>4 DEF Placed
    <3> QED
      BY <3>3, <3>5, <3>6, <3>7, <3>8 DEF Placed
  <2>8. RunsInv'
    <3> SUFFICES ASSUME NEW v \in Workers, v # w, run[v] # Idle
                 PROVE  Sound(run[v])' /\ Placed(v, run[v])'
      BY <2>4 DEF RunsInv
    <3>1. PICK r : r = run[v]
      OBVIOUS
    <3>2. Sound(r) /\ run'[v] = r
      BY <2>4, <3>1 DEF Inv, RunsInv
    <3>3. Sound(r)' /\ Placed(v, r)'
      BY <1>2, <2>7, <3>1, <3>2, SoundStays
    <3> QED
      BY <3>2, <3>3
  <2>9. AttemptsApart'
    BY <2>4 DEF Inv, AttemptsApart
  <2>10. DoneInv'
    <3>1. ASSUME NEW x \in Tasks, x # t
          PROVE  /\ attempts'[x] \in Nat
                 /\ DOMAIN done'[x] = {"worker", "attempt"}
                 /\ done'[x] # NoOne => /\ done'[x].worker \in Workers
                                        /\ done'[x].attempt \in Nat
                                        /\ done'[x].attempt >= 1 /\ done'[x].attempt <= attempts'[x]
      BY <1>2, <2>4, <3>1 DEF Inv, DoneInv
    <3>2. /\ attempts'[t] \in Nat
          /\ DOMAIN done'[t] = {"worker", "attempt"}
          /\ done'[t].worker \in Workers
          /\ done'[t].attempt \in Nat
          /\ done'[t].attempt >= 1 /\ done'[t].attempt <= attempts'[t]
      BY <1>2, <2>2, <2>4 DEF Inv, DoneInv
    <3> QED
      BY <3>1, <3>2 DEF DoneInv
  <2>11. FilesInv'
    <3>1. ASSUME NEW x \in Tasks, done'[x] # NoOne, attempts'[x] <= 1
          PROVE  file'[Root(done[x].worker)'][x].state = "whole"
      <4>1. CASE x = t
        <5>1. Only(run[w])
          BY <1>2, <2>1, <3>1, <4>1 DEF Only
        <5>2. file[Root(w)][t] = Whole(run[w].out)
          BY <1>1, <1>4, <2>1, <5>1 DEF Runs, Placed
        <5>3. file[Root(w)][t].state = "whole"
          BY <5>2 DEF Whole
        <5>4. Root(done[x].worker)' = Root(w)
          BY <2>4, <4>1, <1>2 DEF Root
        <5> QED
          BY <1>2, <4>1, <5>3, <5>4
      <4>2. CASE x # t
        <5>1. done'[x] = done[x]
          BY <2>4, <4>2
        <5>2. Root(done[x].worker)' = Root(done[x].worker)
          BY <1>2, <5>1 DEF Root
        <5> QED
          BY <1>2, <3>1, <5>1, <5>2 DEF Inv, FilesInv
      <4> QED
        BY <4>1, <4>2
    <3>2. FilesInv
      BY DEF Inv
    <3> QED
      BY <1>2, <3>1, <3>2 DEF FilesInv
  <2> QED
    BY <2>8, <2>9, <2>10, <2>11
<1> QED
  BY <1>3, <1>4 DEF Report

\* A write changes one file, which matters to nobody whose task was attempted once.
LEMMA WriteKeeps ==
    ASSUME Inv, NEW w \in Workers, Runs(w), run[w] # Idle, NEW t, t = run[w].task,
           NEW next, NEW r2, Sound(r2), Placed(w, r2)',
           r2.task = run[w].task, r2.attempt = run[w].attempt,
           /\ DOMAIN next = {"state", "attempt", "text"}
           /\ next.text \in Nat /\ next.attempt \in Nat
           /\ next.state = "whole" => next.attempt >= 1 /\ next.attempt <= attempts[t],
           run' = [run EXCEPT ![w] = r2],
           file' = [file EXCEPT ![Root(w)][t] = next],
           UNCHANGED <<setup, attempts, done>>
    PROVE  RunsInv' /\ AttemptsApart' /\ DoneInv' /\ FilesInv'
<1>1. /\ DOMAIN run = Workers /\ DOMAIN file = Roots /\ (\A r \in Roots : DOMAIN file[r] = Tasks)
      /\ Root(w) \in Roots /\ t \in Tasks
  BY RootsKnown, Shapes DEF Inv, Domains
<1>2. /\ file'[Root(w)][t] = next
      /\ \A r \in Roots, x \in Tasks : x # t => file'[r][x] = file[r][x]
      /\ \A r \in Roots, x \in Tasks : r # Root(w) => file'[r][x] = file[r][x]
      /\ run'[w] = r2 /\ \A v \in Workers : v # w => run'[v] = run[v]
  BY <1>1
<1>3. \A v : Root(v)' = Root(v)
  BY DEF Root
<1>4. ASSUME NEW v \in Workers, v # w, NEW r, r = run[v], r # Idle
      PROVE  Placed(v, r)'
  <2>1. Sound(r) /\ Placed(v, r) /\ r.task \in Tasks
    BY <1>4 DEF Inv, RunsInv, Sound, Shaped
  <2>2. ASSUME Only(r)' PROVE file'[Root(v)][r.task] = file[Root(v)][r.task]
    <3>1. Only(run[v])
      BY <1>4, <2>2 DEF Only
    <3>2. r.task # t
      BY <1>4, <3>1, Alone
    <3> QED
      BY <1>2, <2>1, <3>2, RootsKnown
  <2>3. Only(r)' = Only(r) /\ \A d : Repeated(d)' = Repeated(d)
    BY DEF Only, Repeated
  <2>4. /\ r.pc = "fill" /\ Only(r)' => file'[Root(v)'][r.task] = Truncated
        /\ r.pc \in {"upload", "report"} /\ r.error = "" /\ Only(r)' =>
                file'[Root(v)'][r.task] = Whole(r.out)
    BY <1>3, <2>1, <2>2, <2>3 DEF Placed
  <2>5. r.pc = "report" /\ r.error = "load" =>
            /\ Min(r.todo) \in WorkOf(r)'.deps
            /\ setup'.minio \/ Root(done[Min(r.todo)].worker)' # Root(v)' \/ Repeated(Min(r.todo))'
    BY <2>1 DEF Placed, WorkOf, Root, Repeated
  <2>6. /\ r.attempt \in Nat /\ r.attempt >= 1 /\ r.attempt <= attempts'[r.task]
        /\ done'[r.task].attempt # r.attempt
        /\ \A d \in WorkOf(r)'.deps : done'[d] # NoOne
        /\ \A i \in DOMAIN r.out.sources :
              LET s == r.out.sources[i]
              IN  s.dep = 0 \/ (/\ s.dep \in Tasks /\ done'[s.dep] # NoOne
                                /\ s.attempt >= 1 /\ s.attempt <= attempts'[s.dep])
    BY <2>1 DEF Placed, WorkOf
  <2> QED
    BY <2>4, <2>5, <2>6 DEF Placed
<1>5. RunsInv'
  <2>1. ASSUME NEW v \in Workers, v # w, run[v] # Idle
        PROVE  Sound(run[v])' /\ Placed(v, run[v])'
    <3>1. PICK r : r = run[v]
      OBVIOUS
    <3>2. Sound(r) /\ run'[v] = r
      BY <1>2, <2>1, <3>1 DEF Inv, RunsInv
    <3>3. Sound(r)' /\ Placed(v, r)'
      BY <1>4, <2>1, <3>1, <3>2, SoundStays
    <3> QED
      BY <3>2, <3>3
  <2>2. Sound(r2)' /\ Placed(w, r2)'
    BY SoundStays
  <2>3. Sound(run[w])' /\ Placed(w, run[w])'
    BY <1>2, <2>2
  <2>4. \A v \in Workers : v # w => run'[v] = run[v]
    BY <1>2
  <2> QED
    BY <2>1, <2>3, <2>4 DEF RunsInv
<1>6. AttemptsApart'
  BY <1>2 DEF Inv, AttemptsApart
<1>7. DoneInv'
  BY DEF Inv, DoneInv
<1>8. FilesInv'
  <2>1. FilesInv
    BY DEF Inv
  <2>2. ASSUME NEW r \in Roots, NEW x \in Tasks
        PROVE  /\ DOMAIN file'[r][x] = {"state", "attempt", "text"}
               /\ file'[r][x].text \in Nat /\ file'[r][x].attempt \in Nat
               /\ file'[r][x].state = "whole" => /\ file'[r][x].attempt >= 1
                                                 /\ file'[r][x].attempt <= attempts'[x]
    <3>1. CASE r = Root(w) /\ x = t
      BY <1>2, <3>1
    <3>2. CASE ~(r = Root(w) /\ x = t)
      <4>1. file'[r][x] = file[r][x]
        BY <1>2, <3>2
      <4> QED
        BY <2>1, <4>1 DEF FilesInv
    <3> QED
      BY <3>1, <3>2
  <2>3. ASSUME NEW x \in Tasks, done'[x] # NoOne, attempts'[x] <= 1
        PROVE  file'[Root(done[x].worker)'][x].state = "whole"
    <3>1. x # t
      <4>1. ASSUME x = t PROVE FALSE
        BY <2>3, <4>1, AloneBeforeDone DEF Only
      <4> QED
        BY <4>1
    <3>2. done[x].worker \in Workers /\ done[x] # NoOne
      BY <2>3 DEF Inv, DoneInv
    <3>3. PICK v \in Workers : v = done[x].worker
      BY <3>2
    <3>4. file'[Root(v)][x] = file[Root(v)][x]
      BY <1>2, <3>1, RootsKnown
    <3>5. Root(done[x].worker)' = Root(v)
      BY <1>3, <3>3 DEF Root
    <3>6. file[Root(v)][x].state = "whole"
      BY <2>1, <2>3, <3>2, <3>3 DEF FilesInv
    <3> QED
      BY <3>4, <3>5, <3>6
  <2> QED
    BY <2>2, <2>3 DEF FilesInv
<1> QED
  BY <1>5, <1>6, <1>7, <1>8

LEMMA WriteBeginKeeps ==
    ASSUME Inv, NEW w \in Workers, WriteBegin(w)
    PROVE  RunsInv' /\ AttemptsApart' /\ DoneInv' /\ FilesInv'
<1>1. Runs(w) /\ run[w].pc = "write" /\ run[w] # Idle
  BY Running DEF WriteBegin, Inv
<1>2. PICK t, r2 : t = run[w].task /\ r2 = [run[w] EXCEPT !.pc = "fill"]
  OBVIOUS
<1>3. /\ run' = [run EXCEPT ![w] = r2] /\ file' = [file EXCEPT ![Root(w)][t] = Truncated]
      /\ UNCHANGED <<setup, attempts, done>>
  BY <1>2 DEF WriteBegin, Goto, engine
<1> DEFINE r == run[w]
<1>4. Sound(r) /\ Placed(w, r) /\ DOMAIN r = RunFields /\ r.error = ""
  BY <1>1 DEF Runs, Sound, Shaped
<1>5. /\ DOMAIN r2 = RunFields /\ r2.pc = "fill" /\ r2.error = "" /\ r2.task = r.task
      /\ r2.attempt = r.attempt /\ r2.todo = r.todo /\ r2.out = r.out
  BY <1>2, <1>4 DEF RunFields
<1>6. Shaped(r2)
  BY <1>4, <1>5 DEF Sound, Shaped, WorkOf
<1>7. Sound(r2)
  BY <1>4, <1>5, <1>6 DEF Sound, Fitting
<1>8. file'[Root(w)][t] = Truncated
  <2>1. DOMAIN file = Roots /\ DOMAIN file[Root(w)] = Tasks /\ Root(w) \in Roots /\ t \in Tasks
    BY <1>1, <1>2, RootsKnown, Shapes DEF Inv, Domains
  <2> QED
    BY <1>3, <2>1
<1>9. Placed(w, r2)'
  <2>1. Root(w)' = Root(w)
    BY <1>3 DEF Root
  <2> QED
    BY <1>2, <1>3, <1>4, <1>5, <1>8, <2>1 DEF Placed, WorkOf
<1>10. /\ DOMAIN Truncated = {"state", "attempt", "text"} /\ Truncated.text \in Nat
       /\ Truncated.attempt \in Nat /\ Truncated.state # "whole"
  BY DEF Truncated
<1> HIDE DEF r
<1>11. r2.task = run[w].task /\ r2.attempt = run[w].attempt
  BY <1>5 DEF r
<1> QED
  BY <1>1, <1>2, <1>3, <1>7, <1>9, <1>10, <1>11, WriteKeeps

LEMMA WriteEndKeeps ==
    ASSUME Inv, NEW w \in Workers, WriteEnd(w)
    PROVE  RunsInv' /\ AttemptsApart' /\ DoneInv' /\ FilesInv'
<1>1. Runs(w) /\ run[w].pc = "fill" /\ run[w] # Idle
  BY Running DEF WriteEnd, Inv
<1>2. PICK t, p, r2 : t = run[w].task /\ p = Upload /\ r2 = [run[w] EXCEPT !.pc = p]
  OBVIOUS
<1>3. PICK mine, now : mine = Whole(run[w].out) /\ now = file[Root(w)][t]
  OBVIOUS
<1>4. PICK next \in IF now = Truncated THEN {mine} ELSE {mine, Garbled} :
            file' = [file EXCEPT ![Root(w)][t] = next]
  BY <1>2, <1>3 DEF WriteEnd
<1>5. run' = [run EXCEPT ![w] = r2] /\ UNCHANGED <<setup, attempts, done>>
  BY <1>2 DEF WriteEnd, Goto, engine
<1>6. p \in {"upload", "report"}
  BY <1>2 DEF Upload
<1> DEFINE r == run[w]
<1>7. Sound(r) /\ Placed(w, r) /\ DOMAIN r = RunFields /\ r.error = "" /\ DOMAIN r.out = OutFields
  BY <1>1 DEF Runs, Sound, Shaped
<1>8. /\ DOMAIN r2 = RunFields /\ r2.pc = p /\ r2.error = "" /\ r2.task = r.task
      /\ r2.attempt = r.attempt /\ r2.todo = r.todo /\ r2.out = r.out
  BY <1>2, <1>7 DEF RunFields
<1>9. Shaped(r2)
  BY <1>6, <1>7, <1>8 DEF Sound, Shaped, WorkOf
<1>10. Sound(r2)
  BY <1>6, <1>7, <1>8, <1>9 DEF Sound, Fitting
<1>11. file'[Root(w)][t] = next
  <2>1. DOMAIN file = Roots /\ DOMAIN file[Root(w)] = Tasks /\ Root(w) \in Roots /\ t \in Tasks
    BY <1>1, <1>2, RootsKnown, Shapes DEF Inv, Domains
  <2> QED
    BY <1>4, <2>1
<1>12. Only(r) => now = Truncated
  BY <1>1, <1>2, <1>3, <1>7 DEF Placed
<1>13. Placed(w, r2)'
  <2>1. Root(w)' = Root(w) /\ (Only(r2)' => Only(r))
    BY <1>5, <1>8 DEF Root, Only
  <2>2. Only(r2)' => file'[Root(w)'][r2.task] = Whole(r2.out)
    BY <1>2, <1>3, <1>4, <1>8, <1>11, <1>12, <2>1
  <2> QED
    BY <1>5, <1>6, <1>7, <1>8, <2>2 DEF Placed, WorkOf
<1>14. /\ DOMAIN mine = {"state", "attempt", "text"} /\ mine.text \in Nat
       /\ mine.attempt \in Nat /\ mine.attempt >= 1 /\ mine.attempt <= attempts[t]
  BY <1>2, <1>3, <1>7 DEF Whole, Sound, Shaped, Placed
<1>15. /\ DOMAIN Garbled = {"state", "attempt", "text"} /\ Garbled.text \in Nat
       /\ Garbled.attempt \in Nat /\ Garbled.state # "whole"
  BY DEF Garbled
<1>16. /\ DOMAIN next = {"state", "attempt", "text"}
       /\ next.text \in Nat /\ next.attempt \in Nat
       /\ next.state = "whole" => next.attempt >= 1 /\ next.attempt <= attempts[t]
  BY <1>4, <1>14, <1>15
<1> HIDE DEF r
<1>17. r2.task = run[w].task /\ r2.attempt = run[w].attempt
  BY <1>8 DEF r
<1> QED
  BY <1>1, <1>2, <1>4, <1>5, <1>10, <1>13, <1>16, <1>17, WriteKeeps

LEMMA LostPlaced ==
    ASSUME NEW v, NEW r, NEW r2, NEW x, Sound(r), Placed(v, r), r2 = [r EXCEPT !.lost = x]
    PROVE  Sound(r2) /\ Placed(v, r2) /\ r2.task = r.task /\ r2.attempt = r.attempt
<1>1. DOMAIN r = RunFields
  BY DEF Sound, Shaped
<1>2. /\ DOMAIN r2 = RunFields /\ r2.pc = r.pc /\ r2.error = r.error /\ r2.task = r.task
      /\ r2.attempt = r.attempt /\ r2.todo = r.todo /\ r2.out = r.out
  BY <1>1 DEF RunFields
<1>3. Shaped(r2)
  BY <1>2 DEF Sound, Shaped, WorkOf
<1>4. Sound(r2)
  BY <1>2, <1>3 DEF Sound, Fitting, WorkOf
<1>5. Placed(v, r2)
  BY <1>2 DEF Placed, WorkOf, Only
<1> QED
  BY <1>2, <1>4, <1>5

LEMMA InstallBeginKeeps ==
    ASSUME Inv, NEW w \in Workers, InstallBegin(w)
    PROVE  RunsInv' /\ AttemptsApart' /\ DoneInv' /\ FilesInv'
<1>1. Runs(w) /\ run[w].pc = "install" /\ run[w] # Idle
  BY Running DEF InstallBegin, Inv
<1>2. UNCHANGED <<setup, attempts, done, file>>
  BY DEF InstallBegin, engine
<1>3. /\ run'[w] = [run[w] EXCEPT !.pc = "download"]
      /\ \A v \in Workers : v # w =>
            run'[v] = run[v] \/ (At(v, "download") /\ run'[v] = [run[v] EXCEPT !.lost = TRUE])
  BY DEF InstallBegin
<1>4. Moves(w, run'[w])
  <2>1. PICK r2 : r2 = [run[w] EXCEPT !.pc = "download"]
    OBVIOUS
  <2>2. DOMAIN run[w] = RunFields
    BY <1>1, Shapes
  <2>3. /\ DOMAIN r2 = RunFields /\ r2.pc = "download" /\ r2.error = run[w].error
        /\ r2.task = run[w].task /\ r2.attempt = run[w].attempt /\ r2.todo = run[w].todo
        /\ r2.out = run[w].out
    BY <2>1, <2>2 DEF RunFields
  <2>4. Fitting(r2)
    BY <1>1, <2>3 DEF Fitting, Runs, Sound, WorkOf
  <2>5. ModelTrue(r2.out)
    BY <1>1, <2>3 DEF Runs, Sound
  <2>6. /\ DOMAIN r2.out = OutFields /\ r2.out.attempt = run[w].attempt
        /\ r2.out.text \in Nat /\ r2.out.sources = run[w].out.sources
    BY <1>1, <2>3, Shapes
  <2>7. run[w].pc # "report" /\ "download" \in {"install", "download", "call", "command", "single",
                                                "batch", "search", "stuck"}
    BY <1>1
  <2>8. Moves(w, r2)
    BY <1>1, <2>3, <2>4, <2>5, <2>6, <2>7, GoesOn
  <2> QED
    BY <1>3, <2>1, <2>8
<1>5. ASSUME NEW v \in Workers, run[v] # Idle
      PROVE  \E r2 : /\ run'[v] = r2 /\ Sound(r2) /\ Placed(v, r2)
                     /\ r2.task = run[v].task /\ r2.attempt = run[v].attempt
  <2>1. CASE v = w
    BY <1>4, <2>1 DEF Moves
  <2>2. CASE v # w
    <3>1. PICK r : r = run[v]
      OBVIOUS
    <3>2. Sound(r) /\ Placed(v, r)
      BY <1>5, <3>1 DEF Inv, RunsInv
    <3>3. CASE run'[v] = run[v]
      BY <3>1, <3>2, <3>3
    <3>4. CASE run'[v] = [run[v] EXCEPT !.lost = TRUE]
      <4>1. PICK r2 : r2 = [r EXCEPT !.lost = TRUE]
        OBVIOUS
      <4>2. Sound(r2) /\ Placed(v, r2) /\ r2.task = r.task /\ r2.attempt = r.attempt
        BY <3>2, <4>1, LostPlaced
      <4> QED
        BY <3>1, <3>4, <4>1, <4>2
    <3> QED
      BY <1>3, <2>2, <3>3, <3>4
  <2> QED
    BY <2>1, <2>2
<1>6. ASSUME NEW v \in Workers, run[v] = Idle PROVE run'[v] = Idle
  BY <1>1, <1>3, <1>6 DEF At, Idle
<1>7. RunsInv'
  <2> SUFFICES ASSUME NEW v \in Workers, run[v] # Idle
               PROVE  Sound(run[v])' /\ Placed(v, run[v])'
    BY <1>6 DEF RunsInv
  <2>1. PICK r2 : run'[v] = r2 /\ Sound(r2) /\ Placed(v, r2)
    BY <1>5
  <2>2. Sound(r2)'
    BY <1>2, <2>1, SoundStays
  <2>3. Placed(v, r2)'
    BY <1>2, <2>1 DEF Placed, WorkOf, Only, Root, Repeated
  <2> QED
    BY <2>1, <2>2, <2>3
<1>8. AttemptsApart'
  <2>1. ASSUME NEW v \in Workers, run'[v] # Idle
        PROVE  run[v] # Idle /\ run'[v].task = run[v].task /\ run'[v].attempt = run[v].attempt
    BY <1>5, <1>6, <2>1
  <2> QED
    BY <2>1 DEF Inv, AttemptsApart
<1>9. DoneInv'
  BY <1>2 DEF Inv, DoneInv
<1>10. FilesInv'
  BY <1>2 DEF Inv, FilesInv, Root
<1> QED
  BY <1>7, <1>8, <1>9, <1>10

---------------------------------------------------------------------------
(* The model cache. *)

OthersStay(w) == \A v \in Workers : v # w => run'[v] = run[v]

LEMMA GotoOthers ==
    ASSUME Inv, NEW w \in Workers, NEW r, Goto(w, r)
    PROVE  OthersStay(w) /\ DOMAIN run' = Workers /\ run'[w] = r
BY DEF Goto, OthersStay, Inv, Domains

LEMMA ModelsStay ==
    ASSUME Inv, NEW w \in Workers, ~At(w, "download"), OthersStay(w),
           UNCHANGED <<setup, model, stopped>>
    PROVE  ModelsInv'
<1> SUFFICES ASSUME NEW r \in Roots, model'[r] = "partial"
             PROVE  r \in stopped' \/ \E v \in Workers : At(v, "download")' /\ Root(v)' = r
  BY DEF ModelsInv
<1>1. r \in stopped \/ \E v \in Workers : At(v, "download") /\ Root(v) = r
  BY DEF Inv, ModelsInv
<1>2. ASSUME NEW v \in Workers, At(v, "download"), Root(v) = r
      PROVE  At(v, "download")' /\ Root(v)' = r
  BY <1>2 DEF OthersStay, At, Root
<1> QED
  BY <1>1, <1>2

\* A download that stops is in stopped.
LEMMA ModelsStopped ==
    ASSUME Inv, NEW w \in Workers, OthersStay(w), UNCHANGED <<setup, model>>,
           stopped \subseteq stopped', At(w, "download") => Root(w) \in stopped'
    PROVE  ModelsInv'
<1> SUFFICES ASSUME NEW r \in Roots, model'[r] = "partial"
             PROVE  r \in stopped' \/ \E v \in Workers : At(v, "download")' /\ Root(v)' = r
  BY DEF ModelsInv
<1>1. r \in stopped \/ \E v \in Workers : At(v, "download") /\ Root(v) = r
  BY DEF Inv, ModelsInv
<1>2. ASSUME NEW v \in Workers, v # w, At(v, "download"), Root(v) = r
      PROVE  At(v, "download")' /\ Root(v)' = r
  BY <1>2 DEF OthersStay, At, Root
<1> QED
  BY <1>1, <1>2

LEMMA InstallBeginModels ==
    ASSUME Inv, NEW w \in Workers, InstallBegin(w)
    PROVE  ModelsInv'
<1> DEFINE q == Root(w)
<1>1. model'[q] # "partial" /\ \A r \in Roots : r # q => model'[r] = model[r]
  <2>1. DOMAIN model = Roots /\ q \in Roots
    BY RootsKnown DEF Inv, Domains
  <2>2. model'[q] = IF ~onlyIfMissing(w) \/ model[q] = "absent" THEN "empty" ELSE model[q]
    BY <2>1 DEF InstallBegin
  <2>3. onlyIfMissing(w) => model[q] # "partial"
    BY DEF InstallBegin, dirHasContents
  <2> QED
    BY <2>1, <2>2, <2>3 DEF InstallBegin
<1> SUFFICES ASSUME NEW r \in Roots, model'[r] = "partial"
             PROVE  r \in stopped' \/ \E v \in Workers : At(v, "download")' /\ Root(v)' = r
  BY DEF ModelsInv
<1>2. r # q /\ model[r] = "partial"
  BY <1>1
<1>3. r \in stopped \/ \E v \in Workers : At(v, "download") /\ Root(v) = r
  BY <1>2 DEF Inv, ModelsInv
<1>4. r \in stopped => r \in stopped'
  BY <1>2 DEF InstallBegin
<1>5. ASSUME NEW v \in Workers, At(v, "download"), Root(v) = r
      PROVE  At(v, "download")' /\ Root(v)' = r
  <2>1. v # w
    BY <1>2, <1>5
  <2>2. run'[v] = run[v]
    BY <1>2, <1>5, <2>1 DEF InstallBegin
  <2> QED
    BY <1>5, <2>2 DEF At, Root, InstallBegin, engine
<1> QED
  BY <1>3, <1>4, <1>5

LEMMA DownloadSomeModels ==
    ASSUME Inv, NEW w \in Workers, DownloadSome(w)
    PROVE  ModelsInv'
<1> SUFFICES ASSUME NEW r \in Roots, model'[r] = "partial"
             PROVE  r \in stopped' \/ \E v \in Workers : At(v, "download")' /\ Root(v)' = r
  BY DEF ModelsInv
<1>1. \A v \in Workers : (At(v, "download") <=> At(v, "download")') /\ Root(v)' = Root(v)
  BY DEF DownloadSome, At, Root, engine
<1>2. CASE r = Root(w)
  BY <1>1, <1>2 DEF DownloadSome
<1>3. CASE r # Root(w)
  <2>1. model[r] = "partial"
    BY <1>3 DEF DownloadSome, Inv, Domains
  <2> QED
    BY <1>1, <2>1 DEF Inv, ModelsInv, DownloadSome
<1> QED
  BY <1>2, <1>3

LEMMA DownloadEndsModels ==
    ASSUME Inv, NEW w \in Workers, DownloadEnds(w), OthersStay(w)
    PROVE  ModelsInv'
<1> DEFINE q == Root(w)
<1>1. DOMAIN model = Roots /\ q \in Roots
  BY RootsKnown DEF Inv, Domains
<1>2. /\ model'[q] = "partial" => q \in stopped'
      /\ \A r \in Roots : r # q => model'[r] = model[r]
      /\ stopped \subseteq stopped'
  BY <1>1 DEF DownloadEnds
<1> SUFFICES ASSUME NEW r \in Roots, model'[r] = "partial", r # q
             PROVE  r \in stopped' \/ \E v \in Workers : At(v, "download")' /\ Root(v)' = r
  BY <1>2 DEF ModelsInv
<1>3. r \in stopped \/ \E v \in Workers : At(v, "download") /\ Root(v) = r
  BY <1>2 DEF Inv, ModelsInv
<1>4. ASSUME NEW v \in Workers, At(v, "download"), Root(v) = r
      PROVE  At(v, "download")' /\ Root(v)' = r
  BY <1>4 DEF OthersStay, At, Root, DownloadEnds, engine
<1> QED
  BY <1>2, <1>3, <1>4

---------------------------------------------------------------------------
(* The invariant. *)

\* Steps of which others see nothing.
LocalAction(w) ==
    \/ Unsupported(w) \/ InstallElsewhere(w) \/ InstallFound(w) \/ DownloadEnds(w)
    \/ DownloadFails(w) \/ DownloadHangs(w) \/ Call(w) \/ ToolUndefined(w) \/ ToolBegin(w)
    \/ ToolEnds(w) \/ ToolHangs(w) \/ EmbedBatch(w) \/ EmbedSingle(w) \/ Search(w)
    \/ LoadDependency(w) \/ Aggregate(w) \/ WriteFails(w) \/ UploadEnds(w) \/ Crash(w)

LEMMA LocalActions ==
    ASSUME Inv, NEW w \in Workers, LocalAction(w)
    PROVE  run[w] # Idle /\ Local(w)
BY UnsupportedLocal, InstallElsewhereLocal, InstallFoundLocal, DownloadEndsLocal, DownloadFailsLocal,
   HangsLocal, CallLocal, ToolUndefinedLocal, ToolBeginLocal, ToolEndsLocal, EmbedBatchLocal,
   EmbedSingleLocal, SearchLocal, LoadDependencyLocal, AggregateLocal, EndsLocal, CrashLocal
   DEF LocalAction

LEMMA LocalOthers ==
    ASSUME Inv, NEW w \in Workers, Local(w)
    PROVE  OthersStay(w) /\ DOMAIN run' = Workers
BY DEF Local, OthersStay, Inv, Domains

\* The actions that leave the cache alone are of workers that do not download.
LEMMA LocalModels ==
    ASSUME Inv, NEW w \in Workers, LocalAction(w)
    PROVE  ModelsInv'
<1>1. OthersStay(w)
  BY LocalActions, LocalOthers
<1>2. CASE DownloadEnds(w)
  BY <1>1, <1>2, DownloadEndsModels
<1>3. CASE DownloadFails(w) \/ DownloadHangs(w) \/ Crash(w)
  <2>1. /\ UNCHANGED <<setup, model>> /\ stopped \subseteq stopped'
        /\ At(w, "download") => Root(w) \in stopped'
    BY <1>3 DEF DownloadFails, DownloadHangs, Crash, engine
  <2> QED
    BY <1>1, <2>1, ModelsStopped
<1>4. CASE \/ Unsupported(w) \/ InstallElsewhere(w) \/ InstallFound(w) \/ Call(w)
           \/ ToolUndefined(w) \/ ToolBegin(w) \/ ToolEnds(w) \/ ToolHangs(w)
           \/ EmbedBatch(w) \/ EmbedSingle(w) \/ Search(w)
           \/ LoadDependency(w) \/ Aggregate(w) \/ WriteFails(w) \/ UploadEnds(w)
  <2>1. UNCHANGED <<setup, model, stopped>>
    BY <1>4 DEF Unsupported, InstallElsewhere, InstallFound, Call, ToolUndefined, ToolBegin,
       ToolEnds, ToolHangs, EmbedBatch, EmbedSingle, Search, LoadDependency, Aggregate,
       WriteFails, UploadEnds, engine, cache
  <2>2. ~At(w, "download")
    BY <1>4 DEF Unsupported, InstallElsewhere, InstallFound, Call, ToolUndefined, ToolBegin,
       ToolEnds, ToolHangs, EmbedBatch, EmbedSingle, Search, LoadDependency, Aggregate,
       WriteFails, UploadEnds, At
  <2> QED
    BY <1>1, <2>1, <2>2, ModelsStay
<1> QED
  BY <1>2, <1>3, <1>4 DEF LocalAction

LEMMA LocalDomains ==
    ASSUME Inv, NEW w \in Workers, LocalAction(w)
    PROVE  Domains'
<1>1. DOMAIN run' = Workers /\ UNCHANGED <<setup, attempts, done, file>>
  BY LocalActions, LocalOthers DEF Local
<1>2. DOMAIN model' = Roots
  <2>1. UNCHANGED model \/ DownloadEnds(w)
    BY DEF LocalAction, Unsupported, InstallElsewhere, InstallFound, Call, ToolUndefined, ToolBegin,
       ToolEnds, ToolHangs, EmbedBatch, EmbedSingle, Search, LoadDependency, Aggregate,
       WriteFails, UploadEnds, DownloadFails, DownloadHangs, Crash, cache
  <2> QED
    BY <2>1 DEF Inv, Domains, DownloadEnds
<1> QED
  BY <1>1, <1>2 DEF Inv, Domains

\* Steps that change no model and are not of a worker that downloads.
LEMMA QuietKeeps ==
    ASSUME Inv, NEW w \in Workers,
           (\E t \in Tasks : Assign(w, t)) \/ Report(w) \/ WriteBegin(w) \/ WriteEnd(w)
    PROVE  Domains' /\ ModelsInv'
<1>1. UNCHANGED <<setup, model, stopped>> /\ ~At(w, "download")
  BY DEF Assign, Report, WriteBegin, WriteEnd, engine, cache, At
<1>2. PICK r : Goto(w, r)
  BY DEF Assign, Report, WriteBegin, WriteEnd
<1>3. OthersStay(w) /\ DOMAIN run' = Workers
  BY <1>2, GotoOthers
<1>4. DOMAIN attempts' = Tasks /\ DOMAIN done' = Tasks
  BY DEF Inv, Domains, Assign, Report, WriteBegin, WriteEnd, engine
<1>5. DOMAIN file' = Roots /\ \A q \in Roots : DOMAIN file'[q] = Tasks
  <2>1. DOMAIN file = Roots /\ \A q \in Roots : DOMAIN file[q] = Tasks
    BY DEF Inv, Domains
  <2>2. file' = file \/ \E q, t, f : file' = [file EXCEPT ![q][t] = f]
    BY DEF Assign, Report, WriteBegin, WriteEnd
  <2> QED
    BY <2>1, <2>2
<1>6. Domains'
  BY <1>1, <1>3, <1>4, <1>5 DEF Inv, Domains
<1>7. ModelsInv'
  BY <1>1, <1>3, ModelsStay
<1> QED
  BY <1>6, <1>7

LEMMA InstallBeginInv ==
    ASSUME Inv, NEW w \in Workers, InstallBegin(w)
    PROVE  Inv'
<1>1. Domains'
  BY DEF Inv, Domains, InstallBegin, engine
<1> QED
  BY <1>1, InstallBeginKeeps, InstallBeginModels DEF Inv

\* What an invariant of everything but the models says of a state with others.
LEMMA SameRuns ==
    ASSUME Inv, UNCHANGED <<setup, run, attempts, done, file>>
    PROVE  RunsInv' /\ AttemptsApart' /\ DoneInv' /\ FilesInv'
<1>1. RunsInv'
  <2> SUFFICES ASSUME NEW w \in Workers, run[w] # Idle
               PROVE  Sound(run[w])' /\ Placed(w, run[w])'
    BY DEF RunsInv
  <2>1. PICK r : r = run[w]
    OBVIOUS
  <2>2. Sound(r) /\ Placed(w, r)
    BY <2>1 DEF Inv, RunsInv
  <2>3. Sound(r)'
    BY <2>2, SoundStays
  <2>4. Placed(w, r)'
    BY <2>2 DEF Placed, WorkOf, Only, Root, Repeated
  <2> QED
    BY <2>1, <2>3, <2>4
<1> QED
  BY <1>1 DEF Inv, AttemptsApart, DoneInv, FilesInv, Root

LEMMA DownloadSomeInv ==
    ASSUME Inv, NEW w \in Workers, DownloadSome(w)
    PROVE  Inv'
<1>1. UNCHANGED <<setup, run, attempts, done, file>>
  BY DEF DownloadSome, engine
<1>2. Domains'
  BY <1>1 DEF Inv, Domains, DownloadSome
<1> QED
  BY <1>1, <1>2, SameRuns, DownloadSomeModels DEF Inv

LEMMA StutterInv ==
    ASSUME Inv, UNCHANGED vars
    PROVE  Inv'
<1>1. UNCHANGED <<setup, run, attempts, done, file>> /\ UNCHANGED <<model, stopped>>
  BY DEF vars
<1>2. Domains' /\ ModelsInv'
  BY <1>1 DEF Inv, Domains, ModelsInv, At, Root
<1> QED
  BY <1>1, <1>2, SameRuns DEF Inv

LEMMA LocalInv ==
    ASSUME Inv, NEW w \in Workers, LocalAction(w)
    PROVE  Inv'
BY LocalActions, LocalKeeps, LocalModels, LocalDomains DEF Inv

LEMMA QuietInv ==
    ASSUME Inv, NEW w \in Workers,
           (\E t \in Tasks : Assign(w, t)) \/ Report(w) \/ WriteBegin(w) \/ WriteEnd(w)
    PROVE  Inv'
BY QuietKeeps, AssignKeeps, ReportKeeps, WriteBeginKeeps, WriteEndKeeps DEF Inv

LEMMA NextInv ==
    Inv /\ [Next]_vars => Inv'
<1> SUFFICES ASSUME Inv, [Next]_vars
             PROVE  Inv'
  OBVIOUS
<1>1. CASE UNCHANGED vars
  BY <1>1, StutterInv
<1>2. CASE Next
  <2>1. PICK w \in Workers : (\E t \in Tasks : Assign(w, t)) \/ Step(w) \/ Crash(w)
    BY <1>2 DEF Next
  <2>2. \/ LocalAction(w) \/ InstallBegin(w) \/ DownloadSome(w)
        \/ (\E t \in Tasks : Assign(w, t)) \/ Report(w) \/ WriteBegin(w) \/ WriteEnd(w)
    BY <2>1 DEF Step, LocalAction
  <2> QED
    BY <2>2, LocalInv, InstallBeginInv, DownloadSomeInv, QuietInv
<1> QED
  BY <1>1, <1>2

LEMMA InitInv ==
    Init => Inv
<1> SUFFICES ASSUME Init
             PROVE  Inv
  OBVIOUS
<1>1. Domains
  BY DEF Init, Domains
<1>2. RunsInv /\ AttemptsApart /\ ModelsInv
  BY DEF Init, RunsInv, AttemptsApart, ModelsInv
<1>3. DoneInv
  BY DEF Init, DoneInv, NoOne
<1>4. FilesInv
  <2>1. DOMAIN Absent = {"state", "attempt", "text"} /\ Absent.text = 0 /\ Absent.attempt = 0
        /\ Absent.state # "whole"
    BY DEF Absent
  <2>2. \A r \in Roots, t \in Tasks : file[r][t] = Absent
    BY DEF Init
  <2>3. \A t \in Tasks : done[t] = NoOne
    BY DEF Init
  <2> QED
    BY <2>1, <2>2, <2>3 DEF FilesInv
<1> QED
  BY <1>1, <1>2, <1>3, <1>4 DEF Inv

---------------------------------------------------------------------------
(* What the invariant says. *)

\* AggregationsTrue, of one output.
AggregatedTrue(w, out) ==
    /\ Work(w).strict => Work(w).deps \subseteq SourceDeps(out)
    /\ \A s \in ToSet(out.sources) :
          s.dep = 0 \/ s.attempt = done[s.dep].attempt \/ Repeated(s.dep)
    /\ ReducedTo(out.sources, out)

LEMMA AggregatedSays ==
    (\A w \in Workers : Ending(w, "aggregation") => AggregatedTrue(w, run[w].out)) =>
        AggregationsTrue
BY Zenon DEF AggregationsTrue, AggregatedTrue, SourceDeps, ReducedTo

LEMMA AggregationsFollow ==
    Inv => AggregationsTrue
<1> SUFFICES ASSUME Inv, NEW w \in Workers, Ending(w, "aggregation")
             PROVE  AggregatedTrue(w, run[w].out)
  BY AggregatedSays
<1>1. Runs(w) /\ run[w].pc = "write"
  BY Running DEF Ending, Inv
<1>2. PICK out : out = run[w].out
  OBVIOUS
<1>3. Answers(Work(w), out) /\ Work(w).type = "aggregation" /\ out.sources \in Sources
  BY <1>1, <1>2 DEF Runs, Sound, Shaped, Work, WorkOf, Ending
<1>4. ReducedTo(out.sources, out)
  BY <1>3 DEF Answers
<1>5. Work(w).strict => Work(w).deps \subseteq SourceDeps(out)
  BY <1>3 DEF Answers
<1>6. ASSUME NEW s \in ToSet(out.sources), s.dep # 0, ~Repeated(s.dep)
      PROVE  s.attempt = done[s.dep].attempt
  <2>1. PICK i \in DOMAIN out.sources : s = out.sources[i]
    BY DEF ToSet
  <2>2. PICK d, a : d = s.dep /\ a = s.attempt
    OBVIOUS
  <2>3. d \in Tasks /\ done[d] # NoOne /\ a >= 1 /\ a <= attempts[d]
    BY <1>1, <1>2, <1>6, <2>1, <2>2 DEF Runs, Placed
  <2>4. a \in Nat
    <3> DEFINE T == [dep : Nat, attempt : Nat, text : Nat]
    <3>1. out.sources \in Seq(T) /\ \A x \in T : x.attempt \in Nat
      BY <1>3 DEF Sources
    <3> HIDE DEF T
    <3>2. s \in T
      BY <2>1, <3>1
    <3> QED
      BY <2>2, <3>1, <3>2
  <2>5. PICK b, c : b = done[d].attempt /\ c = attempts[d]
    OBVIOUS
  <2>6. c \in Nat /\ b \in Nat /\ b >= 1 /\ b <= c /\ ~(c > 1) /\ a <= c
    BY <1>6, <2>2, <2>3, <2>5 DEF Inv, DoneInv, Repeated
  <2>7. a = b
    BY <2>3, <2>4, <2>6
  <2> QED
    BY <2>2, <2>5, <2>7
<1>7. AggregatedTrue(w, out)
  BY <1>4, <1>5, <1>6 DEF AggregatedTrue
<1> QED
  BY <1>2, <1>7

LEMMA LoadFailuresFollow ==
    Inv => LoadFailuresHaveCause
<1> SUFFICES ASSUME Inv, NEW w \in Workers, At(w, "report"), run[w].error = "load"
             PROVE  LET d == Min(run[w].todo)
                    IN  setup.minio \/ Root(done[d].worker) # Root(w) \/ Repeated(d)
  BY DEF LoadFailuresHaveCause
<1>1. Runs(w) /\ run[w].pc = "report"
  BY Running DEF Inv
<1> QED
  BY <1>1 DEF Runs, Placed

LEMMA ModelsFollow ==
    Inv => InstalledModelsWhole
<1> SUFFICES ASSUME Inv, NEW w \in Workers, At(w, "write")
             PROVE  ModelTrue(run[w].out)
  BY DEF InstalledModelsWhole, ModelTrue
<1>1. Runs(w)
  BY Running DEF Inv
<1> QED
  BY <1>1 DEF Runs, Sound

LEMMA OutputsFollow ==
    Inv => OutputsComplete
<1> SUFFICES ASSUME Inv, NEW w \in Workers, At(w, "write")
             PROVE  LET out == run[w].out
                        work == Work(w)
                    IN  /\ Ending(w, "tool_execution") /\ ~out.ran =>
                              ~work.command /\ \A t \in catalog.tools : t.id # work.tool
                        /\ Ending(w, "embedding") => out.vectors = work.texts
                        /\ Ending(w, "retrieval") /\ ~work.remote =>
                              /\ out.hits \subseteq work.match
                              /\ Cardinality(out.hits) < work.topK => out.hits = work.match
  BY DEF OutputsComplete, Ending
<1>1. Runs(w) /\ run[w].pc = "write"
  BY Running DEF Inv
<1>2. Answers(Work(w), run[w].out)
  BY <1>1 DEF Runs, Sound, Work, WorkOf
<1> QED
  BY <1>2 DEF Answers, Ending

\* The inductive invariant holds of every behaviour.
LEMMA InvHolds ==
    Spec => []Inv
<1>1. Init => Inv
  BY InitInv
<1>2. Inv /\ [Next]_vars => Inv'
  BY NextInv
<1> QED
  BY <1>1, <1>2, PTL DEF Spec

\* Whatever workers, tasks and attempts there are and however they interleave, an
\* aggregation about to be stored has read whole artifacts of its dependencies, of
\* the attempt that completed them unless there were several, and its text,
\* provenance and conflicts are those of all sources together
\* (reduceAggregationSources is a fold over the sources in order).
THEOREM AggregationsAreTrue ==
    Spec => []AggregationsTrue
<1>1. Inv => AggregationsTrue
  BY AggregationsFollow
<1> QED
  BY <1>1, InvHolds, PTL

\* A strict aggregation that fails on a dependency fails for one of three reasons:
\* MinIO, another ArtifactRoot, or several attempts at the dependency; a single
\* attempt's file is never seen truncated by those who may read it.
THEOREM LoadFailuresExplained ==
    Spec => []LoadFailuresHaveCause
<1>1. Inv => LoadFailuresHaveCause
  BY LoadFailuresFollow
<1> QED
  BY <1>1, InvHolds, PTL

\* A model is reported installed when all of it is there, or a download into its
\* directory was stopped or disturbed: no interleaving of ensureModelInstalled and
\* of downloads by others gives a third case.
THEOREM InstalledModelsAreWhole ==
    Spec => []InstalledModelsWhole
<1>1. Inv => InstalledModelsWhole
  BY ModelsFollow
<1> QED
  BY <1>1, InvHolds, PTL

\* A tool that did not run had neither a command nor a definition, every text has
\* its vector after whatever retries and fallbacks, and a local search has the
\* documents that match up to top_k.
THEOREM OutputsAreComplete ==
    Spec => []OutputsComplete
<1>1. Inv => OutputsComplete
  BY OutputsFollow
<1> QED
  BY <1>1, InvHolds, PTL
=============================================================================
