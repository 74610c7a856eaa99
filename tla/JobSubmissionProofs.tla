------------------------ MODULE JobSubmissionProofs ------------------------
(***************************************************************************)
(* Proofs about JobSubmission, for every number of servers and handlers,   *)
(* all requests, plans, policies and deployments.                          *)
(***************************************************************************)
EXTENDS JobSubmission, FiniteSetTheorems, TLAPS

---------------------------------------------------------------------------
(* Plans. *)

TaskFieldNames == {"id", "type", "deps", "backend", "inputs"}

\* A list of tasks, whatever the values of their fields.
IsDag(dag) ==
    /\ dag \in Seq({dag[i] : i \in DOMAIN dag})
    /\ \A i \in DOMAIN dag : DOMAIN dag[i] = TaskFieldNames

\* Sound by positions instead of IDs.
Ordered(dag) ==
    /\ \A i, k \in DOMAIN dag : dag[i].id = dag[k].id => i = k
    /\ \A i \in DOMAIN dag : dag[i].deps \subseteq IDs(dag)
    /\ \A S \in SUBSET IDs(dag) : S # {} =>
          \E i \in DOMAIN dag : dag[i].id \in S /\ dag[i].deps \cap S = {}

InferenceWaits(dag) ==
    \A i \in DOMAIN dag : IsInference(dag[i]) =>
        \E k \in DOMAIN dag : dag[k].type = "model_download" /\ dag[k].id \in dag[i].deps

PlanFit(plan) == Sound(plan) /\ ~(InstallIDs \subseteq IDs(plan))

\* What a handler has made of a request and a plan.
DagFits(req, plan, dag) ==
    /\ IsDag(dag)
    /\ PlanFit(plan) => /\ Ordered(dag)
                        /\ req.install /\ req.model # "" => InferenceWaits(dag)

LEMMA Least ==
    ASSUME NEW S \in SUBSET Nat, S # {}
    PROVE  Min(S) \in S /\ \A y \in S : Min(S) <= y
<1> DEFINE R == {ss \in Nat \X Nat : ss[1] < ss[2]}
<1>1. IsWellFoundedOn(R, Nat)
  BY NatLessThanWellFounded DEF OpToRel
<1> HIDE DEF R
<1>2. PICK x \in S : \A y \in S : ~(<<y, x>> \in R)
  BY <1>1, WFMin, Zenon
<1>3. ASSUME NEW y \in S PROVE x <= y
  <2>1. y \in Nat /\ x \in Nat
    OBVIOUS
  <2>2. ~(<<y, x>> \in R)
    BY <1>2
  <2>3. ~(y < x)
    BY <2>1, <2>2 DEF R
  <2> QED
    BY <2>1, <2>3
<1> QED
  BY <1>3 DEF Min

LEMMA Greatest ==
    ASSUME NEW n \in Nat, NEW S \in SUBSET (1..n), S # {}
    PROVE  Max(S) \in S
<1> DEFINE D == {n - x : x \in S}
<1>1. \A x \in S : x \in Nat /\ x <= n
  OBVIOUS
<1>2. D \in SUBSET Nat /\ D # {}
  <2>1. \A x \in S : n - x \in Nat
    BY <1>1
  <2>2. PICK x : x \in S
    OBVIOUS
  <2>3. n - x \in D
    BY <2>2
  <2> QED
    BY <2>1, <2>3
<1>3. Min(D) \in D /\ \A y \in D : Min(D) <= y
  BY <1>2, Least
<1>4. PICK x \in S : Min(D) = n - x
  BY <1>3
<1>5. \A y \in S : n - x <= n - y
  BY <1>3, <1>4
<1>6. \A y \in S : x >= y
  BY <1>1, <1>5
<1> QED
  BY <1>6 DEF Max

LEMMA DagDomain ==
    ASSUME NEW dag, IsDag(dag)
    PROVE  Len(dag) \in Nat /\ DOMAIN dag = 1..Len(dag)
BY DEF IsDag

LEMMA DagsAreDags ==
    ASSUME NEW dag \in DAGs
    PROVE  IsDag(dag)
<1>1. DOMAIN dag = 1..Len(dag) /\ Len(dag) \in Nat
  BY DEF DAGs
<1>2. dag \in Seq({dag[i] : i \in DOMAIN dag})
  BY <1>1 DEF DAGs
<1>3. \A i \in DOMAIN dag : DOMAIN dag[i] = TaskFieldNames
  <2> DEFINE T == [id : STRING, type : STRING, deps : SUBSET STRING, backend : STRING,
                  inputs : Inputs]
  <2>1. \A t \in T : DOMAIN t = TaskFieldNames
    BY DEF TaskFieldNames
  <2>2. dag \in Seq(T)
    BY DEF DAGs
  <2> HIDE DEF T
  <2> QED
    BY <1>1, <2>1, <2>2
<1> QED
  BY <1>2, <1>3 DEF IsDag

\* A function on 1..n whose values are tasks is a list of tasks.
LEMMA MadeDag ==
    ASSUME NEW n \in Nat, NEW T, NEW dag \in [1..n -> T],
           \A i \in 1..n : DOMAIN dag[i] = TaskFieldNames
    PROVE  IsDag(dag) /\ DOMAIN dag = 1..n /\ Len(dag) = n
<1> DEFINE R == {dag[i] : i \in 1..n}
<1>1. DOMAIN dag = 1..n
  OBVIOUS
<1>2. dag \in [1..n -> R]
  OBVIOUS
<1>3. dag \in Seq(R)
  BY <1>2
<1> QED
  BY <1>1, <1>3 DEF IsDag

LEMMA SoundOrdered ==
    ASSUME NEW dag
    PROVE  Sound(dag) <=> Ordered(dag)
<1>1. ASSUME UniqueIDs(dag), NEW i \in DOMAIN dag PROVE TaskCalled(dag, dag[i].id) = dag[i]
  BY <1>1 DEF UniqueIDs, TaskCalled
<1> DEFINE deps == [id \in IDs(dag) |-> TaskCalled(dag, id).deps]
<1>2. ASSUME UniqueIDs(dag), NEW i \in DOMAIN dag
      PROVE  dag[i].id \in IDs(dag) /\ deps[dag[i].id] = dag[i].deps
  BY <1>1, <1>2 DEF IDs
<1>3. \A id \in IDs(dag) : \E i \in DOMAIN dag : id = dag[i].id
  BY DEF IDs
<1> HIDE DEF deps
<1>4. ASSUME UniqueIDs(dag), Runnable(IDs(dag), deps) PROVE Ordered(dag)
  <2>1. \A i \in DOMAIN dag : dag[i].deps \subseteq IDs(dag)
    BY <1>2, <1>4 DEF Runnable
  <2>2. ASSUME NEW S \in SUBSET IDs(dag), S # {}
        PROVE  \E i \in DOMAIN dag : dag[i].id \in S /\ dag[i].deps \cap S = {}
    <3>1. PICK id \in S : deps[id] \cap S = {}
      BY <1>4, <2>2 DEF Runnable
    <3>2. PICK i \in DOMAIN dag : id = dag[i].id
      BY <1>3, <3>1
    <3> QED
      BY <1>2, <1>4, <3>1, <3>2
  <2> QED
    BY <1>4, <2>1, <2>2 DEF Ordered, UniqueIDs
<1>5. ASSUME Ordered(dag) PROVE UniqueIDs(dag) /\ Runnable(IDs(dag), deps)
  <2>1. UniqueIDs(dag)
    BY <1>5 DEF Ordered, UniqueIDs
  <2>2. \A id \in IDs(dag) : deps[id] \subseteq IDs(dag)
    <3> TAKE id \in IDs(dag)
    <3>1. PICK i \in DOMAIN dag : id = dag[i].id
      BY <1>3
    <3> QED
      BY <1>2, <1>5, <2>1, <3>1 DEF Ordered
  <2>3. ASSUME NEW S \in SUBSET IDs(dag), S # {} PROVE \E id \in S : deps[id] \cap S = {}
    <3>1. PICK i \in DOMAIN dag : dag[i].id \in S /\ dag[i].deps \cap S = {}
      BY <1>5, <2>3 DEF Ordered
    <3> QED
      BY <1>2, <2>1, <3>1
  <2> QED
    BY <2>1, <2>2, <2>3 DEF Runnable
<1> QED
  BY <1>4, <1>5 DEF Sound, deps

\* A chain of stages with different names is in order.
LEMMA ChainOrdered ==
    ASSUME NEW stages, NEW n \in Nat, DOMAIN stages = 1..n,
           \A i, k \in 1..n : stages[i][1] = stages[k][1] => i = k
    PROVE  LET dag == Chain(stages)
           IN  /\ IsDag(dag) /\ Ordered(dag) /\ DOMAIN dag = 1..n /\ Len(dag) = n
               /\ \A i \in 1..n : dag[i].id = stages[i][1] /\ dag[i].type = stages[i][2]
<1> DEFINE dag == Chain(stages)
           T == {dag[i] : i \in 1..n}
<1>1. dag \in [1..n -> T]
  BY DEF Chain
<1>2. \A i \in 1..n : /\ DOMAIN dag[i] = TaskFieldNames
                      /\ dag[i].id = stages[i][1] /\ dag[i].type = stages[i][2]
                      /\ i = 1 => dag[i].deps = {}
                      /\ i # 1 => dag[i].deps = {stages[i - 1][1]}
  BY DEF Chain, Task, TaskFieldNames
<1> HIDE DEF dag, T
<1>3. IsDag(dag) /\ DOMAIN dag = 1..n /\ Len(dag) = n
  <2>1. \A i \in 1..n : DOMAIN dag[i] = TaskFieldNames
    BY <1>2
  <2> QED
    BY <1>1, <2>1, MadeDag, Zenon
<1>4. \A i \in 1..n : stages[i][1] \in IDs(dag)
  BY <1>2, <1>3 DEF IDs
<1>5. \A i \in 1..n : dag[i].deps \subseteq IDs(dag)
  <2> TAKE i \in 1..n
  <2>1. i # 1 => i - 1 \in 1..n
    OBVIOUS
  <2> QED
    BY <1>2, <1>4, <2>1
<1>6. ASSUME NEW S \in SUBSET IDs(dag), S # {}
      PROVE  \E i \in 1..n : dag[i].id \in S /\ dag[i].deps \cap S = {}
  <2> DEFINE P == {i \in 1..n : dag[i].id \in S}
             m == Min(P)
  <2>1. P \in SUBSET Nat /\ P # {}
    BY <1>3, <1>6 DEF IDs
  <2>2. m \in P /\ \A y \in P : m <= y
    BY <2>1, Least
  <2>3. m \in 1..n /\ dag[m].id \in S
    BY <2>2
  <2>4. ASSUME m # 1 PROVE m - 1 \in 1..n /\ dag[m - 1].id \notin S
    <3>1. m - 1 \in 1..n /\ ~(m <= m - 1)
      BY <2>3, <2>4
    <3> QED
      BY <2>2, <3>1
  <2> HIDE DEF m
  <2>5. dag[m].deps \cap S = {}
    BY <1>2, <2>3, <2>4
  <2> QED
    BY <2>3, <2>5
<1>7. \A i, k \in 1..n : dag[i].id = dag[k].id => i = k
  BY <1>2
<1>8. Ordered(dag)
  BY <1>3, <1>5, <1>6, <1>7 DEF Ordered
<1> QED
  BY <1>2, <1>3, <1>8 DEF dag

\* A DAG into which a download task can be put.
Usable(dag) == IsDag(dag) /\ Ordered(dag) /\ ~(InstallIDs \subseteq IDs(dag))

LEMMA ChainUsable ==
    ASSUME NEW stages, NEW n \in Nat, DOMAIN stages = 1..n,
           \A i, k \in 1..n : stages[i][1] = stages[k][1] => i = k,
           \A i \in 1..n : stages[i][1] # "t0-model-install"
    PROVE  /\ Usable(Chain(stages)) /\ Len(Chain(stages)) = n
           /\ \A i \in 1..n : Chain(stages)[i].id = stages[i][1]
           /\ "t0-model-install" \notin IDs(Chain(stages))
<1> DEFINE dag == Chain(stages)
<1>1. /\ IsDag(dag) /\ Ordered(dag) /\ DOMAIN dag = 1..n /\ Len(dag) = n
      /\ \A i \in 1..n : dag[i].id = stages[i][1]
  BY ChainOrdered
<1> HIDE DEF dag
<1>2. "t0-model-install" \notin IDs(dag)
  BY <1>1 DEF IDs
<1>3. ~(InstallIDs \subseteq IDs(dag))
  BY <1>2 DEF InstallIDs
<1> QED
  BY <1>1, <1>2, <1>3 DEF Usable, dag

LEMMA TemplateUsable ==
    ASSUME NEW analyze
    PROVE  /\ Usable(compileTemplate(analyze))
           /\ "t0-model-install" \notin IDs(compileTemplate(analyze))
           /\ ~(Len(compileTemplate(analyze)) <= 1) =>
                 /\ Len(compileTemplate(analyze)) = 3
                 /\ compileTemplate(analyze)[1].id = "t1-split"
                 /\ compileTemplate(analyze)[2].id = "t2-embed"
                 /\ compileTemplate(analyze)[3].id = "t3-summarize"
<1>1. CASE analyze
  <2> DEFINE stages == << <<"t1-split", "tool_execution">>, <<"t2-embed", "embedding">>,
                          <<"t3-summarize", "llm_inference">> >>
  <2>1. compileTemplate(analyze) = Chain(stages)
    BY <1>1 DEF compileTemplate
  <2>2. /\ DOMAIN stages = 1..3
        /\ stages[1][1] = "t1-split" /\ stages[2][1] = "t2-embed" /\ stages[3][1] = "t3-summarize"
    OBVIOUS
  <2> HIDE DEF stages
  <2>3. \A i \in 1..3 : i = 1 \/ i = 2 \/ i = 3
    OBVIOUS
  <2>4. \A i, k \in 1..3 : stages[i][1] = stages[k][1] => i = k
    BY <2>2, <2>3
  <2>5. \A i \in 1..3 : stages[i][1] # "t0-model-install"
    BY <2>2, <2>3
  <2>6. /\ Usable(Chain(stages)) /\ Len(Chain(stages)) = 3
        /\ \A i \in 1..3 : Chain(stages)[i].id = stages[i][1]
        /\ "t0-model-install" \notin IDs(Chain(stages))
    BY <2>2, <2>4, <2>5, ChainUsable
  <2> QED
    BY <2>1, <2>2, <2>6
<1>2. CASE ~analyze
  <2> DEFINE stages == << <<"t1", "llm_inference">> >>
  <2>1. compileTemplate(analyze) = Chain(stages)
    BY <1>2 DEF compileTemplate
  <2>2. DOMAIN stages = 1..1 /\ stages[1][1] = "t1"
    OBVIOUS
  <2> HIDE DEF stages
  <2>3. \A i \in 1..1 : i = 1
    OBVIOUS
  <2>4. \A i, k \in 1..1 : stages[i][1] = stages[k][1] => i = k
    BY <2>3
  <2>5. \A i \in 1..1 : stages[i][1] # "t0-model-install"
    BY <2>2, <2>3
  <2>6. /\ Usable(Chain(stages)) /\ Len(Chain(stages)) = 1
        /\ "t0-model-install" \notin IDs(Chain(stages))
    BY <2>2, <2>4, <2>5, ChainUsable
  <2> QED
    BY <2>1, <2>6
<1> QED
  BY <1>1, <1>2

LEMMA StaticUsable ==
    ASSUME NEW analyze
    PROVE  Usable(staticPlan(analyze))
<1>1. CASE analyze
  <2> DEFINE stages == << <<"t1-decompose", "llm_inference">>, <<"t2-retrieve", "retrieval">>,
                          <<"t3-reason", "llm_inference">>, <<"t4-report", "aggregation">> >>
  <2>1. staticPlan(analyze) = Chain(stages)
    BY <1>1 DEF staticPlan
  <2>2. /\ DOMAIN stages = 1..4
        /\ stages[1][1] = "t1-decompose" /\ stages[2][1] = "t2-retrieve"
        /\ stages[3][1] = "t3-reason" /\ stages[4][1] = "t4-report"
    OBVIOUS
  <2> HIDE DEF stages
  <2>3. \A i \in 1..4 : i = 1 \/ i = 2 \/ i = 3 \/ i = 4
    OBVIOUS
  <2>4. \A i, k \in 1..4 : stages[i][1] = stages[k][1] => i = k
    BY <2>2, <2>3
  <2>5. \A i \in 1..4 : stages[i][1] # "t0-model-install"
    BY <2>2, <2>3
  <2>6. 4 \in Nat /\ DOMAIN stages = 1..4
    BY <2>2
  <2>7. Usable(Chain(stages))
    BY <2>4, <2>5, <2>6, ChainUsable, Zenon
  <2> QED
    BY <2>1, <2>7
<1>2. CASE ~analyze
  <2> DEFINE stages == << <<"t1-decompose", "llm_inference">>, <<"t2-respond", "llm_inference">> >>
  <2>1. staticPlan(analyze) = Chain(stages)
    BY <1>2 DEF staticPlan
  <2>2. DOMAIN stages = 1..2 /\ stages[1][1] = "t1-decompose" /\ stages[2][1] = "t2-respond"
    OBVIOUS
  <2> HIDE DEF stages
  <2>3. \A i \in 1..2 : i = 1 \/ i = 2
    OBVIOUS
  <2>4. \A i, k \in 1..2 : stages[i][1] = stages[k][1] => i = k
    BY <2>2, <2>3
  <2>5. \A i \in 1..2 : stages[i][1] # "t0-model-install"
    BY <2>2, <2>3
  <2>6. 2 \in Nat /\ DOMAIN stages = 1..2
    BY <2>2
  <2>7. Usable(Chain(stages))
    BY <2>4, <2>5, <2>6, ChainUsable, Zenon
  <2> QED
    BY <2>1, <2>7
<1> QED
  BY <1>1, <1>2

\* A task with a new ID that depends on known tasks may follow.
LEMMA AppendOrdered ==
    ASSUME NEW dag, IsDag(dag), Ordered(dag),
           NEW t, DOMAIN t = TaskFieldNames,
           t.id \notin IDs(dag), t.deps \subseteq IDs(dag)
    PROVE  /\ IsDag(Append(dag, t)) /\ Ordered(Append(dag, t))
           /\ IDs(Append(dag, t)) = IDs(dag) \cup {t.id}
<1> DEFINE new == Append(dag, t)
           n == Len(dag)
           T == {dag[i] : i \in DOMAIN dag}
           U == T \cup {t}
<1>1. n \in Nat /\ DOMAIN dag = 1..n
  BY DagDomain
<1>2. dag \in Seq(U) /\ t \in U
  BY DEF IsDag
<1> HIDE DEF U
<1>3. /\ new \in Seq(U) /\ Len(new) = n + 1 /\ new[n + 1] = t
      /\ \A i \in 1..n : new[i] = dag[i]
  BY <1>1, <1>2
<1> HIDE DEF new, n
<1>4. new \in [1..(n + 1) -> U]
  BY <1>1, <1>3
<1>5. \A i \in 1..(n + 1) : i = n + 1 \/ i \in 1..n
  BY <1>1
<1>6. \A i \in 1..n : i \in 1..(n + 1)
  BY <1>1
<1>7. IsDag(new) /\ DOMAIN new = 1..(n + 1)
  <2>1. \A i \in 1..(n + 1) : DOMAIN new[i] = TaskFieldNames
    BY <1>1, <1>3, <1>5 DEF IsDag
  <2> QED
    BY <1>1, <1>4, <2>1, MadeDag
<1>8. n + 1 \in 1..(n + 1)
  BY <1>1
<1>9. IDs(new) = IDs(dag) \cup {t.id}
  BY <1>1, <1>3, <1>5, <1>6, <1>7, <1>8 DEF IDs
<1>10. \A i, k \in 1..(n + 1) : new[i].id = new[k].id => i = k
  <2> TAKE i, k \in 1..(n + 1)
  <2>1. \A j \in 1..n : new[j].id \in IDs(dag)
    BY <1>1, <1>3 DEF IDs
  <2> QED
    BY <1>1, <1>3, <1>5, <2>1 DEF Ordered
<1>11. \A i \in 1..(n + 1) : new[i].deps \subseteq IDs(new)
  BY <1>1, <1>3, <1>5, <1>9 DEF Ordered
<1>12. ASSUME NEW S \in SUBSET IDs(new), S # {}
       PROVE  \E i \in 1..(n + 1) : new[i].id \in S /\ new[i].deps \cap S = {}
  <2>1. CASE S \ {t.id} = {}
    <3>1. new[n + 1].id \in S /\ new[n + 1].deps \cap S = {}
      BY <1>3, <1>12, <2>1
    <3> QED
      BY <1>8, <3>1
  <2>2. CASE S \ {t.id} # {}
    <3>1. S \ {t.id} \in SUBSET IDs(dag)
      BY <1>9
    <3>2. PICK i \in DOMAIN dag : dag[i].id \in S \ {t.id} /\ dag[i].deps \cap (S \ {t.id}) = {}
      BY <2>2, <3>1 DEF Ordered
    <3>3. dag[i].deps \cap S = {}
      BY <3>2 DEF Ordered
    <3> QED
      BY <1>1, <1>3, <1>6, <3>2, <3>3
  <2> QED
    BY <2>1, <2>2
<1> QED
  BY <1>7, <1>9, <1>10, <1>11, <1>12 DEF Ordered, new

LEMMA HybridUsable ==
    ASSUME NEW analyze
    PROVE  Usable(compileHybrid(analyze))
<1> DEFINE base == compileTemplate(analyze)
           last == Task("t4-aggregate", "aggregation", {Last(base).id})
<1>1. Usable(base) /\ "t0-model-install" \notin IDs(base)
  BY TemplateUsable
<1>2. CASE Len(base) <= 1
  BY <1>1, <1>2 DEF compileHybrid
<1>3. CASE ~(Len(base) <= 1)
  <2>1. /\ Len(base) = 3 /\ base[1].id = "t1-split" /\ base[2].id = "t2-embed"
        /\ base[3].id = "t3-summarize"
    BY <1>3, TemplateUsable
  <2>2. compileHybrid(analyze) = Append(base, last)
    BY <1>3 DEF compileHybrid
  <2>3. DOMAIN base = 1..3
    BY <1>1, <2>1, DagDomain DEF Usable
  <2>4. Last(base) = base[3]
    BY <2>1 DEF Last
  <2> HIDE DEF base
  <2>5. \A i \in 1..3 : i = 1 \/ i = 2 \/ i = 3
    OBVIOUS
  <2>6. "t4-aggregate" \notin IDs(base) /\ base[3].id \in IDs(base)
    BY <2>1, <2>3, <2>5 DEF IDs
  <2>7. /\ DOMAIN last = TaskFieldNames
        /\ last.id = "t4-aggregate" /\ last.deps = {base[3].id}
    BY <2>4 DEF Task, TaskFieldNames
  <2> HIDE DEF last
  <2>8. last.id \notin IDs(base) /\ last.deps \subseteq IDs(base)
    BY <2>6, <2>7
  <2>9. /\ IsDag(Append(base, last)) /\ Ordered(Append(base, last))
        /\ IDs(Append(base, last)) = IDs(base) \cup {last.id}
    BY <1>1, <2>7, <2>8, AppendOrdered DEF Usable
  <2>10. "t0-model-install" \notin IDs(Append(base, last))
    BY <1>1, <2>7, <2>9
  <2> QED
    BY <2>2, <2>9, <2>10 DEF Usable, InstallIDs
<1> QED
  BY <1>2, <1>3

\* injectModelBackend leaves IDs, types and dependencies alone.
LEMMA BackendInjected ==
    ASSUME NEW dag, IsDag(dag), NEW backend
    PROVE  LET new == injectModelBackend(dag, backend)
           IN  /\ IsDag(new) /\ IDs(new) = IDs(dag)
               /\ Ordered(dag) => Ordered(new)
<1> DEFINE new == injectModelBackend(dag, backend)
           n == Len(dag)
           T == {new[i] : i \in 1..n}
<1>1. n \in Nat /\ DOMAIN dag = 1..n
  BY DagDomain
<1>2. \A i \in 1..n : DOMAIN dag[i] = TaskFieldNames
  BY <1>1 DEF IsDag
<1>3. new \in [1..n -> T]
  BY <1>1 DEF injectModelBackend
<1>4. \A i \in 1..n : new[i] = IF IsInference(dag[i]) /\ dag[i].backend = ""
                              THEN [dag[i] EXCEPT !.backend = backend] ELSE dag[i]
  BY <1>1 DEF injectModelBackend
<1> HIDE DEF new, n, T
<1>5. \A i \in 1..n : /\ DOMAIN new[i] = TaskFieldNames
                      /\ new[i].id = dag[i].id /\ new[i].deps = dag[i].deps
  BY <1>2, <1>4 DEF TaskFieldNames
<1>6. IsDag(new) /\ DOMAIN new = 1..n
  BY <1>1, <1>3, <1>5, MadeDag
<1>7. IDs(new) = IDs(dag)
  BY <1>1, <1>5, <1>6 DEF IDs
<1>8. ASSUME Ordered(dag) PROVE Ordered(new)
  <2>1. \A i, k \in 1..n : new[i].id = new[k].id => i = k
    BY <1>1, <1>5, <1>8 DEF Ordered
  <2>2. \A i \in 1..n : new[i].deps \subseteq IDs(new)
    BY <1>1, <1>5, <1>7, <1>8 DEF Ordered
  <2>3. ASSUME NEW S \in SUBSET IDs(new), S # {}
        PROVE  \E i \in 1..n : new[i].id \in S /\ new[i].deps \cap S = {}
    <3>1. PICK i \in DOMAIN dag : dag[i].id \in S /\ dag[i].deps \cap S = {}
      BY <1>7, <1>8, <2>3 DEF Ordered
    <3> QED
      BY <1>1, <1>5, <3>1
  <2> QED
    BY <1>6, <2>1, <2>2, <2>3 DEF Ordered
<1> QED
  BY <1>6, <1>7, <1>8 DEF new

\* The DAG after injectModelInstallTasks: the download first, and every
\* inference task waits for it.
LEMMA InstallInjected ==
    ASSUME NEW dag, IsDag(dag), NEW model, NEW install
    PROVE  LET new == injectModelInstallTasks(dag, model, install)
           IN  /\ IsDag(new)
               /\ Usable(dag) => /\ Ordered(new)
                                 /\ install /\ model # "" => InferenceWaits(new)
<1> DEFINE new == injectModelInstallTasks(dag, model, install)
           n == Len(dag)
           id == installTaskID(dag)
           first == Download(id, model)
           rest == [i \in DOMAIN dag |-> WaitsFor(dag[i], id)]
<1>1. n \in Nat /\ DOMAIN dag = 1..n
  BY DagDomain
<1>2. CASE ~install \/ model = "" \/ ~HasInference(dag)
  <2>1. new = dag
    BY <1>2 DEF injectModelInstallTasks
  <2>2. ~HasInference(dag) => InferenceWaits(dag)
    BY DEF HasInference, InferenceWaits
  <2> QED
    BY <1>2, <2>1, <2>2 DEF Usable
<1>3. CASE ~(~install \/ model = "" \/ ~HasInference(dag))
  <2> DEFINE T == {first} \cup {rest[i] : i \in 1..n}
  <2>1. new = <<first>> \o rest
    BY <1>3 DEF injectModelInstallTasks
  <2>2. rest \in [1..n -> T] /\ first \in T
    BY <1>1
  <2>3. \A i \in 1..n : rest[i] = WaitsFor(dag[i], id)
    BY <1>1
  <2>4. /\ DOMAIN first = TaskFieldNames
        /\ first.id = id /\ first.deps = {} /\ first.type = "model_download"
    BY DEF Download, Task, NoInputs, TaskFieldNames
  <2> HIDE DEF rest, T, first, n, id
  <2>5. <<first>> \in Seq(T) /\ Len(<<first>>) = 1 /\ <<first>>[1] = first
    BY <2>2
  <2>6. rest \in Seq(T) /\ Len(rest) = n
    BY <1>1, <2>2
  <2>7. /\ new \in Seq(T) /\ Len(new) = n + 1 /\ new[1] = first
        /\ \A i \in 1..n : new[i + 1] = rest[i]
    BY <1>1, <2>1, <2>5, <2>6
  <2> HIDE DEF new
  <2>8. new \in [1..(n + 1) -> T] /\ n + 1 \in Nat
    BY <1>1, <2>7
  <2>9. \A i \in 1..n : DOMAIN dag[i] = TaskFieldNames
    BY <1>1 DEF IsDag
  <2>10. ASSUME NEW i \in 1..n
         PROVE  /\ DOMAIN new[i + 1] = TaskFieldNames
                /\ new[i + 1].id = dag[i].id /\ new[i + 1].type = dag[i].type
                /\ new[i + 1].deps = IF IsInference(dag[i]) /\ dag[i].id # id
                                     THEN dag[i].deps \cup {id} ELSE dag[i].deps
    <3>1. new[i + 1] = WaitsFor(dag[i], id) /\ DOMAIN dag[i] = TaskFieldNames
      BY <2>3, <2>7, <2>9
    <3> QED
      BY <3>1 DEF WaitsFor, TaskFieldNames
  <2>11. ASSUME NEW i \in 1..(n + 1) PROVE i = 1 \/ \E k \in 1..n : i = k + 1
    <3>1. CASE i # 1
      <4>1. i - 1 \in 1..n /\ i = (i - 1) + 1
        BY <1>1, <3>1
      <4> QED
        BY <4>1
    <3> QED
      BY <3>1
  <2>12. \A i \in 1..(n + 1) : DOMAIN new[i] = TaskFieldNames
    <3> TAKE i \in 1..(n + 1)
    <3>1. CASE i = 1
      BY <2>4, <2>7, <3>1
    <3>2. ASSUME NEW k \in 1..n, i = k + 1 PROVE DOMAIN new[i] = TaskFieldNames
      BY <2>10, <3>2
    <3> QED
      BY <2>11, <3>1, <3>2
  <2>13. IsDag(new) /\ DOMAIN new = 1..(n + 1)
    BY <2>8, <2>12, MadeDag
  <2>14. \A i \in 1..n : i + 1 \in 1..(n + 1)
    BY <1>1
  <2>15. 1 \in 1..(n + 1)
    BY <1>1
  <2>16. ASSUME Usable(dag) PROVE Ordered(new) /\ InferenceWaits(new)
    <3>1. id \notin IDs(dag)
      BY <2>16 DEF Usable, InstallIDs, installTaskID, id
    <3>2. \A i \in 1..n : dag[i].id # id
      BY <1>1, <3>1 DEF IDs
    <3>3. \A x \in IDs(new) : x = id \/ x \in IDs(dag)
      <4> TAKE x \in IDs(new)
      <4>1. PICK i \in 1..(n + 1) : x = new[i].id
        BY <2>13 DEF IDs
      <4>2. CASE i = 1
        BY <2>4, <2>7, <4>1, <4>2
      <4>3. ASSUME NEW k \in 1..n, i = k + 1 PROVE x \in IDs(dag)
        BY <1>1, <2>10, <4>1, <4>3 DEF IDs
      <4> QED
        BY <2>11, <4>2, <4>3
    <3>4. id \in IDs(new)
      BY <2>4, <2>7, <2>13, <2>15 DEF IDs
    <3>5. ASSUME NEW x \in IDs(dag) PROVE x \in IDs(new)
      <4>1. PICK i \in 1..n : x = dag[i].id
        BY <1>1 DEF IDs
      <4>2. i + 1 \in DOMAIN new /\ new[i + 1].id = x
        BY <2>10, <2>13, <2>14, <4>1
      <4> QED
        BY <4>2 DEF IDs
    <3>6. ASSUME NEW i \in 1..(n + 1), NEW k \in 1..(n + 1), new[i].id = new[k].id PROVE i = k
      <4>1. \A a \in 1..n : new[a + 1].id # id
        BY <2>10, <3>2
      <4>2. CASE i = 1 \/ k = 1
        BY <2>4, <2>7, <2>11, <3>6, <4>1, <4>2
      <4>3. CASE i # 1 /\ k # 1
        <5>1. PICK a \in 1..n : i = a + 1
          BY <2>11, <4>3
        <5>2. PICK b \in 1..n : k = b + 1
          BY <2>11, <4>3
        <5>3. dag[a].id = dag[b].id
          BY <2>10, <3>6, <5>1, <5>2
        <5>4. a = b
          BY <1>1, <2>16, <5>3 DEF Usable, Ordered
        <5> QED
          BY <5>1, <5>2, <5>4
      <4> QED
        BY <4>2, <4>3
    <3>7. ASSUME NEW i \in 1..(n + 1) PROVE new[i].deps \subseteq IDs(new)
      <4>1. CASE i = 1
        BY <2>4, <2>7, <4>1
      <4>2. CASE i # 1
        <5>1. PICK k \in 1..n : i = k + 1
          BY <2>11, <4>2
        <5>2. dag[k].deps \subseteq IDs(dag)
          BY <1>1, <2>16 DEF Usable, Ordered
        <5> QED
          BY <2>10, <3>4, <3>5, <5>1, <5>2
      <4> QED
        BY <4>1, <4>2
    <3>8. ASSUME NEW S \in SUBSET IDs(new), S # {}
          PROVE  \E i \in 1..(n + 1) : new[i].id \in S /\ new[i].deps \cap S = {}
      <4>1. CASE id \in S
        BY <2>4, <2>7, <2>15, <4>1
      <4>2. CASE id \notin S
        <5>1. S \in SUBSET IDs(dag)
          BY <3>3, <4>2
        <5>2. PICK k \in DOMAIN dag : dag[k].id \in S /\ dag[k].deps \cap S = {}
          BY <2>16, <3>8, <5>1 DEF Usable, Ordered
        <5>3. new[k + 1].id \in S /\ new[k + 1].deps \cap S = {}
          BY <1>1, <2>10, <4>2, <5>2
        <5> QED
          BY <1>1, <2>14, <5>2, <5>3
      <4> QED
        BY <4>1, <4>2
    <3>9. Ordered(new)
      BY <2>13, <3>6, <3>7, <3>8 DEF Ordered
    <3>10. ASSUME NEW i \in 1..(n + 1), IsInference(new[i])
           PROVE  new[1].type = "model_download" /\ new[1].id \in new[i].deps
      <4>1. i # 1
        BY <2>4, <2>7, <3>10 DEF IsInference
      <4>2. PICK k \in 1..n : i = k + 1
        BY <2>11, <4>1
      <4>3. IsInference(dag[k]) /\ dag[k].id # id
        BY <2>10, <3>2, <3>10, <4>2 DEF IsInference
      <4> QED
        BY <2>4, <2>7, <2>10, <4>2, <4>3
    <3>11. InferenceWaits(new)
      BY <2>13, <2>15, <3>10 DEF InferenceWaits
    <3> QED
      BY <3>9, <3>11
  <2> QED
    BY <2>13, <2>16 DEF new
<1> QED
  BY <1>2, <1>3

\* One download per worker: no dependencies, no inference.
LEMMA PrefetchFits ==
    ASSUME NEW n \in 0..Len(prefetchNames), NEW model, NEW req, NEW plan
    PROVE  DagFits(req, plan, prefetchDAG(n, model))
<1> DEFINE dag == prefetchDAG(n, model)
           T == {dag[i] : i \in 1..n}
<1>1. n \in Nat /\ n <= 3
  BY DEF prefetchNames
<1>2. dag \in [1..n -> T]
  BY DEF prefetchDAG
<1>3. \A i \in 1..n : /\ DOMAIN dag[i] = TaskFieldNames
                      /\ dag[i].id = prefetchNames[i]
                      /\ dag[i].deps = {} /\ dag[i].type = "model_download"
  BY DEF prefetchDAG, Download, Task, NoInputs, TaskFieldNames
<1>4. \A i \in 1..n : i = 1 \/ i = 2 \/ i = 3
  BY <1>1
<1>5. /\ prefetchNames[1] = "prefetch-001" /\ prefetchNames[2] = "prefetch-002"
      /\ prefetchNames[3] = "prefetch-003"
  BY DEF prefetchNames
<1> HIDE DEF dag, T
<1>6. IsDag(dag) /\ DOMAIN dag = 1..n
  BY <1>1, <1>2, <1>3, MadeDag
<1>7. \A i, k \in 1..n : dag[i].id = dag[k].id => i = k
  BY <1>3, <1>4, <1>5
<1>8. ASSUME NEW S \in SUBSET IDs(dag), S # {}
      PROVE  \E i \in 1..n : dag[i].id \in S /\ dag[i].deps \cap S = {}
  <2>1. PICK x : x \in S
    BY <1>8
  <2>2. PICK i \in 1..n : x = dag[i].id
    BY <1>6, <2>1 DEF IDs
  <2> QED
    BY <1>3, <2>1, <2>2
<1>9. Ordered(dag)
  BY <1>3, <1>6, <1>7, <1>8 DEF Ordered
<1>10. InferenceWaits(dag)
  BY <1>3, <1>6 DEF InferenceWaits, IsInference
<1> QED
  BY <1>6, <1>9, <1>10 DEF DagFits, dag

LEMMA NoPlanFit == Sound(NoPlan) /\ PlanFit(NoPlan)
<1>1. DOMAIN NoPlan = {}
  BY DEF NoPlan
<1>2. IDs(NoPlan) = {}
  BY <1>1 DEF IDs
<1>3. Ordered(NoPlan)
  BY <1>1, <1>2 DEF Ordered
<1> QED
  BY <1>2, <1>3, SoundOrdered DEF PlanFit, InstallIDs

\* What the compiler and the injections make of a request and an answer.
LEMMA PlanFits ==
    ASSUME NEW req, NEW backend, NEW answer, answer.tasks \in DAGs,
           ~(req.mode \in {"llm", "llm_planner"}) => ~answer.ok
    PROVE  LET dag == CompileWithMode(req.analyze, req.mode, answer)
               routed == injectModelBackend(dag, backend)
           IN  DagFits(req, ProviderPlan(answer),
                       injectModelInstallTasks(routed, req.model, req.install))
<1> DEFINE dag == CompileWithMode(req.analyze, req.mode, answer)
           routed == injectModelBackend(dag, backend)
           plan == ProviderPlan(answer)
<1>1. IsDag(dag) /\ (PlanFit(plan) => Usable(dag))
  <2>1. CASE req.mode = "template"
    <3>1. dag = compileTemplate(req.analyze)
      BY <2>1 DEF CompileWithMode
    <3> QED
      BY <3>1, TemplateUsable DEF Usable
  <2>2. CASE req.mode \in {"llm", "llm_planner"}
    <3>1. dag = compileLLM(req.analyze, answer)
      BY <2>2 DEF CompileWithMode
    <3>2. CASE plan # NoPlan
      <4>1. dag = plan /\ plan = answer.tasks
        BY <3>1, <3>2 DEF compileLLM, ProviderPlan
      <4>2. IsDag(dag)
        BY <4>1, DagsAreDags
      <4> QED
        BY <4>1, <4>2, SoundOrdered DEF PlanFit, Usable
    <3>3. CASE plan = NoPlan
      <4>1. dag = staticPlan(req.analyze)
        BY <3>1, <3>3 DEF compileLLM
      <4> QED
        BY <4>1, StaticUsable DEF Usable
    <3> QED
      BY <3>2, <3>3
  <2>3. CASE req.mode # "template" /\ ~(req.mode \in {"llm", "llm_planner"})
    <3>1. dag = compileHybrid(req.analyze)
      BY <2>3 DEF CompileWithMode
    <3> QED
      BY <3>1, HybridUsable DEF Usable
  <2> QED
    BY <2>1, <2>2, <2>3
<1> HIDE DEF dag, plan
<1>2. IsDag(routed) /\ (PlanFit(plan) => Usable(routed))
  <2>1. IsDag(routed) /\ IDs(routed) = IDs(dag) /\ (Ordered(dag) => Ordered(routed))
    BY <1>1, BackendInjected
  <2> QED
    BY <1>1, <2>1 DEF Usable
<1> HIDE DEF routed
<1> DEFINE new == injectModelInstallTasks(routed, req.model, req.install)
<1>3. /\ IsDag(new)
      /\ Usable(routed) => /\ Ordered(new)
                           /\ req.install /\ req.model # "" => InferenceWaits(new)
  BY <1>2, InstallInjected
<1> HIDE DEF new
<1>4. DagFits(req, plan, new)
  BY <1>2, <1>3 DEF DagFits
<1> QED
  BY <1>4 DEF new, routed, dag, plan

---------------------------------------------------------------------------
(* The two policy checks. *)

SubmitIn(r) ==
    [AnyMatch EXCEPT !.tenant = r.tenant, !.jobType = r.type, !.model = r.model,
                     !.class = r.class, !.priority = r.priority, !.gpu = "false"]
AssignIn(tenant, task, worker) ==
    [AnyMatch EXCEPT !.tenant = tenant, !.taskType = task.type, !.model = task.inputs.model,
                     !.class = task.inputs.class, !.isolation = task.inputs.isolation,
                     !.locality = worker.locality, !.gpu = worker.gpu]

\* The inputs in which a task differs from the request of its job.
Own(req, task) == {f \in InputFields : task.inputs[f] # req[f]}

Admitted(policy, req, rule) ==
    evaluateRules(policy, SubmitIn(req)) = Decision(TRUE, FALSE, rule)

RuleNames(policy, rule, fields) ==
    rule # 0 /\ \E f \in fields : policy.rules[rule].match[f] # ""

LEMMA RuleFacts ==
    ASSUME NEW policy, policy.rules \in Seq(Rules), NEW i \in DOMAIN policy.rules
    PROVE  /\ i \in Nat /\ i # 0
           /\ DOMAIN policy.rules[i].match =
                 {"tenant", "jobType", "taskType", "model", "class", "priority",
                  "isolation", "locality", "gpu"}
<1>1. DOMAIN AnyMatch = {"tenant", "jobType", "taskType", "model", "class", "priority",
                         "isolation", "locality", "gpu"}
  BY DEF AnyMatch
<1>2. policy.rules[i] \in Rules /\ i \in Nat /\ i # 0
  OBVIOUS
<1>3. policy.rules[i].match \in [DOMAIN AnyMatch -> STRING]
  BY <1>2 DEF Rules
<1> QED
  BY <1>1, <1>2, <1>3

LEMMA HitFacts ==
    ASSUME NEW policy, policy.rules \in Seq(Rules), NEW in
    PROVE  LET d == evaluateRules(policy, in)
           IN  /\ DOMAIN d = {"allowed", "quota", "rule"} /\ d.quota = FALSE
               /\ Hits(policy, in) = {} => /\ d.rule = 0
                                           /\ d.allowed = (DefaultAction(policy) = "allow")
               /\ Hits(policy, in) # {} =>
                     /\ d.rule \in Hits(policy, in) /\ d.rule # 0 /\ d.rule \in Nat
                     /\ \A i \in Hits(policy, in) : d.rule <= i
                     /\ d.allowed = (Effect(policy.rules[d.rule]) = "allow")
<1> DEFINE H == Hits(policy, in)
           m == Min(H)
           d == evaluateRules(policy, in)
<1>1. H \subseteq DOMAIN policy.rules
  BY DEF Hits
<1>2. H \in SUBSET Nat /\ 0 \notin H
  BY <1>1, RuleFacts
<1>3. H # {} => m \in H /\ \A i \in H : m <= i
  BY <1>2, Least
<1> HIDE DEF m
<1>4. d = IF H = {} THEN Decision(DefaultAction(policy) = "allow", FALSE, 0)
          ELSE Decision(Effect(policy.rules[m]) = "allow", FALSE, m)
  BY DEF evaluateRules, m
<1> HIDE DEF H, d
<1> QED
  BY <1>2, <1>3, <1>4 DEF Decision, d, H

\* A rule that matches one of the two inputs and names nothing that the other
\* lacks or has with another value matches the other.
LEMMA SameMatch ==
    ASSUME NEW policy, policy.rules \in Seq(Rules), NEW i \in DOMAIN policy.rules,
           NEW req, NEW task, NEW worker
    PROVE  /\ i \in Hits(policy, AssignIn(req.tenant, task, worker))
              /\ ~RuleNames(policy, i, TaskFields \cup Own(req, task))
              => i \in Hits(policy, SubmitIn(req))
           /\ i \in Hits(policy, SubmitIn(req))
              /\ ~RuleNames(policy, i, JobFields \cup Own(req, task))
              => i \in Hits(policy, AssignIn(req.tenant, task, worker))
<1> DEFINE m == policy.rules[i].match
           a == AssignIn(req.tenant, task, worker)
           s == SubmitIn(req)
           own == Own(req, task)
<1>1. /\ i # 0
      /\ DOMAIN m = {"tenant", "jobType", "taskType", "model", "class", "priority",
                     "isolation", "locality", "gpu"}
  BY RuleFacts
<1>2. /\ a.tenant = req.tenant /\ a.jobType = "" /\ a.priority = ""
      /\ a.model = task.inputs.model /\ a.class = task.inputs.class
  BY DEF AssignIn, AnyMatch
<1>3. /\ s.tenant = req.tenant /\ s.model = req.model /\ s.class = req.class
      /\ s.taskType = "" /\ s.isolation = "" /\ s.locality = ""
  BY DEF SubmitIn, AnyMatch
<1>4. /\ "model" \notin own => a.model = s.model
      /\ "class" \notin own => a.class = s.class
  BY <1>2, <1>3 DEF Own, InputFields
<1> HIDE DEF m, a, s, own
<1>5. ASSUME matches(m, a), \A f \in TaskFields \cup own : m[f] = "" PROVE matches(m, s)
  <2>1. m["taskType"] = "" /\ m["isolation"] = "" /\ m["locality"] = "" /\ m["gpu"] = ""
    BY <1>5 DEF TaskFields
  <2>2. m["jobType"] = "" /\ m["priority"] = ""
    BY <1>1, <1>2, <1>5 DEF matches
  <2>3. m["tenant"] \in {"", s["tenant"]}
    BY <1>1, <1>2, <1>3, <1>5 DEF matches
  <2>4. m["model"] \in {"", s["model"]} /\ m["class"] \in {"", s["class"]}
    BY <1>1, <1>4, <1>5 DEF matches
  <2> QED
    BY <1>1, <2>1, <2>2, <2>3, <2>4 DEF matches
<1>6. ASSUME matches(m, s), \A f \in JobFields \cup own : m[f] = "" PROVE matches(m, a)
  <2>1. m["jobType"] = "" /\ m["priority"] = "" /\ m["gpu"] = ""
    BY <1>6 DEF JobFields
  <2>2. m["taskType"] = "" /\ m["isolation"] = "" /\ m["locality"] = ""
    BY <1>1, <1>3, <1>6 DEF matches
  <2>3. m["tenant"] \in {"", a["tenant"]}
    BY <1>1, <1>2, <1>3, <1>6 DEF matches
  <2>4. m["model"] \in {"", a["model"]} /\ m["class"] \in {"", a["class"]}
    BY <1>1, <1>4, <1>6 DEF matches
  <2> QED
    BY <1>1, <2>1, <2>2, <2>3, <2>4 DEF matches
<1> QED
  BY <1>1, <1>5, <1>6 DEF Hits, RuleNames, m, a, s, own

LEMMA ChecksAgree ==
    ASSUME NEW policy, policy.rules \in Seq(Rules), NEW req, NEW rule,
           Admitted(policy, req, rule), NEW task, NEW worker,
           NEW d, d = evaluateRules(policy, AssignIn(req.tenant, task, worker)), ~d.allowed
    PROVE  \/ RuleNames(policy, d.rule, TaskFields \cup Own(req, task))
           \/ RuleNames(policy, rule, JobFields \cup Own(req, task))
<1> SUFFICES ASSUME ~RuleNames(policy, d.rule, TaskFields \cup Own(req, task)),
                    ~RuleNames(policy, rule, JobFields \cup Own(req, task))
             PROVE  FALSE
  OBVIOUS
<1> DEFINE A == Hits(policy, AssignIn(req.tenant, task, worker))
           S == Hits(policy, SubmitIn(req))
           e == evaluateRules(policy, SubmitIn(req))
<1>1. e.allowed = TRUE /\ e.rule = rule
  BY DEF Admitted, Decision
<1>2. A \subseteq DOMAIN policy.rules /\ S \subseteq DOMAIN policy.rules
  BY DEF Hits
<1>3. /\ A = {} => ~(DefaultAction(policy) = "allow")
      /\ A # {} => /\ d.rule \in A /\ d.rule \in Nat /\ \A i \in A : d.rule <= i
                   /\ ~(Effect(policy.rules[d.rule]) = "allow")
  BY HitFacts
<1>4. /\ S = {} => DefaultAction(policy) = "allow"
      /\ S # {} => /\ rule \in S /\ rule \in Nat /\ \A i \in S : rule <= i
                   /\ Effect(policy.rules[rule]) = "allow"
  BY <1>1, HitFacts
<1>5. A # {} => d.rule \in S
  BY <1>2, <1>3, SameMatch
<1>6. S # {} => rule \in A
  BY <1>2, <1>4, SameMatch
<1> HIDE DEF A, S, e
<1>7. A # {} /\ S # {} => d.rule = rule
  BY <1>3, <1>4, <1>5, <1>6
<1> QED
  BY <1>3, <1>4, <1>5, <1>6, <1>7

---------------------------------------------------------------------------
(* Stored tasks. *)

TaskShape == {"type", "deps", "backend", "status", "inputs"}

LEMMA RecordFacts ==
    ASSUME NEW dag, IsDag(dag), NEW req
    PROVE  /\ DOMAIN TaskRecords(dag, req) = IDs(dag)
           /\ \A t \in IDs(dag) :
                 /\ DOMAIN TaskRecords(dag, req)[t] = TaskShape
                 /\ TaskRecords(dag, req)[t].status = "Queued"
                 /\ \E i \in DOMAIN dag : /\ dag[i].id = t
                                          /\ TaskRecords(dag, req)[t].deps = dag[i].deps
                                          /\ TaskRecords(dag, req)[t].type = dag[i].type
<1>1. Len(dag) \in Nat /\ DOMAIN dag = 1..Len(dag)
  BY DagDomain
<1>2. ASSUME NEW t \in IDs(dag)
      PROVE  /\ DOMAIN TaskRecords(dag, req)[t] = TaskShape
             /\ TaskRecords(dag, req)[t].status = "Queued"
             /\ \E i \in DOMAIN dag : /\ dag[i].id = t
                                      /\ TaskRecords(dag, req)[t].deps = dag[i].deps
                                      /\ TaskRecords(dag, req)[t].type = dag[i].type
  <2> DEFINE P == {i \in DOMAIN dag : dag[i].id = t}
             m == Max(P)
  <2>1. P \in SUBSET (1..Len(dag)) /\ P # {}
    BY <1>1 DEF IDs
  <2>2. m \in P
    BY <1>1, <2>1, Greatest
  <2>3. LastCalled(dag, t) = dag[m]
    BY DEF LastCalled
  <2> HIDE DEF m
  <2> DEFINE inputs == [model |-> Or(req.model, dag[m].inputs.model),
                        class |-> Or(req.class, dag[m].inputs.class),
                        isolation |-> Or(req.isolation, dag[m].inputs.isolation)]
  <2>4. TaskRecords(dag, req)[t] = [type |-> dag[m].type, deps |-> dag[m].deps,
                                    backend |-> dag[m].backend, status |-> "Queued",
                                    inputs |-> inputs]
    BY <2>3 DEF TaskRecords
  <2> HIDE DEF inputs
  <2> QED
    BY <2>2, <2>4 DEF TaskShape
<1> QED
  BY <1>2 DEF TaskRecords

\* Of a job's record: its tasks are those of a plan that can be run.
JobPlanned(req, plan, planned, tasks) ==
    PlanFit(plan) =>
        /\ Cardinality(DOMAIN tasks) = planned
        /\ Runnable(DOMAIN tasks, [t \in DOMAIN tasks |-> tasks[t].deps])
        /\ req.install /\ req.model # "" =>
              \A t \in DOMAIN tasks : IsInference(tasks[t]) =>
                  \E d \in tasks[t].deps : d \in DOMAIN tasks /\ tasks[d].type = "model_download"

LEMMA StoredFits ==
    ASSUME NEW req, NEW plan, NEW dag, DagFits(req, plan, dag)
    PROVE  JobPlanned(req, plan, Len(dag), TaskRecords(dag, req))
<1> SUFFICES ASSUME PlanFit(plan)
             PROVE  LET tasks == TaskRecords(dag, req)
                    IN  /\ Cardinality(DOMAIN tasks) = Len(dag)
                        /\ Runnable(DOMAIN tasks, [t \in DOMAIN tasks |-> tasks[t].deps])
                        /\ req.install /\ req.model # "" =>
                              \A t \in DOMAIN tasks : IsInference(tasks[t]) =>
                                  \E d \in tasks[t].deps :
                                      d \in DOMAIN tasks /\ tasks[d].type = "model_download"
  BY DEF JobPlanned
<1> DEFINE tasks == TaskRecords(dag, req)
           n == Len(dag)
           deps == [t \in DOMAIN tasks |-> tasks[t].deps]
<1>1. IsDag(dag) /\ Ordered(dag) /\ n \in Nat /\ DOMAIN dag = 1..n
  BY DagDomain DEF DagFits
<1>2. /\ DOMAIN tasks = IDs(dag)
      /\ \A t \in IDs(dag) :
            \E i \in DOMAIN dag : /\ dag[i].id = t
                                  /\ tasks[t].deps = dag[i].deps
                                  /\ tasks[t].type = dag[i].type
  BY <1>1, RecordFacts
<1> HIDE DEF tasks
<1>3. ASSUME NEW i \in DOMAIN dag
      PROVE  /\ dag[i].id \in IDs(dag)
             /\ tasks[dag[i].id].deps = dag[i].deps /\ tasks[dag[i].id].type = dag[i].type
  <2>1. dag[i].id \in IDs(dag)
    BY DEF IDs
  <2>2. PICK k \in DOMAIN dag : /\ dag[k].id = dag[i].id
                                /\ tasks[dag[i].id].deps = dag[k].deps
                                /\ tasks[dag[i].id].type = dag[k].type
    BY <1>2, <2>1
  <2>3. k = i
    BY <1>1, <2>2 DEF Ordered
  <2> QED
    BY <2>1, <2>2, <2>3
<1>4. Cardinality(DOMAIN tasks) = n
  <2> DEFINE f == [i \in 1..n |-> dag[i].id]
  <2>1. f \in [1..n -> IDs(dag)]
    BY <1>1, <1>3
  <2>2. \A i, k \in 1..n : f[i] = f[k] => i = k
    BY <1>1 DEF Ordered
  <2>3. \A t \in IDs(dag) : \E i \in 1..n : f[i] = t
    BY <1>1 DEF IDs
  <2> HIDE DEF f
  <2>4. f \in Bijection(1..n, IDs(dag))
    BY <2>1, <2>2, <2>3 DEF Bijection, Injection, Surjection, IsInjective
  <2>5. ExistsBijection(1..n, IDs(dag))
    BY <2>4 DEF ExistsBijection
  <2> HIDE DEF n
  <2>6. IsFiniteSet(1..n) /\ Cardinality(1..n) = IF 1 > n THEN 0 ELSE n - 1 + 1
    BY <1>1, FS_Interval
  <2>7. Cardinality(1..n) = n
    BY <1>1, <2>6
  <2> QED
    BY <1>2, <2>5, <2>6, <2>7, FS_Bijection
<1>5. \A t \in DOMAIN tasks : deps[t] = tasks[t].deps
  OBVIOUS
<1> HIDE DEF deps
<1>6. ASSUME NEW t \in DOMAIN tasks PROVE \E i \in DOMAIN dag : t = dag[i].id
  BY <1>2 DEF IDs
<1>7. ASSUME NEW t \in DOMAIN tasks PROVE deps[t] \subseteq DOMAIN tasks
  BY <1>1, <1>2, <1>3, <1>5, <1>6 DEF Ordered
<1>8. ASSUME NEW S \in SUBSET DOMAIN tasks, S # {} PROVE \E t \in S : deps[t] \cap S = {}
  <2>1. PICK i \in DOMAIN dag : dag[i].id \in S /\ dag[i].deps \cap S = {}
    BY <1>1, <1>2, <1>8 DEF Ordered
  <2> QED
    BY <1>3, <1>5, <2>1
<1>9. Runnable(DOMAIN tasks, deps)
  BY <1>7, <1>8 DEF Runnable
<1>10. ASSUME req.install /\ req.model # "", NEW t \in DOMAIN tasks, IsInference(tasks[t])
       PROVE  \E d \in tasks[t].deps : d \in DOMAIN tasks /\ tasks[d].type = "model_download"
  <2>1. InferenceWaits(dag)
    BY <1>10 DEF DagFits
  <2>2. PICK i \in DOMAIN dag : t = dag[i].id
    BY <1>6
  <2>3. IsInference(dag[i])
    BY <1>3, <1>10, <2>2 DEF IsInference
  <2>4. PICK k \in DOMAIN dag : dag[k].type = "model_download" /\ dag[k].id \in dag[i].deps
    BY <2>1, <2>3 DEF InferenceWaits
  <2> QED
    BY <1>2, <1>3, <2>2, <2>4
<1> QED
  BY <1>4, <1>9, <1>10 DEF deps, tasks

---------------------------------------------------------------------------
(* The invariant. *)

HandlerShape == {"at", "server", "id", "req", "route", "plan", "dag", "rule"}
JobShape == {"status", "req", "plan", "planned", "rule", "tasks", "given", "done",
             "denied", "deniedTask", "reopened", "fresh"}

Done(j, t) == \A d \in j.tasks[t].deps : d \in DOMAIN j.tasks /\ d \in j.done

\* What a worker has had was ready.
HandedOut(j) == \A t \in j.given : t \in DOMAIN j.tasks /\ Done(j, t)

\* A denial is a quota's, or what the rules say of one of the job's tasks.
DenialMeant(policy, j) ==
    \/ j.denied.allowed
    \/ j.denied.quota
    \/ /\ j.deniedTask \in DOMAIN j.tasks
       /\ \E worker :
             j.denied = evaluateRules(policy, AssignIn(j.req.tenant, j.tasks[j.deniedTask], worker))

GoodJob(policy, j) ==
    /\ DOMAIN j = JobShape
    /\ \A t \in DOMAIN j.tasks : DOMAIN j.tasks[t] = TaskShape
    /\ HandedOut(j)
    /\ DenialMeant(policy, j)
    /\ Admitted(policy, j.req, j.rule)
    /\ JobPlanned(j.req, j.plan, j.planned, j.tasks)

JobsInv ==
    /\ IsFiniteSet(DOMAIN jobs)
    /\ \A id \in DOMAIN jobs : GoodJob(site.policy, jobs[id])
    /\ accepted \subseteq DOMAIN jobs /\ DOMAIN jobs \subseteq known

Working(h) == handler[h].at # "idle"
Enqueues(h) == handler[h].at = "enqueue"
Enqueueing == {handler[h].id : h \in {g \in Handlers : Enqueues(g)}}

GoodHandler(x, k) ==
    /\ DOMAIN k = HandlerShape
    /\ k.at \in {"plan", "check", "store", "enqueue"}
    /\ k.server \in x.servers
    /\ k.at # "plan" => DagFits(k.req, k.plan, k.dag)
    /\ k.at \in {"store", "enqueue"} => Admitted(x.policy, k.req, k.rule)

HandlersInv ==
    /\ DOMAIN handler = Handlers
    /\ \A h \in Handlers : Working(h) => h \in site.handlers /\ GoodHandler(site, handler[h])
    /\ \A h \in Handlers : Enqueues(h) => handler[h].id \in DOMAIN jobs

\* A store in memory has one server; where only this server gives out IDs, an ID
\* is used once between restarts.
Counted == site.store = "memory" /\ site.direct = {}

NumberInv ==
    /\ seq \in [Servers -> Nat]
    /\ Counted =>
          /\ \A h \in Handlers : Working(h) =>
                /\ handler[h].id \in Nat /\ handler[h].id <= seq[handler[h].server]
                /\ Enqueues(h) \/ handler[h].id \notin DOMAIN jobs
                /\ \A g \in Handlers : Working(g) /\ handler[g].id = handler[h].id => g = h
          /\ \A id \in DOMAIN jobs : id \in Nat /\ \A s \in site.servers : id <= seq[s]

\* A job with a new ID has one handler, and it is not accepted before it is
\* enqueued.
OnceInv ==
    \A h \in Handlers : Enqueues(h) /\ jobs[handler[h].id].fresh =>
        /\ handler[h].id \notin accepted
        /\ \A g \in Handlers : Enqueues(g) /\ handler[g].id = handler[h].id => g = h

\* A task that nobody has had and that waits for no other.
Waits(j, t) ==
    j.fresh /\ t \in DOMAIN j.tasks \ j.given /\ j.tasks[t].deps = {}

\* A handler is about to enqueue the ref.
Owed(id, t) ==
    \E h \in Handlers :
        /\ Enqueues(h) /\ handler[h].id = id
        /\ \E i \in DOMAIN handler[h].dag : handler[h].dag[i].id = t /\ handler[h].dag[i].deps = {}

\* A job without a handler whose submission was not accepted was cut off by a
\* restart.
CutOff(id) == id \notin accepted /\ id \notin Enqueueing

QueueInv ==
    \A id \in DOMAIN jobs \ dropped : \A t \in DOMAIN jobs[id].tasks :
        Waits(jobs[id], t) => <<id, t>> \in refs \/ Owed(id, t) \/ CutOff(id)

\* Admitted requests that are about to be stored count like jobs that have run
\* since they were stored.
RunningOf(tenant) ==
    {id \in DOMAIN jobs :
        /\ jobs[id].req.tenant = tenant /\ jobs[id].status = "Running"
        /\ jobs[id].fresh /\ ~jobs[id].reopened}
StoringOf(tenant) == {h \in site.handlers : handler[h].at = "store" /\ handler[h].req.tenant = tenant}

QuotaInv ==
    \A tenant \in DOMAIN site.policy.maxRunningJobs :
        site.policy.maxRunningJobs[tenant] > 0 =>
            Cardinality(RunningOf(tenant)) + Cardinality(StoringOf(tenant)) <=
                site.policy.maxRunningJobs[tenant] + Cardinality(site.handlers) - 1

Inv ==
    /\ site \in Sites
    /\ JobsInv /\ HandlersInv /\ NumberInv /\ OnceInv /\ QueueInv /\ QuotaInv

---------------------------------------------------------------------------
(* Steps of stored jobs. *)

\* The parts of a record that stay or only grow; a job does not become Running
\* without being reopened.
SameJob(j, n) ==
    /\ DOMAIN n = JobShape
    /\ n.req = j.req /\ n.plan = j.plan /\ n.planned = j.planned /\ n.rule = j.rule
    /\ n.fresh = j.fresh
    /\ j.given \subseteq n.given /\ j.done \subseteq n.done
    /\ DOMAIN n.tasks = DOMAIN j.tasks
    /\ \A t \in DOMAIN j.tasks :
          /\ DOMAIN n.tasks[t] = TaskShape
          /\ n.tasks[t].type = j.tasks[t].type /\ n.tasks[t].deps = j.tasks[t].deps
          /\ n.tasks[t].inputs = j.tasks[t].inputs
    /\ n.status = "Running" /\ ~n.reopened => j.status = "Running" /\ ~j.reopened

LEMMA SameDone ==
    ASSUME NEW j, NEW n, SameJob(j, n), NEW t \in DOMAIN j.tasks, Done(j, t)
    PROVE  Done(n, t)
BY DEF SameJob, Done

LEMMA SameDenial ==
    ASSUME NEW policy, NEW j, NEW n, SameJob(j, n), DenialMeant(policy, j),
           n.denied = j.denied, n.deniedTask = j.deniedTask
    PROVE  DenialMeant(policy, n)
<1>1. CASE j.denied.allowed \/ j.denied.quota
  BY <1>1 DEF DenialMeant
<1>2. CASE ~(j.denied.allowed \/ j.denied.quota)
  <2>1. PICK worker :
           j.denied = evaluateRules(policy, AssignIn(j.req.tenant, j.tasks[j.deniedTask], worker))
    BY <1>2 DEF DenialMeant
  <2>2. j.deniedTask \in DOMAIN j.tasks
    BY <1>2 DEF DenialMeant
  <2>3. /\ n.tasks[j.deniedTask].type = j.tasks[j.deniedTask].type
        /\ n.tasks[j.deniedTask].inputs = j.tasks[j.deniedTask].inputs
        /\ n.deniedTask \in DOMAIN n.tasks /\ n.req = j.req
    BY <2>2 DEF SameJob
  <2>4. AssignIn(n.req.tenant, n.tasks[n.deniedTask], worker) =
            AssignIn(j.req.tenant, j.tasks[j.deniedTask], worker)
    BY <2>3 DEF AssignIn
  <2>5. n.denied = evaluateRules(policy, AssignIn(n.req.tenant, n.tasks[n.deniedTask], worker))
    BY <2>1, <2>4
  <2> QED
    BY <2>3, <2>5 DEF DenialMeant
<1> QED
  BY <1>1, <1>2

LEMMA SameJobGood ==
    ASSUME NEW policy, NEW j, NEW n, GoodJob(policy, j), SameJob(j, n),
           HandedOut(n), DenialMeant(policy, n)
    PROVE  GoodJob(policy, n)
<1>1. [t \in DOMAIN n.tasks |-> n.tasks[t].deps] = [t \in DOMAIN j.tasks |-> j.tasks[t].deps]
  BY DEF SameJob
<1>2. JobPlanned(n.req, n.plan, n.planned, n.tasks)
  <2> SUFFICES ASSUME PlanFit(n.plan)
               PROVE  /\ Cardinality(DOMAIN n.tasks) = n.planned
                      /\ Runnable(DOMAIN n.tasks, [t \in DOMAIN n.tasks |-> n.tasks[t].deps])
                      /\ n.req.install /\ n.req.model # "" =>
                            \A t \in DOMAIN n.tasks : IsInference(n.tasks[t]) =>
                                \E d \in n.tasks[t].deps :
                                    d \in DOMAIN n.tasks /\ n.tasks[d].type = "model_download"
    BY DEF JobPlanned
  <2>1. /\ Cardinality(DOMAIN j.tasks) = j.planned
        /\ Runnable(DOMAIN j.tasks, [t \in DOMAIN j.tasks |-> j.tasks[t].deps])
        /\ j.req.install /\ j.req.model # "" =>
              \A t \in DOMAIN j.tasks : IsInference(j.tasks[t]) =>
                  \E d \in j.tasks[t].deps :
                      d \in DOMAIN j.tasks /\ j.tasks[d].type = "model_download"
    BY DEF GoodJob, JobPlanned, SameJob
  <2>2. Cardinality(DOMAIN n.tasks) = n.planned
    BY <2>1 DEF SameJob
  <2>3. Runnable(DOMAIN n.tasks, [t \in DOMAIN n.tasks |-> n.tasks[t].deps])
    BY <1>1, <2>1 DEF SameJob
  <2>4. ASSUME n.req.install /\ n.req.model # "", NEW t \in DOMAIN n.tasks, IsInference(n.tasks[t])
        PROVE  \E d \in n.tasks[t].deps :
                   d \in DOMAIN n.tasks /\ n.tasks[d].type = "model_download"
    <3>1. t \in DOMAIN j.tasks /\ IsInference(j.tasks[t])
      BY <2>4 DEF SameJob, IsInference
    <3>2. PICK d \in j.tasks[t].deps : d \in DOMAIN j.tasks /\ j.tasks[d].type = "model_download"
      BY <2>1, <2>4, <3>1 DEF SameJob
    <3> QED
      BY <3>1, <3>2 DEF SameJob
  <2> QED
    BY <2>2, <2>3, <2>4
<1> QED
  BY <1>2 DEF GoodJob, SameJob

\* One task is written, and perhaps handed out or done.
Written(j, n, t) ==
    /\ DOMAIN n = JobShape
    /\ n.req = j.req /\ n.plan = j.plan /\ n.planned = j.planned /\ n.rule = j.rule
    /\ n.fresh = j.fresh /\ n.status = j.status /\ n.reopened = j.reopened
    /\ DOMAIN n.tasks = DOMAIN j.tasks
    /\ \A u \in DOMAIN j.tasks : u # t => n.tasks[u] = j.tasks[u]
    /\ DOMAIN n.tasks[t] = TaskShape
    /\ n.tasks[t].type = j.tasks[t].type /\ n.tasks[t].deps = j.tasks[t].deps
    /\ n.tasks[t].inputs = j.tasks[t].inputs

LEMMA WrittenMoves ==
    ASSUME NEW policy, NEW j, NEW n, NEW t \in DOMAIN j.tasks, GoodJob(policy, j), Written(j, n, t),
           j.given \subseteq n.given, n.given \subseteq j.given \cup {t}, j.done \subseteq n.done,
           t \in n.given => Done(j, t),
           DenialMeant(policy, n) \/ (n.denied = j.denied /\ n.deniedTask = j.deniedTask)
    PROVE  SameJob(j, n) /\ GoodJob(policy, n)
<1>1. SameJob(j, n)
  BY DEF Written, SameJob, GoodJob
<1>2. HandedOut(n)
  <2> SUFFICES ASSUME NEW u \in n.given PROVE u \in DOMAIN n.tasks /\ Done(n, u)
    BY DEF HandedOut
  <2>1. u \in DOMAIN j.tasks /\ Done(j, u)
    BY DEF GoodJob, HandedOut
  <2> QED
    BY <1>1, <2>1, SameDone DEF SameJob
<1>3. DenialMeant(policy, n)
  BY <1>1, SameDenial DEF GoodJob
<1> QED
  BY <1>1, <1>2, <1>3, SameJobGood

LEMMA AssignedGood ==
    ASSUME NEW policy, NEW j, NEW n, NEW t \in DOMAIN j.tasks, NEW w, NEW d,
           GoodJob(policy, j), Done(j, t),
           d.quota \/ d = evaluateRules(policy, AssignIn(j.req.tenant, j.tasks[t], w)),
           n = IF d.allowed
               THEN [j EXCEPT !.tasks[t].status = "Assigned", !.given = @ \cup {t}]
               ELSE [j EXCEPT !.tasks[t].status = "Failed", !.denied = d, !.deniedTask = t]
    PROVE  SameJob(j, n) /\ GoodJob(policy, n)
<1>1. /\ DOMAIN j = JobShape
      /\ \A u \in DOMAIN j.tasks : DOMAIN j.tasks[u] = TaskShape
  BY DEF GoodJob
<1>2. CASE d.allowed
  <2>1. n = [j EXCEPT !.tasks[t].status = "Assigned", !.given = @ \cup {t}]
    BY <1>2
  <2>2. Written(j, n, t)
    BY <1>1, <2>1 DEF Written, JobShape, TaskShape
  <2>3. /\ n.given = j.given \cup {t} /\ n.done = j.done
        /\ n.denied = j.denied /\ n.deniedTask = j.deniedTask
    BY <1>1, <2>1 DEF JobShape
  <2> QED
    BY <2>2, <2>3, WrittenMoves
<1>3. CASE ~d.allowed
  <2>1. n = [j EXCEPT !.tasks[t].status = "Failed", !.denied = d, !.deniedTask = t]
    BY <1>3
  <2>2. Written(j, n, t)
    BY <1>1, <2>1 DEF Written, JobShape, TaskShape
  <2>3. n.given = j.given /\ n.done = j.done /\ n.denied = d /\ n.deniedTask = t
    BY <1>1, <2>1 DEF JobShape
  <2>4. AssignIn(n.req.tenant, n.tasks[t], w) = AssignIn(j.req.tenant, j.tasks[t], w)
    BY <2>2 DEF Written, AssignIn
  <2>5. DenialMeant(policy, n)
    <3>1. CASE d.quota
      BY <2>3, <3>1 DEF DenialMeant
    <3>2. CASE ~d.quota
      <4>1. n.denied = evaluateRules(policy, AssignIn(n.req.tenant, n.tasks[n.deniedTask], w))
        BY <2>3, <2>4, <3>2
      <4>2. n.deniedTask \in DOMAIN n.tasks
        BY <2>2, <2>3 DEF Written
      <4> QED
        BY <4>1, <4>2 DEF DenialMeant
    <3> QED
      BY <3>1, <3>2
  <2>6. t \in n.given => Done(j, t)
    OBVIOUS
  <2> QED
    BY <2>2, <2>3, <2>5, <2>6, WrittenMoves
<1> QED
  BY <1>2, <1>3

LEMMA ReportedGood ==
    ASSUME NEW policy, NEW j, NEW n, NEW t \in DOMAIN j.tasks, NEW status, GoodJob(policy, j),
           n = [j EXCEPT !.tasks[t].status = status,
                         !.done = IF status = "Completed" THEN @ \cup {t} ELSE @]
    PROVE  SameJob(j, n) /\ GoodJob(policy, n)
<1>1. /\ DOMAIN j = JobShape
      /\ \A u \in DOMAIN j.tasks : DOMAIN j.tasks[u] = TaskShape
  BY DEF GoodJob
<1>2. Written(j, n, t)
  BY <1>1 DEF Written, JobShape, TaskShape
<1>3. /\ n.given = j.given /\ n.denied = j.denied /\ n.deniedTask = j.deniedTask
      /\ n.done = IF status = "Completed" THEN j.done \cup {t} ELSE j.done
  BY <1>1 DEF JobShape
<1>4. j.done \subseteq n.done
  BY <1>3
<1>5. t \in n.given => Done(j, t)
  BY <1>3 DEF GoodJob, HandedOut
<1> QED
  BY <1>2, <1>3, <1>4, <1>5, WrittenMoves

LEMMA RestatusedGood ==
    ASSUME NEW policy, NEW j, NEW n, NEW status, GoodJob(policy, j),
           n = [j EXCEPT !.status = status, !.reopened =
                   IF status = "Running" /\ j.status # "Running" THEN TRUE ELSE @]
    PROVE  SameJob(j, n) /\ GoodJob(policy, n)
<1>1. /\ DOMAIN j = JobShape
      /\ \A u \in DOMAIN j.tasks : DOMAIN j.tasks[u] = TaskShape
  BY DEF GoodJob
<1>2. /\ DOMAIN n = JobShape
      /\ n.req = j.req /\ n.plan = j.plan /\ n.planned = j.planned /\ n.rule = j.rule
      /\ n.fresh = j.fresh /\ n.tasks = j.tasks /\ n.given = j.given /\ n.done = j.done
      /\ n.denied = j.denied /\ n.deniedTask = j.deniedTask /\ n.status = status
  BY <1>1 DEF JobShape
<1>3. n.status = "Running" /\ ~n.reopened => j.status = "Running" /\ ~j.reopened
  BY <1>1 DEF JobShape
<1>4. SameJob(j, n)
  BY <1>1, <1>2, <1>3 DEF SameJob
<1>5. HandedOut(n)
  BY <1>2 DEF GoodJob, HandedOut, Done
<1>6. DenialMeant(policy, n)
  BY <1>2, <1>4, SameDenial DEF GoodJob
<1> QED
  BY <1>4, <1>5, <1>6, SameJobGood

\* A stored job takes a step; of its refs it loses those of tasks that were handed
\* out.
JobMoves(id) ==
    /\ id \in DOMAIN jobs
    /\ DOMAIN jobs' = DOMAIN jobs
    /\ \A x \in DOMAIN jobs : x # id => jobs'[x] = jobs[x]
    /\ SameJob(jobs[id], jobs'[id]) /\ GoodJob(site.policy, jobs'[id])
    /\ \A x, t : <<x, t>> \in refs => <<x, t>> \in refs' \/ (x = id /\ t \in jobs[id].given)
    /\ UNCHANGED <<site, seq, handler, accepted, dropped, known>>

LEMMA AssignMoves ==
    ASSUME Inv, NEW id \in DOMAIN jobs, NEW t \in DOMAIN jobs[id].tasks, NEW w, NEW running,
           Assign(id, t, w, running)
    PROVE  JobMoves(id)
<1>1. PICK j, n, policy : j = jobs[id] /\ n = jobs'[id] /\ policy = site.policy
  OBVIOUS
<1> DEFINE d == EvaluateAssignment(policy, j.req.tenant, j.tasks[t], w, running)
<1>2. GoodJob(policy, j) /\ t \in DOMAIN j.tasks
  BY <1>1 DEF Inv, JobsInv
<1>3. Done(j, t) /\ UNCHANGED <<site, seq, handler, refs, accepted, dropped, known>>
  BY <1>1 DEF Assign, DepsDone, Done
<1>4. jobs' = IF d.allowed
              THEN [jobs EXCEPT ![id].tasks[t].status = "Assigned", ![id].given = @ \cup {t}]
              ELSE [jobs EXCEPT ![id].tasks[t].status = "Failed", ![id].denied = d,
                                ![id].deniedTask = t]
  BY <1>1 DEF Assign
<1>5. d.quota \/ d = evaluateRules(policy, AssignIn(j.req.tenant, j.tasks[t], w))
  BY DEF EvaluateAssignment, AssignIn, Decision
<1> HIDE DEF d
<1>6. DOMAIN jobs' = DOMAIN jobs /\ \A x \in DOMAIN jobs : x # id => jobs'[x] = jobs[x]
  BY <1>4
<1>7. n = IF d.allowed
          THEN [j EXCEPT !.tasks[t].status = "Assigned", !.given = @ \cup {t}]
          ELSE [j EXCEPT !.tasks[t].status = "Failed", !.denied = d, !.deniedTask = t]
  BY <1>1, <1>4
<1>8. SameJob(j, n) /\ GoodJob(policy, n)
  BY <1>2, <1>3, <1>5, <1>7, AssignedGood
<1> QED
  BY <1>1, <1>3, <1>6, <1>8 DEF JobMoves

LEMMA UpdateTaskMoves ==
    ASSUME Inv, NEW id \in DOMAIN jobs, NEW t \in DOMAIN jobs[id].tasks, NEW status,
           UpdateTask(id, t, status)
    PROVE  JobMoves(id)
<1>1. PICK j, n, policy : j = jobs[id] /\ n = jobs'[id] /\ policy = site.policy
  OBVIOUS
<1>2. GoodJob(policy, j) /\ t \in DOMAIN j.tasks
  BY <1>1 DEF Inv, JobsInv
<1>3. /\ jobs' = [jobs EXCEPT ![id].tasks[t].status = status,
                              ![id].done = IF status = "Completed" THEN @ \cup {t} ELSE @]
      /\ UNCHANGED <<site, seq, handler, refs, accepted, dropped, known>>
  BY DEF UpdateTask
<1>4. DOMAIN jobs' = DOMAIN jobs /\ \A x \in DOMAIN jobs : x # id => jobs'[x] = jobs[x]
  BY <1>3
<1>5. n = [j EXCEPT !.tasks[t].status = status,
                    !.done = IF status = "Completed" THEN @ \cup {t} ELSE @]
  BY <1>1, <1>3
<1>6. SameJob(j, n) /\ GoodJob(policy, n)
  BY <1>2, <1>5, ReportedGood
<1> QED
  BY <1>1, <1>3, <1>4, <1>6 DEF JobMoves

LEMMA UpdateJobMoves ==
    ASSUME Inv, NEW id \in DOMAIN jobs, NEW status, UpdateJob(id, status)
    PROVE  JobMoves(id)
<1>1. PICK j, n, policy : j = jobs[id] /\ n = jobs'[id] /\ policy = site.policy
  OBVIOUS
<1>2. GoodJob(policy, j)
  BY <1>1 DEF Inv, JobsInv
<1>3. /\ jobs' = [jobs EXCEPT ![id].status = status, ![id].reopened =
                     IF status = "Running" /\ j.status # "Running" THEN TRUE ELSE @]
      /\ UNCHANGED <<site, seq, handler, refs, accepted, dropped, known>>
  BY <1>1 DEF UpdateJob
<1>4. DOMAIN jobs' = DOMAIN jobs /\ \A x \in DOMAIN jobs : x # id => jobs'[x] = jobs[x]
  BY <1>3
<1>5. n = [j EXCEPT !.status = status, !.reopened =
              IF status = "Running" /\ j.status # "Running" THEN TRUE ELSE @]
  BY <1>1, <1>3
<1>6. SameJob(j, n) /\ GoodJob(policy, n)
  BY <1>2, <1>5, RestatusedGood
<1> QED
  BY <1>1, <1>3, <1>4, <1>6 DEF JobMoves

\* The queue alone changes, and loses at most the ref of a task that was handed
\* out.
LEMMA QueueMoves ==
    ASSUME Inv, NEW id \in DOMAIN jobs, NEW t \in DOMAIN jobs[id].tasks,
           Ack(id, t) \/ EnqueueAgain(id, t)
    PROVE  JobMoves(id)
<1>1. UNCHANGED <<site, seq, handler, jobs, accepted, dropped, known>>
  BY DEF Ack, EnqueueAgain
<1>2. \A x, u : <<x, u>> \in refs => <<x, u>> \in refs' \/ (x = id /\ u \in jobs[id].given)
  BY DEF Ack, EnqueueAgain
<1>3. GoodJob(site.policy, jobs[id])
  BY DEF Inv, JobsInv
<1>4. SameJob(jobs[id], jobs[id])
  BY <1>3 DEF SameJob, GoodJob
<1> QED
  BY <1>1, <1>2, <1>3, <1>4 DEF JobMoves

LEMMA SiteFacts ==
    ASSUME Inv
    PROVE  /\ site.handlers \subseteq Handlers /\ site.servers \subseteq Servers
           /\ IsFiniteSet(site.handlers)
           /\ Cardinality(site.handlers) \in Nat
           /\ "memory" \in {site.store, site.queue} => \A s, r \in site.servers : s = r
           /\ site.store \in {"memory", "postgres"} /\ site.queue \in {"memory", "redis"}
           /\ site.policy.rules \in Seq(Rules)
           /\ \A t \in DOMAIN site.policy.maxRunningJobs : site.policy.maxRunningJobs[t] \in Int
<1>1. site \in Sites
  BY DEF Inv
<1>2. IsFiniteSet(site.handlers)
  BY <1>1, SitesAssumption
<1>3. Cardinality(site.handlers) \in Nat
  BY <1>2, FS_CardinalityType
<1>4. /\ site.handlers \subseteq Handlers /\ site.servers \subseteq Servers
      /\ site.store \in {"memory", "postgres"} /\ site.queue \in {"memory", "redis"}
  BY <1>1, SitesAssumption
<1>5. "memory" \in {site.store, site.queue} => \A s, r \in site.servers : s = r
  BY <1>1, SitesAssumption
<1>6. site.policy.rules \in Seq(Rules)
  BY <1>1, SitesAssumption
<1>7. \A t \in DOMAIN site.policy.maxRunningJobs : site.policy.maxRunningJobs[t] \in Int
  BY <1>1, SitesAssumption
<1> QED
  BY <1>2, <1>3, <1>4, <1>5, <1>6, <1>7

\* Fewer running jobs and fewer requests about to be stored.
LEMMA FewerKeepsQuota ==
    ASSUME Inv, site' = site,
           \A tenant : RunningOf(tenant)' \subseteq RunningOf(tenant),
           \A tenant : StoringOf(tenant)' \subseteq StoringOf(tenant)
    PROVE  QuotaInv'
<1> SUFFICES ASSUME NEW tenant \in DOMAIN site.policy.maxRunningJobs,
                    site.policy.maxRunningJobs[tenant] > 0
             PROVE  Cardinality(RunningOf(tenant)') + Cardinality(StoringOf(tenant)') <=
                        site.policy.maxRunningJobs[tenant] + Cardinality(site.handlers) - 1
  BY DEF QuotaInv
<1>1. PICK A, B, C, D : /\ A = RunningOf(tenant) /\ B = RunningOf(tenant)'
                        /\ C = StoringOf(tenant) /\ D = StoringOf(tenant)'
  OBVIOUS
<1>2. IsFiniteSet(A) /\ IsFiniteSet(C)
  <2>1. A \subseteq DOMAIN jobs /\ IsFiniteSet(DOMAIN jobs)
    BY <1>1 DEF RunningOf, Inv, JobsInv
  <2>2. C \subseteq site.handlers /\ IsFiniteSet(site.handlers)
    BY <1>1, SiteFacts DEF StoringOf
  <2> QED
    BY <2>1, <2>2, FS_Subset
<1>3. B \in SUBSET A /\ D \in SUBSET C
  BY <1>1
<1>4. Cardinality(B) <= Cardinality(A) /\ Cardinality(D) <= Cardinality(C) /\ IsFiniteSet(B) /\ IsFiniteSet(D)
  BY <1>2, <1>3, FS_Subset
<1>5. Cardinality(A) \in Nat /\ Cardinality(B) \in Nat /\ Cardinality(C) \in Nat /\ Cardinality(D) \in Nat
  BY <1>2, <1>4, FS_CardinalityType
<1>6. Cardinality(A) + Cardinality(C) <= site.policy.maxRunningJobs[tenant] + Cardinality(site.handlers) - 1
  BY <1>1 DEF Inv, QuotaInv
<1>7. site.policy.maxRunningJobs[tenant] \in Int /\ Cardinality(site.handlers) \in Nat
  BY SiteFacts
<1>8. Cardinality(B) + Cardinality(D) <= Cardinality(A) + Cardinality(C)
  BY <1>4, <1>5
<1>9. Cardinality(B) + Cardinality(D) <= site.policy.maxRunningJobs[tenant] + Cardinality(site.handlers) - 1
  BY <1>5, <1>6, <1>7, <1>8
<1> QED
  BY <1>1, <1>9

LEMMA JobMovesInv ==
    ASSUME Inv, NEW id \in DOMAIN jobs, JobMoves(id)
    PROVE  Inv'
<1>1. /\ DOMAIN jobs' = DOMAIN jobs
      /\ site' = site /\ seq' = seq /\ handler' = handler
      /\ accepted' = accepted /\ dropped' = dropped /\ known' = known
      /\ \A x \in DOMAIN jobs : x # id => jobs'[x] = jobs[x]
      /\ SameJob(jobs[id], jobs'[id]) /\ GoodJob(site.policy, jobs'[id])
  BY DEF JobMoves
<1>2. JobsInv'
  <2>1. IsFiniteSet(DOMAIN jobs') /\ accepted' \subseteq DOMAIN jobs' /\ DOMAIN jobs' \subseteq known'
    BY <1>1 DEF Inv, JobsInv
  <2>2. \A x \in DOMAIN jobs' : GoodJob(site'.policy, jobs'[x])
    BY <1>1 DEF Inv, JobsInv
  <2> QED
    BY <2>1, <2>2 DEF JobsInv
<1>3. HandlersInv'
  BY <1>1 DEF Inv, HandlersInv, Working, Enqueues
<1>4. NumberInv'
  BY <1>1 DEF Inv, NumberInv, Working, Enqueues, Counted
<1>5. OnceInv'
  <2>1. \A x \in DOMAIN jobs : jobs'[x].fresh = jobs[x].fresh
    BY <1>1 DEF SameJob
  <2>2. \A h \in Handlers : Enqueues(h) => handler[h].id \in DOMAIN jobs
    BY DEF Inv, HandlersInv
  <2> QED
    BY <1>1, <2>1, <2>2 DEF Inv, OnceInv, Enqueues
<1>6. QueueInv'
  <2> SUFFICES ASSUME NEW x \in DOMAIN jobs \ dropped, NEW t \in DOMAIN jobs'[x].tasks,
                      Waits(jobs'[x], t)
               PROVE  <<x, t>> \in refs' \/ Owed(x, t)' \/ CutOff(x)'
    BY <1>1 DEF QueueInv
  <2>1. (Owed(x, t)' <=> Owed(x, t)) /\ (CutOff(x)' <=> CutOff(x))
    BY <1>1 DEF Owed, CutOff, Enqueues, Enqueueing
  <2>2. CASE x # id
    <3>1. jobs'[x] = jobs[x]
      BY <1>1, <2>2
    <3>2. <<x, t>> \in refs \/ Owed(x, t) \/ CutOff(x)
      BY <3>1 DEF Inv, QueueInv
    <3> QED
      BY <2>1, <2>2, <3>2 DEF JobMoves
  <2>3. CASE x = id
    <3>1. t \in DOMAIN jobs[id].tasks
      BY <1>1, <2>3 DEF SameJob
    <3>2. Waits(jobs[id], t) /\ t \notin jobs[id].given
      BY <1>1, <2>3, <3>1 DEF Waits, SameJob
    <3>3. <<id, t>> \in refs \/ Owed(id, t) \/ CutOff(id)
      BY <2>3, <3>1, <3>2 DEF Inv, QueueInv
    <3> QED
      BY <2>1, <2>3, <3>2, <3>3 DEF JobMoves
  <2> QED
    BY <2>2, <2>3
<1>7. QuotaInv'
  <2>1. ASSUME NEW tenant PROVE RunningOf(tenant)' \subseteq RunningOf(tenant)
    <3> SUFFICES ASSUME NEW x \in RunningOf(tenant)' PROVE x \in RunningOf(tenant)
      OBVIOUS
    <3>1. /\ x \in DOMAIN jobs /\ jobs'[x].req.tenant = tenant /\ jobs'[x].status = "Running"
          /\ jobs'[x].fresh /\ ~jobs'[x].reopened
      BY <1>1 DEF RunningOf
    <3>2. /\ jobs[x].req.tenant = tenant /\ jobs[x].status = "Running"
          /\ jobs[x].fresh /\ ~jobs[x].reopened
      BY <1>1, <3>1 DEF SameJob
    <3> QED
      BY <3>1, <3>2 DEF RunningOf
  <2>2. ASSUME NEW tenant PROVE StoringOf(tenant)' \subseteq StoringOf(tenant)
    BY <1>1 DEF StoringOf
  <2> QED
    BY <1>1, <2>1, <2>2, FewerKeepsQuota
<1> QED
  BY <1>1, <1>2, <1>3, <1>4, <1>5, <1>6, <1>7 DEF Inv

---------------------------------------------------------------------------
(* Steps of handlers. *)

\* Only h moves, and its stage is k.at now.
HandlerStep(h, k) ==
    /\ h \in site.handlers
    /\ DOMAIN handler' = Handlers
    /\ handler'[h] = k
    /\ \A g \in Handlers : g # h => handler'[g] = handler[g]

LEMMA EnterStep ==
    ASSUME Inv, NEW h \in site.handlers, NEW k, handler' = [handler EXCEPT ![h] = k]
    PROVE  HandlerStep(h, k)
BY SiteFacts DEF Inv, HandlersInv, HandlerStep

\* A step before the job is stored, or of a request that is refused.
LEMMA QuietStep ==
    ASSUME Inv, NEW h, NEW k, HandlerStep(h, k), ~Enqueues(h), k.at # "enqueue",
           k.at # "idle" => GoodHandler(site, k),
           UNCHANGED <<site, jobs, refs, accepted, dropped, known>>
    PROVE  JobsInv' /\ HandlersInv' /\ OnceInv' /\ QueueInv'
<1>1. /\ h \in site.handlers /\ h \in Handlers
      /\ DOMAIN handler' = Handlers /\ handler'[h] = k
      /\ \A g \in Handlers : g # h => handler'[g] = handler[g]
      /\ site' = site /\ jobs' = jobs /\ refs' = refs /\ accepted' = accepted /\ dropped' = dropped
      /\ known' = known
  BY SiteFacts DEF HandlerStep
<1>2. \A g \in Handlers : Enqueues(g)' => Enqueues(g) /\ handler'[g] = handler[g]
  BY <1>1 DEF Enqueues
<1>3. \A g \in Handlers : Enqueues(g) => Enqueues(g)' /\ handler'[g] = handler[g]
  BY <1>1 DEF Enqueues
<1>4. JobsInv'
  BY <1>1 DEF Inv, JobsInv
<1>5. HandlersInv'
  <2>1. ASSUME NEW g \in Handlers, Working(g)' PROVE g \in site'.handlers /\ GoodHandler(site', handler'[g])
    BY <1>1, <2>1 DEF Inv, HandlersInv, Working
  <2>2. ASSUME NEW g \in Handlers, Enqueues(g)' PROVE handler'[g].id \in DOMAIN jobs'
    BY <1>1, <1>2, <2>2 DEF Inv, HandlersInv
  <2> QED
    BY <1>1, <2>1, <2>2 DEF HandlersInv
<1>6. OnceInv'
  <2> SUFFICES ASSUME NEW g \in Handlers, Enqueues(g)', jobs'[handler'[g].id].fresh
               PROVE  /\ handler'[g].id \notin accepted'
                      /\ \A f \in Handlers : Enqueues(f)' /\ handler'[f].id = handler'[g].id => f = g
    BY <1>1 DEF OnceInv
  <2> QED
    BY <1>1, <1>2 DEF Inv, OnceInv
<1>7. Enqueueing' = Enqueueing
  BY <1>1, <1>2, <1>3 DEF Enqueueing, Enqueues
<1>8. \A x, t : Owed(x, t) => Owed(x, t)'
  BY <1>3 DEF Owed
<1>9. \A x : CutOff(x) => CutOff(x)'
  BY <1>1, <1>7 DEF CutOff
<1>10. QueueInv'
  BY <1>1, <1>8, <1>9 DEF Inv, QueueInv
<1> QED
  BY <1>4, <1>5, <1>6, <1>10

\* A request keeps its ID.
LEMMA SameNumber ==
    ASSUME Inv, NEW h, NEW k, HandlerStep(h, k),
           k.at # "idle" => Working(h) /\ k.id = handler[h].id /\ k.server = handler[h].server,
           k.at # "idle" /\ k.at # "enqueue" => ~Enqueues(h),
           k.at = "enqueue" => Enqueues(h),
           UNCHANGED <<site, seq, jobs>>
    PROVE  NumberInv'
<1>1. /\ h \in Handlers
      /\ handler'[h] = k /\ \A g \in Handlers : g # h => handler'[g] = handler[g]
      /\ site' = site /\ jobs' = jobs /\ seq' = seq
  BY SiteFacts DEF HandlerStep
<1>2. seq' \in [Servers -> Nat]
  BY <1>1 DEF Inv, NumberInv
<1>3. \A g \in Handlers : Working(g)' =>
         /\ Working(g) /\ handler'[g].id = handler[g].id /\ handler'[g].server = handler[g].server
         /\ Enqueues(g)' <=> Enqueues(g)
  BY <1>1 DEF Working, Enqueues
<1>4. ASSUME Counted
      PROVE  /\ \A g \in Handlers : Working(g)' =>
                   /\ handler'[g].id \in Nat /\ handler'[g].id <= seq'[handler'[g].server]
                   /\ Enqueues(g)' \/ handler'[g].id \notin DOMAIN jobs'
                   /\ \A f \in Handlers : Working(f)' /\ handler'[f].id = handler'[g].id => f = g
             /\ \A id \in DOMAIN jobs' : id \in Nat /\ \A s \in site'.servers : id <= seq'[s]
  BY <1>1, <1>3, <1>4 DEF Inv, NumberInv
<1>5. Counted' <=> Counted
  BY <1>1 DEF Counted
<1> QED
  BY <1>2, <1>4, <1>5 DEF NumberInv

\* The request is not admitted in this step.
LEMMA QuietQuota ==
    ASSUME Inv, NEW h, NEW k, HandlerStep(h, k), UNCHANGED <<site, jobs>>, k.at # "store"
    PROVE  QuotaInv'
<1>1. /\ h \in Handlers /\ site.handlers \subseteq Handlers
      /\ handler'[h] = k /\ \A g \in Handlers : g # h => handler'[g] = handler[g]
      /\ site' = site /\ jobs' = jobs
  BY SiteFacts DEF HandlerStep
<1>2. \A tenant : RunningOf(tenant)' \subseteq RunningOf(tenant)
  BY <1>1 DEF RunningOf
<1>3. ASSUME NEW tenant PROVE StoringOf(tenant)' \subseteq StoringOf(tenant)
  BY <1>1 DEF StoringOf
<1> QED
  BY <1>1, <1>2, <1>3, FewerKeepsQuota

LEMMA BeginQuiet ==
    ASSUME Inv, NEW h \in site.handlers, NEW s \in site.servers, NEW id, NEW at \in {"plan", "check"},
           NEW req, NEW route, NEW plan, NEW dag, Begin(h, s, id, at, req, route, plan, dag),
           at = "check" => DagFits(req, plan, dag)
    PROVE  /\ JobsInv' /\ HandlersInv' /\ OnceInv' /\ QueueInv' /\ QuotaInv' /\ site' = site
           /\ \E k : HandlerStep(h, k) /\ k.id = id /\ k.server = s /\ k.at \in {"plan", "check"}
<1> DEFINE k == [at |-> at, server |-> s, id |-> id, req |-> req, route |-> route,
                 plan |-> plan, dag |-> dag, rule |-> 0]
<1>1. /\ handler[h].at = "idle" /\ handler' = [handler EXCEPT ![h] = k]
      /\ UNCHANGED <<site, jobs, refs, accepted, dropped, known>>
  BY DEF Begin
<1>2. /\ DOMAIN k = HandlerShape /\ k.at = at /\ k.server = s /\ k.id = id
      /\ k.req = req /\ k.plan = plan /\ k.dag = dag
  BY DEF HandlerShape
<1> HIDE DEF k
<1>3. HandlerStep(h, k)
  BY <1>1, EnterStep
<1>4. GoodHandler(site, k)
  BY <1>2 DEF GoodHandler
<1>5. ~Enqueues(h) /\ k.at # "enqueue" /\ k.at # "store"
  BY <1>1, <1>2 DEF Enqueues
<1>6. JobsInv' /\ HandlersInv' /\ OnceInv' /\ QueueInv'
  BY <1>1, <1>3, <1>4, <1>5, QuietStep
<1>7. QuotaInv'
  BY <1>1, <1>3, <1>5, QuietQuota
<1> QED
  BY <1>1, <1>2, <1>3, <1>6, <1>7

\* The next number is new.
LEMMA NextNumber ==
    ASSUME Inv, NEW h \in site.handlers, NEW s \in site.servers, NEW k, HandlerStep(h, k),
           k.id = seq[s] + 1, k.server = s, k.at \in {"plan", "check"},
           handler[h].at = "idle", NextID(s), UNCHANGED <<site, jobs>>
    PROVE  NumberInv'
<1>1. /\ h \in Handlers /\ s \in Servers
      /\ handler'[h] = k /\ \A g \in Handlers : g # h => handler'[g] = handler[g]
      /\ site' = site /\ jobs' = jobs /\ seq' = [seq EXCEPT ![s] = @ + 1]
  BY SiteFacts DEF HandlerStep, NextID
<1>2. seq \in [Servers -> Nat]
  BY DEF Inv, NumberInv
<1>3. seq' \in [Servers -> Nat] /\ seq'[s] = seq[s] + 1 /\ seq[s] \in Nat
  BY <1>1, <1>2
<1>4. Counted' <=> Counted
  BY <1>1 DEF Counted
<1>5. ASSUME Counted
      PROVE  /\ \A g \in Handlers : Working(g)' =>
                   /\ handler'[g].id \in Nat /\ handler'[g].id <= seq'[handler'[g].server]
                   /\ Enqueues(g)' \/ handler'[g].id \notin DOMAIN jobs'
                   /\ \A f \in Handlers : Working(f)' /\ handler'[f].id = handler'[g].id => f = g
             /\ \A id \in DOMAIN jobs' : id \in Nat /\ \A r \in site'.servers : id <= seq'[r]
  <2>1. \A r \in site.servers : r = s
    BY <1>5, SiteFacts DEF Counted
  <2>2. ASSUME NEW id \in DOMAIN jobs PROVE id \in Nat /\ id <= seq[s]
    BY <1>5 DEF Inv, NumberInv
  <2>3. ASSUME NEW g \in Handlers, g # h, Working(g)'
        PROVE  /\ handler'[g].id \in Nat /\ handler'[g].id <= seq[s] /\ handler'[g].server = s
               /\ Enqueues(g)' \/ handler'[g].id \notin DOMAIN jobs'
               /\ Working(g) /\ handler'[g] = handler[g]
    <3>1. handler'[g] = handler[g] /\ Working(g) /\ (Enqueues(g)' <=> Enqueues(g))
      BY <1>1, <2>3 DEF Working, Enqueues
    <3>2. handler[g].server = s
      BY <2>1, <3>1 DEF Inv, HandlersInv, GoodHandler
    <3> QED
      BY <1>1, <1>5, <3>1, <3>2 DEF Inv, NumberInv
  <2>4. /\ handler'[h].id = seq[s] + 1 /\ handler'[h].server = s
        /\ handler'[h].id \notin DOMAIN jobs'
    <3>1. seq[s] + 1 \notin DOMAIN jobs
      BY <1>3, <2>2
    <3> QED
      BY <1>1, <3>1
  <2>5. ASSUME NEW g \in Handlers, Working(g)'
        PROVE  /\ handler'[g].id \in Nat /\ handler'[g].id <= seq'[handler'[g].server]
               /\ Enqueues(g)' \/ handler'[g].id \notin DOMAIN jobs'
    BY <1>3, <2>3, <2>4, <2>5
  <2>6. ASSUME NEW g \in Handlers, NEW f \in Handlers, Working(g)', Working(f)',
               handler'[f].id = handler'[g].id
        PROVE  f = g
    <3>1. CASE f = h /\ g # h
      BY <1>3, <2>3, <2>4, <2>6, <3>1
    <3>2. CASE g = h /\ f # h
      BY <1>3, <2>3, <2>4, <2>6, <3>2
    <3>3. CASE g # h /\ f # h
      BY <1>5, <2>3, <2>6, <3>3 DEF Inv, NumberInv
    <3> QED
      BY <3>1, <3>2, <3>3
  <2>7. ASSUME NEW id \in DOMAIN jobs', NEW r \in site'.servers PROVE id \in Nat /\ id <= seq'[r]
    BY <1>1, <1>3, <2>1, <2>2
  <2>8. \A id \in DOMAIN jobs' : id \in Nat
    BY <1>1, <2>2
  <2> QED
    BY <2>5, <2>6, <2>7, <2>8
<1> QED
  BY <1>3, <1>4, <1>5 DEF NumberInv

LEMMA SubmitStep ==
    ASSUME Inv, NEW h \in site.handlers, NEW s \in site.servers, NEW r, Submit(h, s, r)
    PROVE  Inv'
<1> DEFINE req == WithDefaults(r)
           route == RouteOf(r)
<1>1. NextID(s) /\ Begin(h, s, seq[s] + 1, "plan", req, route, NoPlan, <<>>)
  BY DEF Submit
<1> HIDE DEF req, route
<1>2. PICK id, dag : id = seq[s] + 1 /\ dag = <<>>
  OBVIOUS
<1>3. Begin(h, s, id, "plan", req, route, NoPlan, dag)
  BY <1>1, <1>2
<1>4. /\ JobsInv' /\ HandlersInv' /\ OnceInv' /\ QueueInv' /\ QuotaInv' /\ site' = site
      /\ \E k : HandlerStep(h, k) /\ k.id = id /\ k.server = s /\ k.at \in {"plan", "check"}
  BY <1>3, BeginQuiet
<1>5. NumberInv'
  BY <1>1, <1>2, <1>3, <1>4, NextNumber DEF Begin
<1> QED
  BY <1>4, <1>5 DEF Inv

LEMMA PrefetchStep ==
    ASSUME Inv, NEW h \in site.handlers, NEW s \in site.servers, NEW n \in site.prefetches,
           Prefetch(h, s, n)
    PROVE  Inv'
<1> DEFINE route == [backend |-> "", model |-> PrefetchBody.model]
           dag == prefetchDAG(n, PrefetchBody.model)
<1>1. NextID(s) /\ Begin(h, s, seq[s] + 1, "check", PrefetchBody, route, NoPlan, dag)
  BY DEF Prefetch
<1>2. n \in 0..Len(prefetchNames)
  BY SitesAssumption DEF Inv
<1>3. DagFits(PrefetchBody, NoPlan, dag)
  <2>1. PICK model : model = PrefetchBody.model
    OBVIOUS
  <2>2. DagFits(PrefetchBody, NoPlan, prefetchDAG(n, model))
    BY <1>2, PrefetchFits
  <2> QED
    BY <2>1, <2>2
<1> HIDE DEF route, dag
<1>4. PICK id : id = seq[s] + 1
  OBVIOUS
<1>5. Begin(h, s, id, "check", PrefetchBody, route, NoPlan, dag)
  BY <1>1, <1>4
<1>6. /\ JobsInv' /\ HandlersInv' /\ OnceInv' /\ QueueInv' /\ QuotaInv' /\ site' = site
      /\ \E k : HandlerStep(h, k) /\ k.id = id /\ k.server = s /\ k.at \in {"plan", "check"}
  <2>1. PICK req, plan : req = PrefetchBody /\ plan = NoPlan
    OBVIOUS
  <2>2. Begin(h, s, id, "check", req, route, plan, dag) /\ DagFits(req, plan, dag)
    BY <1>3, <1>5, <2>1
  <2> QED
    BY <2>2, BeginQuiet
<1>7. NumberInv'
  BY <1>1, <1>4, <1>5, <1>6, NextNumber DEF Begin
<1> QED
  BY <1>6, <1>7 DEF Inv

LEMMA EnqueueStep ==
    ASSUME Inv, NEW h \in site.handlers, NEW s \in site.servers, NEW d \in site.direct, Enqueue(h, s, d)
    PROVE  Inv'
<1> DEFINE route == [backend |-> "", model |-> d[2].model]
<1>1. UNCHANGED seq /\ Begin(h, s, d[1], "check", d[2], route, d[3], d[3])
  BY DEF Enqueue
<1>2. d[3] \in DAGs /\ ~d[2].install
  BY SitesAssumption DEF Inv
<1>3. DagFits(d[2], d[3], d[3])
  BY <1>2, DagsAreDags, SoundOrdered DEF DagFits, PlanFit
<1> HIDE DEF route
<1>4. PICK id, req, dag : id = d[1] /\ req = d[2] /\ dag = d[3]
  OBVIOUS
<1>5. Begin(h, s, id, "check", req, route, dag, dag) /\ DagFits(req, dag, dag)
  BY <1>1, <1>3, <1>4
<1>6. JobsInv' /\ HandlersInv' /\ OnceInv' /\ QueueInv' /\ QuotaInv' /\ site' = site
  BY <1>5, BeginQuiet
<1>7. NumberInv'
  BY <1>1, <1>6 DEF Inv, NumberInv, Counted
<1> QED
  BY <1>6, <1>7 DEF Inv

LEMMA PlanStep ==
    ASSUME Inv, NEW h \in site.handlers, NEW answer \in site.answers, Plan(h, answer)
    PROVE  Inv'
<1>1. PICK k : k = handler[h]
  OBVIOUS
<1> DEFINE dag == CompileWithMode(k.req.analyze, k.req.mode, answer)
           routed == injectModelBackend(dag, k.route.backend)
           new == injectModelInstallTasks(routed, k.req.model, k.req.install)
           plan == ProviderPlan(answer)
           n == [k EXCEPT !.at = "check", !.plan = plan, !.dag = new]
<1>2. /\ k.at = "plan"
      /\ ~(k.req.mode \in {"llm", "llm_planner"}) => ~answer.ok
      /\ handler' = [handler EXCEPT ![h].at = "check", ![h].plan = plan, ![h].dag = new]
      /\ UNCHANGED <<site, seq, jobs, refs, accepted, dropped, known>>
  BY <1>1 DEF Plan
<1>3. answer.tasks \in DAGs
  BY SitesAssumption DEF Inv
<1>4. DagFits(k.req, plan, new)
  BY <1>2, <1>3, PlanFits
<1> HIDE DEF new, plan
<1>5. handler' = [handler EXCEPT ![h] = n]
  BY <1>1, <1>2
<1>6. h \in Handlers /\ Working(h) /\ ~Enqueues(h)
  BY <1>1, <1>2, SiteFacts DEF Working, Enqueues
<1>7. DOMAIN k = HandlerShape /\ k.server \in site.servers
  BY <1>1, <1>6 DEF Inv, HandlersInv, GoodHandler
<1>8. /\ DOMAIN n = HandlerShape /\ n.at = "check" /\ n.plan = plan /\ n.dag = new
      /\ n.req = k.req /\ n.id = k.id /\ n.server = k.server
  BY <1>7 DEF HandlerShape
<1> HIDE DEF n
<1>9. HandlerStep(h, n)
  BY <1>5, EnterStep
<1>10. GoodHandler(site, n)
  BY <1>4, <1>7, <1>8 DEF GoodHandler
<1>11. JobsInv' /\ HandlersInv' /\ OnceInv' /\ QueueInv'
  BY <1>2, <1>6, <1>8, <1>9, <1>10, QuietStep
<1>12. NumberInv'
  BY <1>1, <1>2, <1>6, <1>8, <1>9, SameNumber
<1>13. QuotaInv'
  BY <1>2, <1>8, <1>9, QuietQuota
<1> QED
  BY <1>2, <1>11, <1>12, <1>13 DEF Inv

\* A request that is refused leaves nothing behind.
LEMMA ReplyStep ==
    ASSUME Inv, NEW h \in site.handlers, ~Enqueues(h), Reply(h),
           UNCHANGED <<site, seq, jobs, refs, accepted, dropped, known>>
    PROVE  Inv'
<1>1. PICK k : k = Idle
  OBVIOUS
<1>2. k.at = "idle"
  BY <1>1 DEF Idle
<1>3. HandlerStep(h, k)
  BY <1>1, EnterStep DEF Reply
<1>4. JobsInv' /\ HandlersInv' /\ OnceInv' /\ QueueInv'
  BY <1>2, <1>3, QuietStep
<1>5. NumberInv'
  BY <1>2, <1>3, SameNumber
<1>6. QuotaInv'
  BY <1>2, <1>3, QuietQuota
<1> QED
  BY <1>4, <1>5, <1>6 DEF Inv

LEMMA AllowedDecision ==
    ASSUME NEW policy, NEW in, evaluateRules(policy, in).allowed
    PROVE  evaluateRules(policy, in) = Decision(TRUE, FALSE, evaluateRules(policy, in).rule)
<1>1. \E b \in BOOLEAN : \E i : evaluateRules(policy, in) = Decision(b, FALSE, i)
  <2>1. (DefaultAction(policy) = "allow") \in BOOLEAN
    OBVIOUS
  <2>2. (Effect(policy.rules[Min(Hits(policy, in))]) = "allow") \in BOOLEAN
    OBVIOUS
  <2> QED
    BY <2>1, <2>2 DEF evaluateRules
<1> PICK b \in BOOLEAN : \E i : evaluateRules(policy, in) = Decision(b, FALSE, i)
  BY <1>1
<1> PICK i : evaluateRules(policy, in) = Decision(b, FALSE, i)
  OBVIOUS
<1>2. Decision(b, FALSE, i).allowed = b /\ Decision(b, FALSE, i).rule = i
  BY DEF Decision
<1>3. b = TRUE
  BY <1>2
<1> QED
  BY <1>2, <1>3

\* The quota a request passes leaves room for it, and there are only so many
\* handlers.
LEMMA AdmitQuota ==
    ASSUME Inv, NEW h, NEW k, HandlerStep(h, k), UNCHANGED <<site, jobs>>,
           NEW own, k.req.tenant = own,
           ~QuotaReached(site.policy.maxRunningJobs, own, RunningJobs(own))
    PROVE  QuotaInv'
<1> SUFFICES ASSUME NEW tenant \in DOMAIN site.policy.maxRunningJobs,
                    site.policy.maxRunningJobs[tenant] > 0
             PROVE  Cardinality(RunningOf(tenant)') + Cardinality(StoringOf(tenant)') <=
                        site.policy.maxRunningJobs[tenant] + Cardinality(site.handlers) - 1
  BY DEF QuotaInv
<1>1. /\ h \in Handlers /\ site.handlers \subseteq Handlers
      /\ handler'[h] = k /\ \A g \in Handlers : g # h => handler'[g] = handler[g]
      /\ site' = site /\ jobs' = jobs
  BY SiteFacts DEF HandlerStep
<1>2. PICK A, C, D, max, size :
         /\ A = RunningOf(tenant) /\ C = StoringOf(tenant) /\ D = StoringOf(tenant)'
         /\ max = site.policy.maxRunningJobs[tenant] /\ size = Cardinality(site.handlers)
  OBVIOUS
<1>3. RunningOf(tenant)' = A
  BY <1>1, <1>2 DEF RunningOf
<1>4. max \in Int /\ size \in Nat
  BY <1>2, SiteFacts
<1>5. IsFiniteSet(A) /\ C \subseteq site.handlers /\ D \subseteq site.handlers
  <2>1. A \in SUBSET DOMAIN jobs /\ IsFiniteSet(DOMAIN jobs)
    BY <1>2 DEF RunningOf, Inv, JobsInv
  <2> QED
    BY <1>1, <1>2, <2>1, FS_Subset DEF StoringOf
<1>6. /\ IsFiniteSet(C) /\ IsFiniteSet(D) /\ Cardinality(D) <= size
  BY <1>2, <1>5, SiteFacts, FS_Subset
<1>7. Cardinality(A) \in Nat /\ Cardinality(C) \in Nat /\ Cardinality(D) \in Nat
  BY <1>5, <1>6, FS_CardinalityType
<1>8. CASE tenant = own
  <2> DEFINE R == {id \in DOMAIN jobs : jobs[id].req.tenant = own /\ jobs[id].status = "Running"}
  <2>1. RunningJobs(own) = Cardinality(R)
    BY DEF RunningJobs
  <2>2. A \in SUBSET R /\ R \in SUBSET DOMAIN jobs /\ IsFiniteSet(DOMAIN jobs)
    BY <1>2, <1>8 DEF RunningOf, Inv, JobsInv
  <2> HIDE DEF R
  <2>3. IsFiniteSet(R)
    BY <2>2, FS_Subset
  <2>4. Cardinality(A) <= Cardinality(R) /\ Cardinality(R) \in Nat
    BY <2>2, <2>3, FS_Subset, FS_CardinalityType
  <2>5. Cardinality(R) < max
    BY <1>2, <1>4, <1>8, <2>1, <2>4 DEF QuotaReached
  <2>6. Cardinality(A) < max
    BY <1>4, <1>7, <2>4, <2>5
  <2>7. Cardinality(A) + Cardinality(D) <= max + size - 1
    BY <1>4, <1>6, <1>7, <2>6
  <2> QED
    BY <1>2, <1>3, <2>7
<1>9. CASE tenant # own
  <2>1. D \subseteq C
    BY <1>1, <1>2, <1>9 DEF StoringOf
  <2>2. Cardinality(D) <= Cardinality(C)
    BY <1>6, <2>1, FS_Subset
  <2>3. Cardinality(A) + Cardinality(C) <= max + size - 1
    BY <1>2 DEF Inv, QuotaInv
  <2>4. Cardinality(A) + Cardinality(D) <= max + size - 1
    BY <1>4, <1>7, <2>2, <2>3
  <2> QED
    BY <1>2, <1>3, <2>4
<1> QED
  BY <1>8, <1>9

LEMMA CheckStep ==
    ASSUME Inv, NEW h \in site.handlers, CheckPolicy(h)
    PROVE  Inv'
<1>1. PICK k, policy : k = handler[h] /\ policy = site.policy
  OBVIOUS
<1> DEFINE d == EvaluateSubmit(policy, k.req, RunningJobs(k.req.tenant))
           n == [k EXCEPT !.at = "store", !.rule = d.rule]
<1>2. /\ k.at = "check"
      /\ UNCHANGED <<site, seq, jobs, refs, accepted, dropped, known>>
      /\ d.allowed => handler' = [handler EXCEPT ![h].at = "store", ![h].rule = d.rule]
      /\ ~d.allowed => Reply(h)
  BY <1>1 DEF CheckPolicy
<1>3. h \in Handlers /\ Working(h) /\ ~Enqueues(h)
  BY <1>1, <1>2, SiteFacts DEF Working, Enqueues
<1>4. CASE ~d.allowed
  BY <1>2, <1>3, <1>4, ReplyStep
<1>5. CASE d.allowed
  <2>1. ~QuotaReached(policy.maxRunningJobs, k.req.tenant, RunningJobs(k.req.tenant))
    BY <1>5 DEF EvaluateSubmit, Decision
  <2>2. d = evaluateRules(policy, SubmitIn(k.req))
    BY <2>1 DEF EvaluateSubmit, SubmitIn
  <2>3. Admitted(policy, k.req, d.rule)
    BY <1>5, <2>2, AllowedDecision DEF Admitted
  <2> HIDE DEF d
  <2>4. handler' = [handler EXCEPT ![h] = n]
    BY <1>1, <1>2, <1>5
  <2>5. DOMAIN k = HandlerShape /\ k.server \in site.servers /\ DagFits(k.req, k.plan, k.dag)
    BY <1>1, <1>2, <1>3 DEF Inv, HandlersInv, GoodHandler
  <2>6. /\ DOMAIN n = HandlerShape /\ n.at = "store" /\ n.rule = d.rule /\ n.plan = k.plan
        /\ n.dag = k.dag /\ n.req = k.req /\ n.id = k.id /\ n.server = k.server
    BY <2>5 DEF HandlerShape
  <2> HIDE DEF n
  <2>7. HandlerStep(h, n)
    BY <2>4, EnterStep
  <2>8. GoodHandler(site, n)
    BY <1>1, <2>3, <2>5, <2>6 DEF GoodHandler
  <2>9. JobsInv' /\ HandlersInv' /\ OnceInv' /\ QueueInv'
    BY <1>2, <1>3, <2>6, <2>7, <2>8, QuietStep
  <2>10. NumberInv'
    BY <1>1, <1>2, <1>3, <2>6, <2>7, SameNumber
  <2>11. PICK own : own = k.req.tenant
    OBVIOUS
  <2>12. ~QuotaReached(site.policy.maxRunningJobs, own, RunningJobs(own)) /\ n.req.tenant = own
    BY <1>1, <2>1, <2>6, <2>11
  <2>13. QuotaInv'
    BY <1>2, <2>7, <2>12, AdmitQuota
  <2> QED
    BY <1>2, <2>9, <2>10, <2>13 DEF Inv
<1> QED
  BY <1>4, <1>5

\* The record AddJob stores, and what is known of it.
Fresh(req, plan, dag, rule, new) ==
    [status |-> "Running", req |-> req, plan |-> plan, planned |-> Len(dag), rule |-> rule,
     tasks |-> TaskRecords(dag, req), given |-> {}, done |-> {},
     denied |-> Decision(TRUE, FALSE, 0), deniedTask |-> "", reopened |-> FALSE, fresh |-> new]

FreshFacts(policy, req, dag, new, j) ==
    /\ GoodJob(policy, j) /\ j.req = req /\ j.fresh = new
    /\ \A t \in DOMAIN j.tasks : Waits(j, t) =>
          \E i \in DOMAIN dag : dag[i].id = t /\ dag[i].deps = {}

LEMMA NewJobGood ==
    ASSUME NEW policy, NEW req, NEW plan, NEW dag, NEW rule, NEW new, NEW j,
           DagFits(req, plan, dag), Admitted(policy, req, rule),
           j = Fresh(req, plan, dag, rule, new)
    PROVE  FreshFacts(policy, req, dag, new, j)
<1>1. /\ DOMAIN j = JobShape /\ j.req = req /\ j.plan = plan
      /\ j.planned = Len(dag) /\ j.rule = rule /\ j.tasks = TaskRecords(dag, req)
      /\ j.given = {} /\ j.denied.allowed = TRUE /\ j.fresh = new
  BY DEF Fresh, JobShape, Decision
<1>2. /\ DOMAIN j.tasks = IDs(dag)
      /\ \A t \in IDs(dag) :
            /\ DOMAIN j.tasks[t] = TaskShape
            /\ \E i \in DOMAIN dag : dag[i].id = t /\ j.tasks[t].deps = dag[i].deps
  <2> DEFINE tasks == TaskRecords(dag, req)
  <2>1. IsDag(dag)
    BY DEF DagFits
  <2>2. /\ DOMAIN tasks = IDs(dag)
        /\ \A t \in IDs(dag) :
              /\ DOMAIN tasks[t] = TaskShape
              /\ \E i \in DOMAIN dag : dag[i].id = t /\ tasks[t].deps = dag[i].deps
    BY <2>1, RecordFacts
  <2> HIDE DEF tasks
  <2>3. j.tasks = tasks
    BY <1>1 DEF tasks
  <2> QED
    BY <2>2, <2>3
<1>3. JobPlanned(j.req, j.plan, j.planned, j.tasks)
  BY <1>1, StoredFits
<1>4. DenialMeant(policy, j) /\ HandedOut(j)
  BY <1>1 DEF DenialMeant, HandedOut
<1>5. GoodJob(policy, j)
  BY <1>1, <1>2, <1>3, <1>4 DEF GoodJob
<1>6. ASSUME NEW t \in DOMAIN j.tasks, Waits(j, t)
      PROVE  \E i \in DOMAIN dag : dag[i].id = t /\ dag[i].deps = {}
  BY <1>2, <1>6 DEF Waits
<1> QED
  BY <1>1, <1>5, <1>6 DEF FreshFacts

\* What CreateJobWithTasks does when it is not refused.
Stores(h, k, j) ==
    /\ k = handler[h] /\ k.at = "store"
    /\ handler' = [handler EXCEPT ![h].at = "enqueue"]
    /\ DOMAIN jobs' = DOMAIN jobs \cup {k.id}
    /\ jobs'[k.id] = j
    /\ \A x \in DOMAIN jobs : x # k.id => jobs'[x] = jobs[x]
    /\ dropped' = dropped \ {k.id} /\ known' = known \cup {k.id}
    /\ j.fresh => k.id \notin known
    /\ GoodJob(site.policy, j) /\ j.req = k.req
    /\ \A t \in DOMAIN j.tasks : Waits(j, t) =>
          \E i \in DOMAIN k.dag : k.dag[i].id = t /\ k.dag[i].deps = {}
    /\ UNCHANGED <<site, seq, refs, accepted>>

\* The job runs and its request is no longer about to be stored.
LEMMA StoreQuota ==
    ASSUME Inv, NEW h \in site.handlers, NEW k, NEW j, NEW n, Stores(h, k, j),
           HandlerStep(h, n), n.at = "enqueue"
    PROVE  QuotaInv'
<1> SUFFICES ASSUME NEW tenant \in DOMAIN site.policy.maxRunningJobs,
                    site.policy.maxRunningJobs[tenant] > 0
             PROVE  Cardinality(RunningOf(tenant)') + Cardinality(StoringOf(tenant)') <=
                        site.policy.maxRunningJobs[tenant] + Cardinality(site.handlers) - 1
  BY DEF QuotaInv, Stores
<1>1. /\ h \in Handlers /\ site.handlers \subseteq Handlers
      /\ handler'[h] = n /\ \A g \in Handlers : g # h => handler'[g] = handler[g]
      /\ site' = site /\ k = handler[h] /\ k.at = "store" /\ j.req = k.req
      /\ DOMAIN jobs' = DOMAIN jobs \cup {k.id} /\ jobs'[k.id] = j
      /\ \A x \in DOMAIN jobs : x # k.id => jobs'[x] = jobs[x]
  BY SiteFacts DEF HandlerStep, Stores
<1>2. PICK A, B, C, D, max, size :
         /\ A = RunningOf(tenant) /\ B = RunningOf(tenant)'
         /\ C = StoringOf(tenant) /\ D = StoringOf(tenant)'
         /\ max = site.policy.maxRunningJobs[tenant] /\ size = Cardinality(site.handlers)
  OBVIOUS
<1>3. max \in Int /\ size \in Nat
  BY <1>2, SiteFacts
<1>4. IsFiniteSet(A) /\ IsFiniteSet(C)
  <2>1. A \in SUBSET DOMAIN jobs /\ IsFiniteSet(DOMAIN jobs)
    BY <1>2 DEF RunningOf, Inv, JobsInv
  <2>2. C \in SUBSET site.handlers /\ IsFiniteSet(site.handlers)
    BY <1>2, SiteFacts DEF StoringOf
  <2> QED
    BY <2>1, <2>2, FS_Subset
<1>5. Cardinality(A) + Cardinality(C) <= max + size - 1
  BY <1>2 DEF Inv, QuotaInv
<1>6. Cardinality(A) \in Nat /\ Cardinality(C) \in Nat
  BY <1>4, FS_CardinalityType
<1>7. CASE k.req.tenant = tenant
  <2>1. B \subseteq A \cup {k.id}
    BY <1>1, <1>2 DEF RunningOf
  <2>2. D \subseteq C \ {h} /\ h \in C
    BY <1>1, <1>2, <1>7 DEF StoringOf
  <2>3. /\ IsFiniteSet(A \cup {k.id}) /\ Cardinality(A \cup {k.id}) <= Cardinality(A) + 1
    <3>1. /\ IsFiniteSet(A \cup {k.id})
          /\ Cardinality(A \cup {k.id}) = IF k.id \in A THEN Cardinality(A) ELSE Cardinality(A) + 1
      BY <1>4, FS_AddElement
    <3> QED
      BY <1>6, <3>1
  <2>4. IsFiniteSet(C \ {h}) /\ Cardinality(C \ {h}) = Cardinality(C) - 1
    BY <1>4, <2>2, FS_RemoveElement
  <2>5. /\ Cardinality(B) <= Cardinality(A \cup {k.id}) /\ IsFiniteSet(B)
        /\ Cardinality(D) <= Cardinality(C \ {h}) /\ IsFiniteSet(D)
    BY <2>1, <2>2, <2>3, <2>4, FS_Subset
  <2>6. /\ Cardinality(B) \in Nat /\ Cardinality(D) \in Nat /\ Cardinality(A \cup {k.id}) \in Nat
    BY <2>3, <2>5, FS_CardinalityType
  <2>7. Cardinality(B) + Cardinality(D) <= max + size - 1
    BY <1>3, <1>5, <1>6, <2>3, <2>4, <2>5, <2>6
  <2> QED
    BY <1>2, <2>7
<1>8. CASE k.req.tenant # tenant
  <2>1. B \subseteq A
    BY <1>1, <1>2, <1>8 DEF RunningOf
  <2>2. D \subseteq C
    BY <1>1, <1>2 DEF StoringOf
  <2>3. /\ Cardinality(B) <= Cardinality(A) /\ IsFiniteSet(B)
        /\ Cardinality(D) <= Cardinality(C) /\ IsFiniteSet(D)
    BY <1>4, <2>1, <2>2, FS_Subset
  <2>4. Cardinality(B) \in Nat /\ Cardinality(D) \in Nat
    BY <2>3, FS_CardinalityType
  <2>5. Cardinality(B) + Cardinality(D) <= max + size - 1
    BY <1>3, <1>5, <1>6, <2>3, <2>4
  <2> QED
    BY <1>2, <2>5
<1> QED
  BY <1>7, <1>8

LEMMA StoreStep ==
    ASSUME Inv, NEW h \in site.handlers, NEW k, NEW j, Stores(h, k, j)
    PROVE  Inv'
<1> DEFINE n == [k EXCEPT !.at = "enqueue"]
<1>1. /\ k = handler[h] /\ k.at = "store"
      /\ handler' = [handler EXCEPT ![h].at = "enqueue"]
      /\ DOMAIN jobs' = DOMAIN jobs \cup {k.id} /\ jobs'[k.id] = j
      /\ \A x \in DOMAIN jobs : x # k.id => jobs'[x] = jobs[x]
      /\ dropped' = dropped \ {k.id} /\ known' = known \cup {k.id}
      /\ j.fresh => k.id \notin known
      /\ GoodJob(site.policy, j)
      /\ site' = site /\ seq' = seq /\ refs' = refs /\ accepted' = accepted
  BY DEF Stores
<1>2. h \in Handlers /\ Working(h) /\ ~Enqueues(h) /\ site.handlers \subseteq Handlers
  BY <1>1, SiteFacts DEF Working, Enqueues
<1>3. /\ DOMAIN k = HandlerShape /\ k.server \in site.servers
      /\ DagFits(k.req, k.plan, k.dag) /\ Admitted(site.policy, k.req, k.rule)
  BY <1>1, <1>2 DEF Inv, HandlersInv, GoodHandler
<1>4. handler' = [handler EXCEPT ![h] = n]
  BY <1>1
<1>5. /\ DOMAIN n = HandlerShape /\ n.at = "enqueue" /\ n.rule = k.rule /\ n.plan = k.plan
      /\ n.dag = k.dag /\ n.req = k.req /\ n.id = k.id /\ n.server = k.server
  BY <1>3 DEF HandlerShape
<1> HIDE DEF n
<1>6. HandlerStep(h, n)
  BY <1>4, EnterStep
<1>7. /\ DOMAIN handler' = Handlers /\ handler'[h] = n
      /\ \A g \in Handlers : g # h => handler'[g] = handler[g]
  BY <1>6 DEF HandlerStep
<1>8. JobsInv'
  <2>1. IsFiniteSet(DOMAIN jobs')
    BY <1>1, FS_AddElement DEF Inv, JobsInv
  <2>2. \A x \in DOMAIN jobs' : GoodJob(site'.policy, jobs'[x])
    BY <1>1 DEF Inv, JobsInv
  <2>3. accepted' \subseteq DOMAIN jobs' /\ DOMAIN jobs' \subseteq known'
    BY <1>1 DEF Inv, JobsInv
  <2> QED
    BY <2>1, <2>2, <2>3 DEF JobsInv
<1>9. HandlersInv'
  <2>1. GoodHandler(site, n)
    BY <1>3, <1>5 DEF GoodHandler
  <2>2. ASSUME NEW g \in Handlers, Working(g)' PROVE g \in site'.handlers /\ GoodHandler(site', handler'[g])
    BY <1>1, <1>7, <2>1, <2>2 DEF Inv, HandlersInv, Working
  <2>3. ASSUME NEW g \in Handlers, Enqueues(g)' PROVE handler'[g].id \in DOMAIN jobs'
    BY <1>1, <1>5, <1>7, <2>3 DEF Inv, HandlersInv, Enqueues
  <2> QED
    BY <1>7, <2>2, <2>3 DEF HandlersInv
<1>10. NumberInv'
  <2>1. seq' \in [Servers -> Nat] /\ (Counted' <=> Counted)
    BY <1>1 DEF Inv, NumberInv, Counted
  <2>2. \A g \in Handlers : Working(g)' =>
           /\ Working(g) /\ handler'[g].id = handler[g].id /\ handler'[g].server = handler[g].server
           /\ Enqueues(g)' <=> (Enqueues(g) \/ g = h)
    BY <1>1, <1>2, <1>5, <1>7 DEF Working, Enqueues
  <2>3. ASSUME Counted
        PROVE  /\ \A g \in Handlers : Working(g)' =>
                     /\ handler'[g].id \in Nat /\ handler'[g].id <= seq'[handler'[g].server]
                     /\ Enqueues(g)' \/ handler'[g].id \notin DOMAIN jobs'
                     /\ \A f \in Handlers : Working(f)' /\ handler'[f].id = handler'[g].id => f = g
               /\ \A id \in DOMAIN jobs' : id \in Nat /\ \A s \in site'.servers : id <= seq'[s]
    <3>1. \A s \in site.servers : s = k.server
      BY <1>3, <2>3, SiteFacts DEF Counted
    <3>2. k.id \in Nat /\ k.id <= seq[k.server]
      BY <1>1, <1>2, <2>3 DEF Inv, NumberInv
    <3>3. \A id \in DOMAIN jobs : id \in Nat /\ \A s \in site.servers : id <= seq[s]
      BY <2>3 DEF Inv, NumberInv
    <3>4. ASSUME NEW g \in Handlers, Working(g)'
          PROVE  /\ handler'[g].id \in Nat /\ handler'[g].id <= seq'[handler'[g].server]
                 /\ \A f \in Handlers : Working(f)' /\ handler'[f].id = handler'[g].id => f = g
      BY <1>1, <2>2, <2>3, <3>4 DEF Inv, NumberInv
    <3>5. ASSUME NEW g \in Handlers, Working(g)', ~Enqueues(g)' PROVE handler'[g].id \notin DOMAIN jobs'
      <4>1. g # h /\ ~Enqueues(g) /\ Working(g) /\ handler'[g].id = handler[g].id
        BY <2>2, <3>5
      <4>2. handler[g].id \notin DOMAIN jobs /\ handler[g].id # k.id
        BY <1>1, <1>2, <2>3, <4>1 DEF Inv, NumberInv
      <4> QED
        BY <1>1, <4>1, <4>2
    <3>6. \A id \in DOMAIN jobs' : id \in Nat /\ \A s \in site'.servers : id <= seq'[s]
      BY <1>1, <3>1, <3>2, <3>3
    <3> QED
      BY <3>4, <3>5, <3>6
  <2> QED
    BY <2>1, <2>3 DEF NumberInv
<1>11. OnceInv'
  <2> SUFFICES ASSUME NEW g \in Handlers, Enqueues(g)', jobs'[handler'[g].id].fresh
               PROVE  /\ handler'[g].id \notin accepted'
                      /\ \A f \in Handlers : Enqueues(f)' /\ handler'[f].id = handler'[g].id => f = g
    BY <1>1 DEF OnceInv
  <2>1. ASSUME NEW f \in Handlers, f # h, Enqueues(f)'
        PROVE  Enqueues(f) /\ handler'[f] = handler[f] /\ handler[f].id \in DOMAIN jobs
    BY <1>7, <2>1 DEF Inv, HandlersInv, Enqueues
  <2>2. DOMAIN jobs \subseteq known /\ accepted \subseteq DOMAIN jobs
    BY DEF Inv, JobsInv
  <2>3. CASE g = h
    <3>1. handler'[g].id = k.id /\ k.id \notin DOMAIN jobs
      BY <1>1, <1>5, <1>7, <2>2, <2>3
    <3>2. ASSUME NEW f \in Handlers, Enqueues(f)', handler'[f].id = handler'[g].id PROVE f = g
      BY <2>1, <2>3, <3>1, <3>2
    <3> QED
      BY <1>1, <2>2, <3>1, <3>2
  <2>4. CASE g # h
    <3>1. Enqueues(g) /\ handler'[g] = handler[g] /\ handler[g].id \in DOMAIN jobs
      BY <2>1, <2>4
    <3>2. handler[g].id # k.id
      BY <1>1, <2>2, <3>1
    <3>3. jobs[handler[g].id].fresh
      BY <1>1, <3>1, <3>2
    <3>4. /\ handler[g].id \notin accepted
          /\ \A f \in Handlers : Enqueues(f) /\ handler[f].id = handler[g].id => f = g
      BY <3>1, <3>3 DEF Inv, OnceInv
    <3>5. ASSUME NEW f \in Handlers, Enqueues(f)', handler'[f].id = handler'[g].id PROVE f = g
      <4>1. f # h
        BY <1>5, <1>7, <3>1, <3>2, <3>5
      <4> QED
        BY <2>1, <3>1, <3>4, <3>5, <4>1
    <3> QED
      BY <1>1, <3>1, <3>4, <3>5
  <2> QED
    BY <2>3, <2>4
<1>12. QueueInv'
  <2> SUFFICES ASSUME NEW x \in DOMAIN jobs' \ dropped', NEW t \in DOMAIN jobs'[x].tasks,
                      Waits(jobs'[x], t)
               PROVE  <<x, t>> \in refs' \/ Owed(x, t)' \/ CutOff(x)'
    BY DEF QueueInv
  <2>1. \A g \in Handlers : Enqueues(g) => Enqueues(g)' /\ handler'[g] = handler[g]
    BY <1>2, <1>7 DEF Enqueues
  <2>2. \A g \in Handlers : Enqueues(g)' => g = h \/ (Enqueues(g) /\ handler'[g] = handler[g])
    BY <1>7 DEF Enqueues
  <2>3. CASE x = k.id
    <3>1. PICK i \in DOMAIN k.dag : k.dag[i].id = t /\ k.dag[i].deps = {}
      BY <1>1, <2>3 DEF Stores
    <3>2. Enqueues(h)' /\ handler'[h].id = x /\ handler'[h].dag = k.dag
      BY <1>5, <1>7, <2>3 DEF Enqueues
    <3> QED
      BY <1>2, <3>1, <3>2 DEF Owed
  <2>4. CASE x # k.id
    <3>1. x \in DOMAIN jobs \ dropped /\ jobs'[x] = jobs[x]
      BY <1>1, <2>4
    <3>2. <<x, t>> \in refs \/ Owed(x, t) \/ CutOff(x)
      BY <3>1 DEF Inv, QueueInv
    <3>3. Owed(x, t) => Owed(x, t)'
      BY <2>1 DEF Owed
    <3>4. CutOff(x) => CutOff(x)'
      <4>1. ASSUME x \in Enqueueing' PROVE x \in Enqueueing
        <5>1. PICK g \in Handlers : Enqueues(g)' /\ handler'[g].id = x
          BY <4>1 DEF Enqueueing, Enqueues
        <5>2. g # h
          BY <1>5, <1>7, <2>4, <5>1
        <5> QED
          BY <2>2, <5>1, <5>2 DEF Enqueueing, Enqueues
      <4> QED
        BY <1>1, <4>1 DEF CutOff
    <3> QED
      BY <1>1, <3>2, <3>3, <3>4
  <2> QED
    BY <2>3, <2>4
<1>13. QuotaInv'
  BY <1>5, <1>6, StoreQuota
<1> QED
  BY <1>1, <1>8, <1>9, <1>10, <1>11, <1>12, <1>13 DEF Inv

\* CreateJobWithTasks either refuses or stores.
LEMMA CreateCases ==
    ASSUME Inv, NEW h \in site.handlers, CreateJobWithTasks(h)
    PROVE  \/ /\ ~Enqueues(h) /\ Reply(h)
              /\ UNCHANGED <<site, seq, jobs, refs, accepted, dropped, known>>
           \/ \E j : Stores(h, handler[h], j)
<1>1. PICK k : k = handler[h]
  OBVIOUS
<1>2. k.at = "store" /\ UNCHANGED <<site, seq, refs, accepted>>
  BY <1>1 DEF CreateJobWithTasks
<1>3. h \in Handlers /\ Working(h) /\ ~Enqueues(h)
  BY <1>1, <1>2, SiteFacts DEF Working, Enqueues
<1>4. CASE Refused(h)
  BY <1>2, <1>3, <1>4 DEF CreateJobWithTasks
<1>5. CASE ~Refused(h)
  <2> DEFINE j == JobRecord(h)
  <2>1. /\ jobs' = [id \in DOMAIN jobs \cup {k.id} |-> IF id = k.id THEN j ELSE jobs[id]]
        /\ handler' = [handler EXCEPT ![h].at = "enqueue"]
        /\ dropped' = dropped \ {k.id} /\ known' = known \cup {k.id}
    BY <1>1, <1>5 DEF CreateJobWithTasks
  <2>2. DagFits(k.req, k.plan, k.dag) /\ Admitted(site.policy, k.req, k.rule)
    BY <1>1, <1>2, <1>3 DEF Inv, HandlersInv, GoodHandler
  <2>3. j = Fresh(k.req, k.plan, k.dag, k.rule, k.id \notin known)
    BY <1>1 DEF JobRecord, Fresh
  <2> HIDE DEF j
  <2>4. PICK policy, req, plan, dag, rule, new, job :
           /\ policy = site.policy /\ req = k.req /\ plan = k.plan /\ dag = k.dag
           /\ rule = k.rule /\ new = (k.id \notin known) /\ job = j
    OBVIOUS
  <2>5. FreshFacts(policy, req, dag, new, job)
    BY <2>2, <2>3, <2>4, NewJobGood
  <2>6. j.fresh => k.id \notin known
    BY <2>4, <2>5 DEF FreshFacts
  <2>7. /\ DOMAIN jobs' = DOMAIN jobs \cup {k.id} /\ jobs'[k.id] = j
        /\ \A x \in DOMAIN jobs : x # k.id => jobs'[x] = jobs[x]
    BY <2>1
  <2>8. Stores(h, k, j)
    BY <1>1, <1>2, <2>1, <2>4, <2>5, <2>6, <2>7 DEF Stores, FreshFacts
  <2> QED
    BY <1>1, <2>8
<1> QED
  BY <1>4, <1>5

LEMMA CreateStep ==
    ASSUME Inv, NEW h \in site.handlers, CreateJobWithTasks(h)
    PROVE  Inv'
<1>1. PICK k : k = handler[h]
  OBVIOUS
<1>2. CASE \E j : Stores(h, k, j)
  BY <1>2, StoreStep
<1> QED
  BY <1>1, <1>2, CreateCases, ReplyStep

\* A handler is done with a stored job: its refs are in the queue, or the queue
\* has failed.
LEMMA LeaveStep ==
    ASSUME Inv, NEW h \in site.handlers, NEW k, k = handler[h], k.at = "enqueue", Reply(h),
           UNCHANGED <<site, seq, jobs, known>>,
           accepted' \subseteq accepted \cup {k.id}, refs \subseteq refs', dropped \subseteq dropped',
           k.id \in accepted' => k.id \in DOMAIN jobs,
           \/ k.id \in dropped'
           \/ \A i \in DOMAIN k.dag : k.dag[i].deps = {} => <<k.id, k.dag[i].id>> \in refs'
    PROVE  Inv'
<1>1. PICK n : n = Idle
  OBVIOUS
<1>2. n.at = "idle"
  BY <1>1 DEF Idle
<1>3. HandlerStep(h, n)
  BY <1>1, EnterStep DEF Reply
<1>4. /\ h \in Handlers /\ DOMAIN handler' = Handlers /\ handler'[h] = n
      /\ \A g \in Handlers : g # h => handler'[g] = handler[g]
      /\ site' = site /\ seq' = seq /\ jobs' = jobs /\ known' = known /\ Enqueues(h)
  BY <1>3, SiteFacts DEF HandlerStep, Enqueues
<1>5. \A g \in Handlers : Enqueues(g)' => g # h /\ Enqueues(g) /\ handler'[g] = handler[g]
  BY <1>2, <1>4 DEF Enqueues
<1>6. JobsInv'
  BY <1>4 DEF Inv, JobsInv
<1>7. HandlersInv'
  <2>1. ASSUME NEW g \in Handlers, Working(g)' PROVE g \in site'.handlers /\ GoodHandler(site', handler'[g])
    BY <1>2, <1>4, <2>1 DEF Inv, HandlersInv, Working
  <2>2. ASSUME NEW g \in Handlers, Enqueues(g)' PROVE handler'[g].id \in DOMAIN jobs'
    BY <1>4, <1>5, <2>2 DEF Inv, HandlersInv
  <2> QED
    BY <1>4, <2>1, <2>2 DEF HandlersInv
<1>8. NumberInv'
  BY <1>2, <1>3, <1>4, SameNumber
<1>9. OnceInv'
  <2> SUFFICES ASSUME NEW g \in Handlers, Enqueues(g)', jobs'[handler'[g].id].fresh
               PROVE  /\ handler'[g].id \notin accepted'
                      /\ \A f \in Handlers : Enqueues(f)' /\ handler'[f].id = handler'[g].id => f = g
    BY <1>4 DEF OnceInv
  <2>1. /\ handler[g].id \notin accepted
        /\ \A f \in Handlers : Enqueues(f) /\ handler[f].id = handler[g].id => f = g
    BY <1>4, <1>5 DEF Inv, OnceInv
  <2>2. handler[g].id # k.id
    BY <1>4, <1>5, <2>1
  <2> QED
    BY <1>5, <2>1, <2>2
<1>10. QueueInv'
  <2> SUFFICES ASSUME NEW x \in DOMAIN jobs \ dropped', NEW t \in DOMAIN jobs[x].tasks,
                      Waits(jobs[x], t)
               PROVE  <<x, t>> \in refs' \/ Owed(x, t)' \/ CutOff(x)'
    BY <1>4 DEF QueueInv
  <2>1. <<x, t>> \in refs \/ Owed(x, t) \/ CutOff(x)
    BY DEF Inv, QueueInv
  <2>2. CASE <<x, t>> \in refs
    BY <2>2
  <2>3. CASE Owed(x, t)
    <3>1. PICK g \in Handlers :
             /\ Enqueues(g) /\ handler[g].id = x
             /\ \E i \in DOMAIN handler[g].dag : handler[g].dag[i].id = t /\ handler[g].dag[i].deps = {}
      BY <2>3 DEF Owed
    <3>2. CASE g = h
      BY <3>1, <3>2
    <3>3. CASE g # h
      <4>1. handler'[g] = handler[g] /\ Enqueues(g)'
        BY <1>4, <3>1, <3>3 DEF Enqueues
      <4> QED
        BY <3>1, <4>1 DEF Owed
    <3> QED
      BY <3>2, <3>3
  <2>4. CASE CutOff(x)
    <3>1. x # k.id /\ x \notin accepted'
      BY <1>4, <2>4 DEF CutOff, Enqueueing
    <3>2. x \notin Enqueueing'
      BY <1>5, <2>4 DEF CutOff, Enqueueing, Enqueues
    <3> QED
      BY <3>1, <3>2 DEF CutOff
  <2> QED
    BY <2>1, <2>2, <2>3, <2>4
<1>11. QuotaInv'
  BY <1>2, <1>3, <1>4, QuietQuota
<1> QED
  BY <1>4, <1>6, <1>7, <1>8, <1>9, <1>10, <1>11 DEF Inv

LEMMA EnqueueManyStep ==
    ASSUME Inv, NEW h \in site.handlers, EnqueueMany(h)
    PROVE  Inv'
<1>1. PICK k : k = handler[h]
  OBVIOUS
<1>2. /\ k.at = "enqueue" /\ Reply(h) /\ UNCHANGED <<site, seq, jobs, dropped, known>>
      /\ refs' = refs \cup readyRefs(h) /\ accepted' = accepted \cup {k.id}
  BY <1>1 DEF EnqueueMany
<1>3. k.id \in DOMAIN jobs
  BY <1>1, <1>2, SiteFacts DEF Inv, HandlersInv, Enqueues
<1>4. \A i \in DOMAIN k.dag : k.dag[i].deps = {} => <<k.id, k.dag[i].id>> \in refs'
  BY <1>1, <1>2 DEF readyRefs
<1> QED
  BY <1>1, <1>2, <1>3, <1>4, LeaveStep

LEMMA EnqueueFailsStep ==
    ASSUME Inv, NEW h \in site.handlers, EnqueueFails(h)
    PROVE  Inv'
<1>1. PICK k : k = handler[h]
  OBVIOUS
<1>2. /\ k.at = "enqueue" /\ Reply(h) /\ UNCHANGED <<site, seq, jobs, accepted, known>>
      /\ refs \subseteq refs' /\ dropped' = dropped \cup {k.id}
  BY <1>1 DEF EnqueueFails
<1>3. k.id \in accepted' => k.id \in DOMAIN jobs
  BY <1>2 DEF Inv, JobsInv
<1>4. accepted' \subseteq accepted \cup {k.id} /\ refs \subseteq refs' /\ dropped \subseteq dropped' /\ k.id \in dropped'
  BY <1>2
<1> QED
  BY <1>1, <1>2, <1>3, <1>4, LeaveStep

LEMMA RestartStep ==
    ASSUME Inv, NEW s \in site.servers, Restart(s)
    PROVE  Inv'
<1>1. /\ seq' = [seq EXCEPT ![s] = 0] /\ site' = site
      /\ handler' = [h \in Handlers |->
            IF handler[h].at # "idle" /\ handler[h].server = s THEN Idle ELSE handler[h]]
      /\ site.store = "postgres" => jobs' = jobs /\ accepted' = accepted
      /\ site.store # "postgres" => jobs' = Empty /\ accepted' = {}
      /\ dropped' = (dropped \cup {ref[1] : ref \in refs \ refs'}) \cap DOMAIN jobs'
      /\ known' = known
  BY DEF Restart
<1>2. DOMAIN Empty = {}
  BY DEF Empty
<1>3. DOMAIN handler' = Handlers
  BY <1>1
<1>4. ASSUME NEW g \in Handlers, Working(g)'
      PROVE  Working(g) /\ handler'[g] = handler[g] /\ handler[g].server # s
  BY <1>1, <1>4 DEF Working, Idle
<1>5. ASSUME NEW g \in Handlers, Enqueues(g)'
      PROVE  Enqueues(g) /\ handler'[g] = handler[g] /\ handler[g].server # s
  BY <1>4, <1>5 DEF Enqueues, Working
<1>6. ASSUME site.store # "postgres" PROVE \A g \in Handlers : ~Working(g)' /\ ~Enqueues(g)'
  <2>1. \A r \in site.servers : r = s
    BY <1>6, SiteFacts
  <2>2. ASSUME NEW g \in Handlers, Working(g) PROVE handler[g].server = s
    BY <2>1, <2>2 DEF Inv, HandlersInv, GoodHandler
  <2> QED
    BY <1>4, <1>5, <2>2 DEF Enqueues, Working
<1>7. JobsInv'
  <2>1. CASE site.store = "postgres"
    BY <1>1, <2>1 DEF Inv, JobsInv
  <2>2. CASE site.store # "postgres"
    BY <1>1, <1>2, <2>2, FS_EmptySet DEF JobsInv
  <2> QED
    BY <2>1, <2>2
<1>8. HandlersInv'
  <2>1. ASSUME NEW g \in Handlers, Working(g)' PROVE g \in site'.handlers /\ GoodHandler(site', handler'[g])
    BY <1>1, <1>4, <2>1 DEF Inv, HandlersInv
  <2>2. ASSUME NEW g \in Handlers, Enqueues(g)' PROVE handler'[g].id \in DOMAIN jobs'
    BY <1>1, <1>5, <1>6, <2>2 DEF Inv, HandlersInv
  <2> QED
    BY <1>3, <2>1, <2>2 DEF HandlersInv
<1>9. NumberInv'
  <2>1. seq' \in [Servers -> Nat]
    BY <1>1 DEF Inv, NumberInv
  <2>2. ASSUME Counted' PROVE jobs' = Empty /\ \A g \in Handlers : ~Working(g)'
    BY <1>1, <1>6, <2>2 DEF Counted
  <2> QED
    BY <1>2, <2>1, <2>2 DEF NumberInv
<1>10. OnceInv'
  <2> SUFFICES ASSUME NEW g \in Handlers, Enqueues(g)', jobs'[handler'[g].id].fresh
               PROVE  /\ handler'[g].id \notin accepted'
                      /\ \A f \in Handlers : Enqueues(f)' /\ handler'[f].id = handler'[g].id => f = g
    BY DEF OnceInv
  <2>1. jobs' = jobs /\ accepted' = accepted
    BY <1>1, <1>6
  <2> QED
    BY <1>5, <2>1 DEF Inv, OnceInv
<1>11. QueueInv'
  <2> SUFFICES ASSUME NEW x \in DOMAIN jobs' \ dropped', NEW t \in DOMAIN jobs'[x].tasks,
                      Waits(jobs'[x], t)
               PROVE  <<x, t>> \in refs' \/ Owed(x, t)' \/ CutOff(x)'
    BY DEF QueueInv
  <2>1. site.store = "postgres" /\ jobs' = jobs /\ accepted' = accepted
    BY <1>1, <1>2
  <2>2. x \notin dropped
    BY <1>1
  <2>3. <<x, t>> \in refs \/ Owed(x, t) \/ CutOff(x)
    BY <2>1, <2>2 DEF Inv, QueueInv
  <2>4. CASE <<x, t>> \in refs
    <3>1. <<x, t>> \notin refs' => x \in {ref[1] : ref \in refs \ refs'}
      <4>1. <<x, t>>[1] = x
        OBVIOUS
      <4> QED
        BY <2>4, <4>1
    <3> QED
      BY <1>1, <3>1
  <2>5. CASE Owed(x, t)
    <3>1. PICK g \in Handlers :
             /\ Enqueues(g) /\ handler[g].id = x
             /\ \E i \in DOMAIN handler[g].dag : handler[g].dag[i].id = t /\ handler[g].dag[i].deps = {}
      BY <2>5 DEF Owed
    <3>2. CASE Enqueues(g)'
      BY <1>5, <3>1, <3>2 DEF Owed
    <3>3. CASE ~Enqueues(g)'
      <4>1. x \notin accepted /\ \A f \in Handlers : Enqueues(f) /\ handler[f].id = x => f = g
        BY <2>1, <3>1 DEF Inv, OnceInv, Waits
      <4>2. \A f \in Handlers : Enqueues(f)' => handler'[f].id # x
        BY <1>5, <3>3, <4>1
      <4> QED
        BY <2>1, <4>1, <4>2 DEF CutOff, Enqueueing, Enqueues
    <3> QED
      BY <3>2, <3>3
  <2>6. CASE CutOff(x)
    BY <1>5, <2>1, <2>6 DEF CutOff, Enqueueing, Enqueues
  <2> QED
    BY <2>3, <2>4, <2>5, <2>6
<1>12. QuotaInv'
  <2>1. ASSUME NEW tenant PROVE RunningOf(tenant)' \subseteq RunningOf(tenant)
    BY <1>1, <1>2 DEF RunningOf
  <2>2. ASSUME NEW tenant PROVE StoringOf(tenant)' \subseteq StoringOf(tenant)
    BY <1>1, <1>4, SiteFacts DEF StoringOf, Working
  <2> QED
    BY <1>1, <2>1, <2>2, FewerKeepsQuota
<1> QED
  BY <1>1, <1>7, <1>8, <1>9, <1>10, <1>11, <1>12 DEF Inv

LEMMA LoseRefStep ==
    ASSUME Inv, NEW ref \in refs, LoseRef(ref)
    PROVE  Inv'
<1>1. /\ site' = site /\ seq' = seq /\ handler' = handler /\ jobs' = jobs
      /\ accepted' = accepted /\ known' = known /\ refs' = refs \ {ref}
      /\ dropped' = dropped \cup ({ref[1]} \cap DOMAIN jobs)
  BY DEF LoseRef
<1>2. JobsInv' /\ HandlersInv' /\ OnceInv'
  BY <1>1 DEF Inv, JobsInv, HandlersInv, OnceInv, Working, Enqueues
<1>3. NumberInv'
  BY <1>1 DEF Inv, NumberInv, Working, Enqueues, Counted
<1>4. QueueInv'
  <2> SUFFICES ASSUME NEW x \in DOMAIN jobs \ dropped', NEW t \in DOMAIN jobs[x].tasks,
                      Waits(jobs[x], t)
               PROVE  <<x, t>> \in refs' \/ Owed(x, t)' \/ CutOff(x)'
    BY <1>1 DEF QueueInv
  <2>1. <<x, t>> \in refs \/ Owed(x, t) \/ CutOff(x)
    BY <1>1 DEF Inv, QueueInv
  <2>2. (Owed(x, t)' <=> Owed(x, t)) /\ (CutOff(x)' <=> CutOff(x))
    BY <1>1 DEF Owed, CutOff, Enqueues, Enqueueing
  <2>3. ref # <<x, t>>
    <3>1. <<x, t>>[1] = x
      OBVIOUS
    <3> QED
      BY <1>1, <3>1
  <2> QED
    BY <1>1, <2>1, <2>2, <2>3
<1>5. QuotaInv'
  BY <1>1 DEF Inv, QuotaInv, RunningOf, StoringOf
<1> QED
  BY <1>1, <1>2, <1>3, <1>4, <1>5 DEF Inv

---------------------------------------------------------------------------
(* The invariant holds. *)

LEMMA InitInv == Init => Inv
<1> SUFFICES ASSUME Init PROVE Inv
  OBVIOUS
<1>1. /\ site \in Sites /\ seq = [s \in Servers |-> 0] /\ jobs = Empty
      /\ accepted = {} /\ DOMAIN Empty = {}
  BY DEF Init, Empty
<1>2. DOMAIN handler = Handlers /\ \A h \in Handlers : handler[h] = Idle
  BY DEF Init
<1>3. \A h \in Handlers : handler[h].at = "idle"
  BY <1>2 DEF Idle
<1>4. \A h \in Handlers : ~Working(h) /\ ~Enqueues(h)
  BY <1>3 DEF Working, Enqueues
<1>5. JobsInv
  BY <1>1, FS_EmptySet DEF JobsInv
<1>6. HandlersInv
  BY <1>2, <1>4 DEF HandlersInv
<1>7. NumberInv
  BY <1>1, <1>4 DEF NumberInv
<1>8. OnceInv /\ QueueInv
  BY <1>1, <1>4 DEF OnceInv, QueueInv
<1>9. QuotaInv
  <2> SUFFICES ASSUME NEW tenant \in DOMAIN site.policy.maxRunningJobs,
                      site.policy.maxRunningJobs[tenant] > 0
               PROVE  Cardinality(RunningOf(tenant)) + Cardinality(StoringOf(tenant)) <=
                          site.policy.maxRunningJobs[tenant] + Cardinality(site.handlers) - 1
    BY DEF QuotaInv
  <2>1. site.handlers \subseteq Handlers /\ IsFiniteSet(site.handlers)
    BY <1>1, SitesAssumption
  <2>2. RunningOf(tenant) = {} /\ StoringOf(tenant) = {}
    BY <1>1, <1>3, <2>1 DEF RunningOf, StoringOf
  <2>3. PICK max, size : max = site.policy.maxRunningJobs[tenant] /\ size = Cardinality(site.handlers)
    OBVIOUS
  <2>4. max \in Int /\ size \in Nat /\ max > 0
    BY <1>1, <2>1, <2>3, SitesAssumption, FS_CardinalityType
  <2>5. Cardinality({}) = 0
    BY FS_EmptySet
  <2>6. 0 + 0 <= max + size - 1
    BY <2>4
  <2> QED
    BY <2>2, <2>3, <2>5, <2>6
<1> QED
  BY <1>1, <1>5, <1>6, <1>7, <1>8, <1>9 DEF Inv

\* The steps of stored jobs, and all others.
JobStep ==
    \E id \in DOMAIN jobs :
        \/ \E t \in DOMAIN jobs[id].tasks :
            \/ \E w \in site.workers, n \in 0..Cardinality(TasksOf(jobs[id].req.tenant)) :
                    Assign(id, t, w, n)
            \/ Ack(id, t)
            \/ \E status \in site.taskWrites : UpdateTask(id, t, status)
            \/ EnqueueAgain(id, t)
        \/ \E status \in site.jobWrites : UpdateJob(id, status)

LEMMA JobStepMoves ==
    ASSUME Inv, JobStep
    PROVE  \E id \in DOMAIN jobs : JobMoves(id)
<1>1. ASSUME NEW id \in DOMAIN jobs, NEW t \in DOMAIN jobs[id].tasks,
             \/ \E w \in site.workers, n \in 0..Cardinality(TasksOf(jobs[id].req.tenant)) :
                     Assign(id, t, w, n)
             \/ Ack(id, t)
             \/ \E status \in site.taskWrites : UpdateTask(id, t, status)
             \/ EnqueueAgain(id, t)
      PROVE  JobMoves(id)
  BY <1>1, AssignMoves, UpdateTaskMoves, QueueMoves
<1>2. ASSUME NEW id \in DOMAIN jobs, NEW status \in site.jobWrites, UpdateJob(id, status)
      PROVE  JobMoves(id)
  BY <1>2, UpdateJobMoves
<1> QED
  BY <1>1, <1>2 DEF JobStep

LEMMA StepInv == Inv /\ [Next]_vars => Inv'
<1> SUFFICES ASSUME Inv, [Next]_vars PROVE Inv'
  OBVIOUS
<1>1. ASSUME NEW h \in site.handlers, NEW s \in site.servers, NEW r \in site.requests, Submit(h, s, r)
      PROVE  Inv'
  BY <1>1, SubmitStep
<1>2. ASSUME NEW h \in site.handlers, NEW s \in site.servers, NEW n \in site.prefetches, Prefetch(h, s, n)
      PROVE  Inv'
  BY <1>2, PrefetchStep
<1>3. ASSUME NEW h \in site.handlers, NEW s \in site.servers, NEW d \in site.direct, Enqueue(h, s, d)
      PROVE  Inv'
  BY <1>3, EnqueueStep
<1>4. ASSUME NEW h \in site.handlers, NEW a \in site.answers, Plan(h, a) PROVE Inv'
  BY <1>4, PlanStep
<1>5. ASSUME NEW h \in site.handlers, CheckPolicy(h) PROVE Inv'
  BY <1>5, CheckStep
<1>6. ASSUME NEW h \in site.handlers, CreateJobWithTasks(h) PROVE Inv'
  BY <1>6, CreateStep
<1>7. ASSUME NEW h \in site.handlers, EnqueueMany(h) PROVE Inv'
  BY <1>7, EnqueueManyStep
<1>8. ASSUME NEW h \in site.handlers, EnqueueFails(h) PROVE Inv'
  BY <1>8, EnqueueFailsStep
<1>9. ASSUME NEW s \in site.servers, Restart(s) PROVE Inv'
  BY <1>9, RestartStep
<1>10. CASE JobStep
  BY <1>10, JobStepMoves, JobMovesInv
<1>11. ASSUME NEW ref \in refs, LoseRef(ref) PROVE Inv'
  BY <1>11, LoseRefStep
<1>12. CASE UNCHANGED vars
  <2>1. /\ site' = site /\ seq' = seq /\ handler' = handler /\ jobs' = jobs /\ refs' = refs
        /\ accepted' = accepted /\ dropped' = dropped /\ known' = known
    BY <1>12 DEF vars
  <2>2. JobsInv' /\ HandlersInv' /\ OnceInv'
    BY <2>1 DEF Inv, JobsInv, HandlersInv, OnceInv, Working, Enqueues
  <2>3. NumberInv'
    BY <2>1 DEF Inv, NumberInv, Working, Enqueues, Counted
  <2>4. QueueInv'
    BY <2>1 DEF Inv, QueueInv, Owed, CutOff, Enqueues, Enqueueing
  <2>5. QuotaInv'
    BY <2>1 DEF Inv, QuotaInv, RunningOf, StoringOf
  <2> QED
    BY <2>1, <2>2, <2>3, <2>4, <2>5 DEF Inv
<1> QED
  BY <1>1, <1>2, <1>3, <1>4, <1>5, <1>6, <1>7, <1>8, <1>9, <1>10, <1>11, <1>12
     DEF Next, JobStep

LEMMA InvHolds == Spec => []Inv
BY InitInv, StepInv, PTL DEF Spec

---------------------------------------------------------------------------
(* What it shows. *)

\* Whatever the external planner, CompileWithMode and injectModelInstallTasks make
\* of a request, a stored job whose plan was sound has all its planned tasks,
\* every dependency among them, and no cycle.
THEOREM JobsRunnable == Spec => []StoredJobsRunnable
<1>1. ASSUME Inv PROVE StoredJobsRunnable
  BY <1>1 DEF Inv, JobsInv, GoodJob, JobPlanned, PlanFit, FitToUse, StoredJobsRunnable
<1> QED
  BY <1>1, InvHolds, PTL

\* With install_model_if_missing no inference task is handed out before a download
\* of the model was complete, for every plan and every order of the workers'
\* reports, late ones and contradictions among them included.
THEOREM DownloadsComeFirst == Spec => []InstallFirst
<1>1. ASSUME Inv PROVE InstallFirst
  <2> SUFFICES ASSUME NEW id \in DOMAIN jobs, FitToUse(jobs[id]),
                      jobs[id].req.install, jobs[id].req.model # "",
                      NEW t \in jobs[id].given, IsInference(jobs[id].tasks[t])
               PROVE  \E d \in jobs[id].tasks[t].deps :
                          jobs[id].tasks[d].type = "model_download" /\ d \in jobs[id].done
    BY DEF InstallFirst
  <2>1. HandedOut(jobs[id]) /\ JobPlanned(jobs[id].req, jobs[id].plan, jobs[id].planned, jobs[id].tasks)
    BY <1>1 DEF Inv, JobsInv, GoodJob
  <2>2. t \in DOMAIN jobs[id].tasks /\ Done(jobs[id], t)
    BY <2>1 DEF HandedOut
  <2>3. PICK d \in jobs[id].tasks[t].deps :
           d \in DOMAIN jobs[id].tasks /\ jobs[id].tasks[d].type = "model_download"
    BY <2>1, <2>2 DEF JobPlanned, PlanFit, FitToUse
  <2>4. d \in jobs[id].done
    BY <2>2, <2>3 DEF Done
  <2> QED
    BY <2>3, <2>4
<1> QED
  BY <1>1, InvHolds, PTL

\* However the engine's calls about the job follow each other, an accepted job keeps
\* the refs of its first tasks in the queue until they are handed out: through
\* restarts, failing submissions and requests handled at the same time, but for
\* the jobs AcceptedJobsQueued excepts.
THEOREM AcceptedJobsWaitForNobody == Spec => []AcceptedJobsQueued
<1>1. ASSUME Inv PROVE AcceptedJobsQueued
  <2> SUFFICES ASSUME NEW id \in accepted \ dropped, jobs[id].fresh,
                      NEW t \in DOMAIN jobs[id].tasks \ jobs[id].given, jobs[id].tasks[t].deps = {}
               PROVE  <<id, t>> \in refs
    BY DEF AcceptedJobsQueued
  <2>1. id \in DOMAIN jobs \ dropped /\ Waits(jobs[id], t)
    BY <1>1 DEF Inv, JobsInv, Waits
  <2>2. <<id, t>> \in refs \/ Owed(id, t) \/ CutOff(id)
    BY <1>1, <2>1 DEF Inv, QueueInv
  <2>3. ~Owed(id, t)
    <3>1. \A h \in Handlers : Enqueues(h) => handler[h].id # id
      BY <1>1 DEF Inv, OnceInv
    <3> QED
      BY <3>1 DEF Owed
  <2>4. ~CutOff(id)
    BY DEF CutOff
  <2> QED
    BY <2>2, <2>3, <2>4
<1> QED
  BY <1>1, InvHolds, PTL

\* However many requests AddJob handles at the same time, those of a tenant's jobs
\* that have run since they were stored pass max_running_jobs by less than the
\* number of requests.
THEOREM OverrunIsBounded == Spec => []JobQuotaNearlyHolds
<1>1. ASSUME Inv PROVE JobQuotaNearlyHolds
  <2> SUFFICES ASSUME NEW tenant \in DOMAIN site.policy.maxRunningJobs,
                      site.policy.maxRunningJobs[tenant] > 0
               PROVE  Cardinality(RunningOf(tenant)) <=
                          site.policy.maxRunningJobs[tenant] + Cardinality(site.handlers) - 1
    BY DEF JobQuotaNearlyHolds, RunningOf
  <2>1. PICK A, C, max, size :
           /\ A = RunningOf(tenant) /\ C = StoringOf(tenant)
           /\ max = site.policy.maxRunningJobs[tenant] /\ size = Cardinality(site.handlers)
    OBVIOUS
  <2>2. IsFiniteSet(A) /\ IsFiniteSet(C)
    <3>1. A \in SUBSET DOMAIN jobs /\ IsFiniteSet(DOMAIN jobs)
      BY <1>1, <2>1 DEF RunningOf, Inv, JobsInv
    <3>2. C \in SUBSET site.handlers /\ IsFiniteSet(site.handlers)
      BY <1>1, <2>1, SiteFacts DEF StoringOf
    <3> QED
      BY <3>1, <3>2, FS_Subset
  <2>3. Cardinality(A) \in Nat /\ Cardinality(C) \in Nat /\ max \in Int /\ size \in Nat
    BY <1>1, <2>1, <2>2, FS_CardinalityType, SiteFacts
  <2>4. Cardinality(A) + Cardinality(C) <= max + size - 1
    BY <1>1, <2>1 DEF Inv, QuotaInv
  <2>5. Cardinality(A) <= max + size - 1
    BY <2>3, <2>4
  <2> QED
    BY <2>1, <2>5
<1> QED
  BY <1>1, InvHolds, PTL

\* For every policy and every DAG, EvaluateAssignment refuses a job that
\* EvaluateSubmit admitted only by a quota, by a rule about something only an
\* assignment has, because the rule that admitted it is about something only a
\* submission has, or by an input that the DAG gave the task.
THEOREM ChecksDoNotContradict == Spec => []AdmittedJobsAssignable
<1>1. ASSUME Inv PROVE AdmittedJobsAssignable
  <2> SUFFICES ASSUME NEW id \in DOMAIN jobs, ~jobs[id].denied.allowed, ~jobs[id].denied.quota
               PROVE  \/ RuleNames(site.policy, jobs[id].denied.rule, TaskFields \cup OwnFields(jobs[id]))
                      \/ RuleNames(site.policy, jobs[id].rule, JobFields \cup OwnFields(jobs[id]))
    BY DEF AdmittedJobsAssignable, RuleNames
  <2>1. PICK policy, j, req, rule, d, task :
           /\ policy = site.policy /\ j = jobs[id] /\ req = j.req /\ rule = j.rule
           /\ d = j.denied /\ task = j.tasks[j.deniedTask]
    OBVIOUS
  <2>2. GoodJob(policy, j) /\ ~d.allowed /\ ~d.quota
    BY <1>1, <2>1 DEF Inv, JobsInv
  <2>3. Admitted(policy, req, rule)
    BY <2>1, <2>2 DEF GoodJob
  <2>4. PICK worker : d = evaluateRules(policy, AssignIn(req.tenant, task, worker))
    BY <2>1, <2>2 DEF GoodJob, DenialMeant
  <2>5. policy.rules \in Seq(Rules)
    BY <1>1, <2>1, SiteFacts
  <2>6. \/ RuleNames(policy, d.rule, TaskFields \cup Own(req, task))
        \/ RuleNames(policy, rule, JobFields \cup Own(req, task))
    BY <2>2, <2>3, <2>4, <2>5, ChecksAgree
  <2>7. OwnFields(j) = Own(req, task)
    BY <2>1 DEF OwnFields, Own
  <2> QED
    BY <2>1, <2>6, <2>7
<1> QED
  BY <1>1, InvHolds, PTL

\* The job is not replaced.
Keeps(id) ==
    /\ jobs'[id].req = jobs[id].req /\ jobs'[id].plan = jobs[id].plan
    /\ DOMAIN jobs'[id].tasks = DOMAIN jobs[id].tasks
    /\ handler' # handler => jobs'[id] = jobs[id]

LEMMA StepKeeps ==
    ASSUME Inv, Next, NEW id \in DOMAIN jobs \cap DOMAIN jobs', ~Overwrites(id)
    PROVE  Keeps(id)
<1>1. ASSUME jobs' = jobs PROVE Keeps(id)
  BY <1>1 DEF Keeps
<1>2. ASSUME NEW h \in site.handlers, CreateJobWithTasks(h) PROVE Keeps(id)
  <2>1. CASE handler[h].id # id
    BY <1>2, <2>1, <1>1 DEF CreateJobWithTasks, Keeps
  <2>2. CASE handler[h].id = id /\ Refused(h)
    BY <1>1, <1>2, <2>2 DEF CreateJobWithTasks
  <2>3. CASE handler[h].id = id /\ ~Refused(h)
    <3>1. handler[h].at = "store" /\ h \in Handlers
      BY <1>2, SiteFacts DEF CreateJobWithTasks
    <3>2. site.store = "memory"
      BY <2>3, SiteFacts DEF Refused
    <3>3. Counted
      BY <2>3, <3>1, <3>2 DEF Overwrites, Counted
    <3>4. id \notin DOMAIN jobs
      BY <2>3, <3>1, <3>3 DEF Inv, NumberInv, Working, Enqueues
    <3> QED
      BY <3>4
  <2> QED
    BY <2>1, <2>2, <2>3
<1>3. ASSUME NEW s \in site.servers, Restart(s) PROVE Keeps(id)
  <2>1. jobs' # Empty
    BY DEF Empty
  <2> QED
    BY <1>1, <1>3, <2>1 DEF Restart
<1>4. ASSUME JobStep PROVE Keeps(id)
  <2>1. PICK x \in DOMAIN jobs : JobMoves(x)
    BY <1>4, JobStepMoves
  <2>2. CASE x = id
    BY <2>1, <2>2 DEF JobMoves, SameJob, Keeps
  <2>3. CASE x # id
    BY <2>1, <2>3 DEF JobMoves, Keeps
  <2> QED
    BY <2>2, <2>3
<1>5. ASSUME NEW h \in site.handlers, CheckPolicy(h) \/ EnqueueMany(h) \/ EnqueueFails(h) PROVE jobs' = jobs
  BY <1>5 DEF CheckPolicy, EnqueueMany, EnqueueFails
<1>6. ASSUME NEW h \in site.handlers, NEW s \in site.servers,
             \/ \E r \in site.requests : Submit(h, s, r)
             \/ \E n \in site.prefetches : Prefetch(h, s, n)
             \/ \E d \in site.direct : Enqueue(h, s, d)
      PROVE  jobs' = jobs
  BY <1>6 DEF Submit, Prefetch, Enqueue, Begin
<1>7. ASSUME NEW h \in site.handlers, NEW a \in site.answers, Plan(h, a) PROVE jobs' = jobs
  BY <1>7 DEF Plan
<1>8. ASSUME NEW ref \in refs, LoseRef(ref) PROVE jobs' = jobs
  BY <1>8 DEF LoseRef
<1> QED
  BY <1>1, <1>2, <1>3, <1>4, <1>5, <1>6, <1>7, <1>8 DEF Next, JobStep

\* With any number of servers, each with a counter that starts again when it
\* restarts, no submission replaces or changes a stored job, but for IDs that callers
\* of the scheduler service choose on a store in memory.
THEOREM JobsNeverReplaced == Spec => JobsAreKept
<1>1. ASSUME Inv, [Next]_vars
      PROVE  [\A id \in DOMAIN jobs \cap DOMAIN jobs' : jobs[id].fresh /\ ~Overwrites(id) =>
                 /\ jobs'[id].req = jobs[id].req /\ jobs'[id].plan = jobs[id].plan
                 /\ DOMAIN jobs'[id].tasks = DOMAIN jobs[id].tasks
                 /\ handler' # handler => jobs'[id] = jobs[id]]_vars
  BY <1>1, StepKeeps DEF Keeps
<1> QED
  BY <1>1, InvHolds, PTL DEF Spec, JobsAreKept
=============================================================================
