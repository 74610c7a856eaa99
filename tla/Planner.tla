------------------------------ MODULE Planner ------------------------------
(***************************************************************************)
(* How a job's DAG is made: the compiler's templates and its external      *)
(* planner (internal/planner), the tasks the API server injects            *)
(* (internal/api/server.go), and the prefetch DAG.                         *)
(*                                                                         *)
(* A DAG is a sequence of tasks.  Of the input text only whether it asks   *)
(* for an analysis is kept, and of a task's inputs the three the policy    *)
(* reads (model, _data_classification, _network_isolation); prompts,       *)
(* resources and timeouts are left out.                                    *)
(***************************************************************************)
EXTENDS Naturals, Sequences, SequencesExt

NoInputs == [model |-> "", class |-> "", isolation |-> ""]
Inputs == [model : STRING, class : STRING, isolation : STRING]
Task(id, type, deps) ==
    [id |-> id, type |-> type, deps |-> deps, backend |-> "", inputs |-> NoInputs]
DAGs == Seq([id : STRING, type : STRING, deps : SUBSET STRING, backend : STRING, inputs : Inputs])

\* Stages that depend each on the one before.
Chain(stages) ==
    [i \in DOMAIN stages |->
        Task(stages[i][1], stages[i][2], IF i = 1 THEN {} ELSE {stages[i - 1][1]})]

compileTemplate(analyze) ==
    Chain(IF analyze
          THEN << <<"t1-split", "tool_execution">>, <<"t2-embed", "embedding">>,
                  <<"t3-summarize", "llm_inference">> >>
          ELSE << <<"t1", "llm_inference">> >>)

\* The decomposition used when there is no external planner.
staticPlan(analyze) ==
    Chain(IF analyze
          THEN << <<"t1-decompose", "llm_inference">>, <<"t2-retrieve", "retrieval">>,
                  <<"t3-reason", "llm_inference">>, <<"t4-report", "aggregation">> >>
          ELSE << <<"t1-decompose", "llm_inference">>, <<"t2-respond", "llm_inference">> >>)

\* What Plan makes of the endpoint's answer.  Not ok: there is no endpoint, a
\* timeout, a status >= 300 or an undecodable body; an empty list is an error.
NoPlan == <<>>
ProviderPlan(answer) == IF answer.ok THEN answer.tasks ELSE NoPlan

\* The external planner's DAG is taken as it is.
compileLLM(analyze, answer) ==
    IF ProviderPlan(answer) # NoPlan THEN ProviderPlan(answer) ELSE staticPlan(analyze)

compileHybrid(analyze) ==
    LET base == compileTemplate(analyze)
    IN IF Len(base) <= 1
       THEN base
       ELSE Append(base, Task("t4-aggregate", "aggregation", {Last(base).id}))

\* The API server replaces an empty mode by template before it compiles.
CompileWithMode(analyze, mode, answer) ==
    CASE mode = "template" -> compileTemplate(analyze)
      [] mode \in {"llm", "llm_planner"} -> compileLLM(analyze, answer)
      [] OTHER -> compileHybrid(analyze)

----------------------------------------------------------------------------

IDs(dag) == {dag[i].id : i \in DOMAIN dag}
IsInference(t) == t.type = "llm_inference"
HasInference(dag) == \E i \in DOMAIN dag : IsInference(dag[i])

injectModelBackend(dag, backend) ==
    [i \in DOMAIN dag |->
        IF IsInference(dag[i]) /\ dag[i].backend = ""
        THEN [dag[i] EXCEPT !.backend = backend] ELSE dag[i]]

InstallIDs == {"t0-model-install", "t0-model-install-1"}
installTaskID(dag) ==
    IF "t0-model-install" \in IDs(dag) THEN "t0-model-install-1" ELSE "t0-model-install"

Download(id, model) ==
    [Task(id, "model_download", {}) EXCEPT !.inputs.model = model]

WaitsFor(t, id) ==
    IF IsInference(t) /\ t.id # id THEN [t EXCEPT !.deps = @ \cup {id}] ELSE t

\* Variants: the ID is not checked; only the first task waits.
injectUnchecked(dag, model, install) ==
    IF ~install \/ model = "" \/ ~HasInference(dag)
    THEN dag
    ELSE <<Download("t0-model-install", model)>>
         \o [i \in DOMAIN dag |-> WaitsFor(dag[i], "t0-model-install")]
onlyFirstWaits(dag, model, install) ==
    IF ~install \/ model = "" \/ ~HasInference(dag)
    THEN dag
    ELSE LET id == installTaskID(dag)
         IN <<Download(id, model)>>
            \o [i \in DOMAIN dag |-> IF i = 1 THEN WaitsFor(dag[i], id) ELSE dag[i]]

injectModelInstallTasks(dag, model, install) ==
    IF ~install \/ model = "" \/ ~HasInference(dag)
    THEN dag
    ELSE LET id == installTaskID(dag)
         IN <<Download(id, model)>>
            \o [i \in DOMAIN dag |-> WaitsFor(dag[i], id)]

\* One download per targeted worker, the i-th called prefetch-<i>.
prefetchNames == <<"prefetch-001", "prefetch-002", "prefetch-003">>
prefetchDAG(n, model) == [i \in 1..n |-> Download(prefetchNames[i], model)]

----------------------------------------------------------------------------

\* Every dependency is a task, and every set of tasks has one that depends on
\* none of the others.
Runnable(ids, deps) ==
    /\ \A id \in ids : deps[id] \subseteq ids
    /\ \A S \in SUBSET ids : S # {} => \E id \in S : deps[id] \cap S = {}

UniqueIDs(dag) == \A i, k \in DOMAIN dag : dag[i].id = dag[k].id => i = k
TaskCalled(dag, id) == dag[CHOOSE i \in DOMAIN dag : dag[i].id = id]
Sound(dag) ==
    /\ UniqueIDs(dag)
    /\ Runnable(IDs(dag), [id \in IDs(dag) |-> TaskCalled(dag, id).deps])
============================================================================
