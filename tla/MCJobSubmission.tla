-------------------------- MODULE MCJobSubmission --------------------------
(* Small instances of JobSubmission for TLC. *)
EXTENDS JobSubmission, TLC

CONSTANTS s1, s2, h1, h2

Body == [tenant |-> "a", type |-> "chat", analyze |-> FALSE, mode |-> "", model |-> "",
         class |-> "internal", priority |-> "", isolation |-> "", latency |-> "",
         reasoning |-> "true", install |-> FALSE]

\* Every way to plan.
AllWays ==
    {[Body EXCEPT !.analyze = a, !.mode = m, !.install = i, !.model = o] :
        a \in BOOLEAN, m \in {"", "hybrid", "llm_planner"}, i \in BOOLEAN, o \in {"", "m1"}}

\* External plans: none, a fork, the reserved ID used by a task, for an
\* inference task, by both names, a missing dependency and a cycle.
Failure == [ok |-> FALSE, tasks |-> <<>>]
Ok(tasks) == [ok |-> TRUE, tasks |-> tasks]
Fork == <<Task("a", "retrieval", {}), Task("b", "llm_inference", {"a"}),
          Task("c", "llm_inference", {"a"})>>
UsesID(type) == <<Task("t0-model-install", type, {}), Task("b", "llm_inference", {"t0-model-install"})>>
UsesBoth == <<Task("t0-model-install", "tool_execution", {}),
              Task("t0-model-install-1", "llm_inference", {"t0-model-install"})>>
Dangling == <<Task("b", "llm_inference", {"t0-model-install"})>>
Cycle == <<Task("a", "retrieval", {"b"}), Task("b", "llm_inference", {"a"})>>
AllAnswers == {Failure, Ok(<<>>), Ok(Fork), Ok(UsesID("tool_execution")),
               Ok(UsesID("llm_inference")), Ok(UsesBoth), Ok(Dangling), Ok(Cycle)}

\* Callers of the scheduler service name their jobs themselves, and may give a
\* task a model or a classification where the request has none.
ByCaller == [Body EXCEPT !.priority = "interactive", !.model = "m1"]
Secret == [Task("a", "retrieval", {}) EXCEPT !.inputs.class = "secret"]
OwnNames ==
    {<<2, [ByCaller EXCEPT !.class = ""], <<Secret, Task("b", "llm_inference", {})>>>>,
     <<3, [ByCaller EXCEPT !.model = "m2"], <<Task("a", "llm_inference", {})>>>>}

PrefetchRequest ==
    [Body EXCEPT !.type = "model_prefetch", !.model = "m1", !.priority = "standard",
                 !.isolation = "default"]

AWorker == {[locality |-> "", gpu |-> "false"]}
TwoKinds == {[locality |-> "dc", gpu |-> "false"], [locality |-> "edge", gpu |-> "true"]}

NoQuotas == [t \in {} |-> 0]
OneFor == [t \in {"a"} |-> 1]
Rule(effect, match) == [effect |-> effect, match |-> match]
AllowAll == [default |-> "allow", rules |-> <<>>, maxRunningJobs |-> NoQuotas,
             maxRunningTasks |-> NoQuotas]
\* One running job and one running task; inference on edge workers and secrets
\* denied; models allowed by name, and any model for chat, as in "Example B: Strict
\* default deny + explicit allow" of complete-operations-reference.md.
Guarded ==
    [default |-> "deny", maxRunningJobs |-> OneFor, maxRunningTasks |-> OneFor,
     rules |-> <<Rule("block", [AnyMatch EXCEPT !.taskType = "llm_inference", !.locality = "edge"]),
                 Rule("deny", [AnyMatch EXCEPT !.class = "secret"]),
                 Rule("allow", [AnyMatch EXCEPT !.model = "m1"]),
                 Rule("allow", [AnyMatch EXCEPT !.tenant = "a", !.model = "base"]),
                 Rule("allow", [AnyMatch EXCEPT !.tenant = "a", !.jobType = "chat"])>>]

DefaultRoutes == [backend |-> "ollama", model |-> "base", rules |-> <<>>]
ReasoningRoute ==
    [DefaultRoutes EXCEPT !.rules =
        <<[latency |-> "interactive", reasoning |-> "true", class |-> "",
           backend |-> "vllm", model |-> "big"]>>]

\* Every way to plan, one request at a time.
Planning ==
    {[servers |-> {s}, handlers |-> {h}, requests |-> AllWays, answers |-> AllAnswers,
      direct |-> {}, prefetches |-> {0, 2}, workers |-> AWorker, policy |-> AllowAll,
      routes |-> ReasoningRoute, store |-> "memory", queue |-> "memory",
      taskWrites |-> {"Completed"}, jobWrites |-> {}] :
        s \in Servers, h \in Handlers}
\* Two API servers beside the scheduler service, one Postgres and one Redis; the
\* jobs may be canceled, no worker polls.
Shared ==
    [servers |-> Servers, handlers |-> Handlers, requests |-> {Body}, answers |-> {Failure},
     direct |-> OwnNames, prefetches |-> {}, workers |-> {}, policy |-> Guarded,
     routes |-> DefaultRoutes, store |-> "postgres", queue |-> "redis",
     taskWrites |-> {}, jobWrites |-> {"Canceled"}]
\* One request at a time, workers of two kinds, and an engine that closes jobs and
\* opens them again.
Polled ==
    {[Shared EXCEPT !.servers = {s}, !.handlers = {h}, !.requests = {}, !.workers = TwoKinds,
                    !.direct = {<<d[1], d[2], <<Head(d[3])>>>> : d \in @},
                    !.taskWrites = {"Canceled"}, !.jobWrites = {"Running", "Completed"}] :
        s \in Servers, h \in Handlers}
\* One server; either the store or the queue outlives it.
Mixed ==
    {[Shared EXCEPT !.servers = {s}, !.direct = {}, !.workers = AWorker,
                    !.taskWrites = {"Queued", "Completed"}, !.jobWrites = {"Running", "Completed"},
                    !.store = b[1], !.queue = b[2]] :
        s \in Servers, b \in {<<"postgres", "memory">>, <<"memory", "redis">>}}
\* The scheduler service by itself; its callers use an ID twice.
Alone ==
    {[Shared EXCEPT !.servers = {s}, !.requests = {}, !.workers = AWorker, !.policy = AllowAll,
                    !.store = "memory", !.taskWrites = {"Failed"}, !.queue = q,
                    !.direct = {<<2, d[2], d[3]>> : d \in @}] : s \in Servers, q \in {"memory", "redis"}}
AllSites == Planning \cup {Shared} \cup Polled \cup Mixed \cup Alone

Symmetry == Permutations(Servers) \cup Permutations(Handlers)
============================================================================
