--------------------------- MODULE JobSubmission ---------------------------
(***************************************************************************)
(* How a job comes into being: API servers and the scheduler service take  *)
(* requests, number them, plan a DAG, ask the policy, store the job and    *)
(* enqueue its first tasks (handleJobs, handleModelPrefetch, the scheduler *)
(* command's jobs handler, and Engine.AddJob), and the policy is asked     *)
(* again when a task is assigned.                                          *)
(*                                                                         *)
(* Every handler is a thread: each store, queue and planner call is a step *)
(* of its own.  Servers restart; Postgres and Redis survive that, a store  *)
(* or a queue in memory does not, and NewEngineFromEnv chooses the two     *)
(* separately.                                                             *)
(*                                                                         *)
(* Of a stored job there are the calls by which polls, reports, sweeps,    *)
(* heartbeats, preemption, cancel and archive write to store and queue.    *)
(* Each is a step of its own that may come at any time after what must     *)
(* precede it, with any of the site's statuses: the copies of records and  *)
(* the lists that a handler worked it out from may be of any age.          *)
(* EngineSteps has these handlers themselves.                              *)
(***************************************************************************)
EXTENDS Planner, Policy

CONSTANTS
    Servers, Handlers,
    PrefetchBody,   \* the request a prefetch amounts to
    Sites,          \* deployments, each a record with the fields
                    \*   servers, handlers  how many requests at a time, and where
                    \*   requests           bodies of POST /v1/jobs
                    \*   answers            what the external planner may answer
                    \*   direct             <<id, request, DAG>> of POST /v1/scheduler/jobs
                    \*   prefetches         numbers of workers a prefetch may target
                    \*   workers            locality and GPU of the workers that poll
                    \*   policy, routes     configurations
                    \*   store, queue       "memory", or "postgres" and "redis"
                    \*   taskWrites         statuses the engine writes to tasks
                    \*   jobWrites          statuses it writes to jobs
    MaxSeq,         \* bound: jobs a server numbers between restarts
    MaxRestarts     \* bound: restarts

\* Servers can work together only on a store and a queue they share.
\* The scheduler service knows no install_model_if_missing.
ASSUME SitesAssumption ==
    \A x \in Sites :
        /\ x.servers \subseteq Servers /\ x.handlers \subseteq Handlers
        /\ IsFiniteSet(x.handlers)
        /\ x.store \in {"memory", "postgres"} /\ x.queue \in {"memory", "redis"}
        /\ "memory" \in {x.store, x.queue} => \A s, r \in x.servers : s = r
        /\ x.prefetches \subseteq 0..Len(prefetchNames)
        /\ \A a \in x.answers : a.tasks \in DAGs
        /\ \A d \in x.direct : d[3] \in DAGs /\ ~d[2].install
        /\ x.policy.rules \in Seq(Rules)
        /\ \A t \in DOMAIN x.policy.maxRunningJobs : x.policy.maxRunningJobs[t] \in Int
ASSUME BoundsAssumption == MaxSeq \in Nat /\ MaxRestarts \in Nat

VARIABLES
    site,       \* the deployment
    seq,        \* server -> its counter
    handler,    \* handler -> the request it works on
    jobs,       \* job ID -> JobRecord and its TaskRecords
    refs,       \* refs in the queue: pending, claimed or dead letters
    accepted,   \* IDs answered with 202
    dropped,    \* history: stored jobs whose refs a restart of the queue, a failing
                \* Enqueue or a broken connection took
    known,      \* history: IDs under which a job has been stored
    restarts

vars == <<site, seq, handler, jobs, refs, accepted, dropped, known, restarts>>

Idle == [at |-> "idle"]
Empty == [id \in {} |-> 0]

Init ==
    /\ site \in Sites
    /\ seq = [s \in Servers |-> 0]
    /\ handler = [h \in Handlers |-> Idle]
    /\ jobs = Empty
    /\ refs = {}
    /\ accepted = {}
    /\ dropped = {}
    /\ known = {}
    /\ restarts = 0

Reply(h) == handler' = [handler EXCEPT ![h] = Idle]

\* A handler begins to work on a request.
Begin(h, s, id, at, req, route, plan, dag) ==
    /\ handler[h].at = "idle"
    /\ handler' = [handler EXCEPT ![h] =
            [at |-> at, server |-> s, id |-> id, req |-> req, route |-> route,
             plan |-> plan, dag |-> dag, rule |-> 0]]
    /\ UNCHANGED <<site, jobs, refs, accepted, dropped, known, restarts>>

----------------------------------------------------------------------------
(* The front ends. *)

\* The defaults of handleJobs, and the model: the one asked for, else the
\* route's.
WithDefaults(r) ==
    LET q == [r EXCEPT !.priority = Or(@, "interactive"),
                       !.mode = Or(@, "template")]
        in == [q EXCEPT !.latency = Or(@, q.priority)]
    IN [in EXCEPT !.model = Or(@, Route(site.routes, in).model)]
RouteOf(r) ==
    LET q == [r EXCEPT !.priority = Or(@, "interactive")]
    IN Route(site.routes, [q EXCEPT !.latency = Or(@, q.priority)])

NextID(s) ==
    /\ seq[s] < MaxSeq
    /\ seq' = [seq EXCEPT ![s] = @ + 1]

Submit(h, s, r) ==
    /\ NextID(s)
    /\ Begin(h, s, seq[s] + 1, "plan", WithDefaults(r), RouteOf(r), NoPlan, <<>>)

\* The compiler may wait for the external planner; other requests go on.
Plan(h, answer) ==
    /\ handler[h].at = "plan"
    /\ LET r == handler[h].req
           asked == r.mode \in {"llm", "llm_planner"}
           dag == CompileWithMode(r.analyze, r.mode, answer)
           routed == injectModelBackend(dag, handler[h].route.backend)
       IN /\ ~asked => ~answer.ok
          /\ handler' = [handler EXCEPT ![h].at = "check", ![h].plan = ProviderPlan(answer),
                ![h].dag = injectModelInstallTasks(routed, r.model, r.install)]
    /\ UNCHANGED <<site, seq, jobs, refs, accepted, dropped, known, restarts>>

\* n eligible workers; with none the request is refused.
Prefetch(h, s, n) ==
    /\ n > 0
    /\ NextID(s)
    /\ Begin(h, s, seq[s] + 1, "check", PrefetchBody,
             [backend |-> "", model |-> PrefetchBody.model], NoPlan, prefetchDAG(n, PrefetchBody.model))

\* The scheduler service takes ID and DAG from its caller.
Enqueue(h, s, d) ==
    /\ Len(d[3]) > 0
    /\ Begin(h, s, d[1], "check", d[2], [backend |-> "", model |-> d[2].model], d[3], d[3])
    /\ UNCHANGED seq

----------------------------------------------------------------------------
(* AddJob. *)

RunningJobs(tenant) ==
    Cardinality({id \in DOMAIN jobs :
        jobs[id].req.tenant = tenant /\ jobs[id].status = "Running"})

\* The count is read here and the job stored in another step.
CheckPolicy(h) ==
    /\ handler[h].at = "check"
    /\ LET r == handler[h].req
           d == EvaluateSubmit(site.policy, r, RunningJobs(r.tenant))
       IN IF d.allowed
          THEN handler' = [handler EXCEPT ![h].at = "store", ![h].rule = d.rule]
          ELSE Reply(h)
    /\ UNCHANGED <<site, seq, jobs, refs, accepted, dropped, known, restarts>>

\* Tasks are stored under their IDs: of two with one ID the later stays.  What
\* the request says replaces a task's own input, what it leaves empty does not.
LastCalled(dag, id) ==
    dag[Max({i \in DOMAIN dag : dag[i].id = id})]
TaskRecords(dag, req) ==
    [id \in IDs(dag) |->
        LET t == LastCalled(dag, id)
        IN [type |-> t.type, deps |-> t.deps, backend |-> t.backend, status |-> "Queued",
            inputs |-> [model |-> Or(req.model, t.inputs.model),
                        class |-> Or(req.class, t.inputs.class),
                        isolation |-> Or(req.isolation, t.inputs.isolation)]]]

\* Beside the record, what has happened to the job: the tasks that were handed out
\* and that were Completed once, the last denial and its task, whether the job was
\* closed and became Running again, and whether its ID is new.
JobRecord(h) ==
    [status |-> "Running", req |-> handler[h].req, plan |-> handler[h].plan,
     planned |-> Len(handler[h].dag), rule |-> handler[h].rule,
     tasks |-> TaskRecords(handler[h].dag, handler[h].req),
     given |-> {}, done |-> {}, denied |-> Decision(TRUE, FALSE, 0), deniedTask |-> "",
     reopened |-> FALSE, fresh |-> handler[h].id \notin known]

\* Variant: an upsert instead of an insert.
RefusedNever(h) == FALSE

\* Postgres refuses an ID it has and a DAG with an ID twice, and rolls back; the
\* store in memory overwrites.
Refused(h) ==
    site.store = "postgres" /\ (handler[h].id \in DOMAIN jobs \/ ~UniqueIDs(handler[h].dag))

CreateJobWithTasks(h) ==
    /\ handler[h].at = "store"
    /\ IF Refused(h)
       THEN Reply(h) /\ UNCHANGED <<jobs, dropped, known>>
       ELSE /\ jobs' = [id \in DOMAIN jobs \cup {handler[h].id} |->
                            IF id = handler[h].id THEN JobRecord(h) ELSE jobs[id]]
            /\ handler' = [handler EXCEPT ![h].at = "enqueue"]
            /\ dropped' = dropped \ {handler[h].id}
            /\ known' = known \cup {handler[h].id}
    /\ UNCHANGED <<site, seq, refs, accepted, restarts>>

\* Variant: only the first task.
firstRef(h) == {<<handler[h].id, handler[h].dag[1].id>>}

readyRefs(h) ==
    {<<handler[h].id, handler[h].dag[i].id>> :
        i \in {k \in DOMAIN handler[h].dag : handler[h].dag[k].deps = {}}}

EnqueueMany(h) ==
    /\ handler[h].at = "enqueue"
    /\ refs' = refs \cup readyRefs(h)
    /\ accepted' = accepted \cup {handler[h].id}
    /\ Reply(h)
    /\ UNCHANGED <<site, seq, jobs, dropped, known, restarts>>

\* The queue fails, before its LPUSH or before the answer to it: the caller is
\* told, the job stays.
EnqueueFails(h) ==
    /\ handler[h].at = "enqueue"
    /\ site.queue = "redis"
    /\ Reply(h)
    /\ refs' \in {refs, refs \cup readyRefs(h)}
    /\ dropped' = dropped \cup {handler[h].id}
    /\ UNCHANGED <<site, seq, jobs, accepted, known, restarts>>

Restart(s) ==
    /\ restarts < MaxRestarts
    /\ restarts' = restarts + 1
    /\ seq' = [seq EXCEPT ![s] = 0]
    /\ handler' = [h \in Handlers |->
            IF handler[h].at # "idle" /\ handler[h].server = s THEN Idle ELSE handler[h]]
    /\ IF site.store = "postgres"
       THEN UNCHANGED <<jobs, accepted>>
       ELSE jobs' = Empty /\ accepted' = {}
    /\ refs' = IF site.queue = "redis" THEN refs ELSE {}
    /\ dropped' = (dropped \cup {ref[1] : ref \in refs \ refs'}) \cap DOMAIN jobs'
    /\ UNCHANGED <<site, known>>

----------------------------------------------------------------------------
(* What becomes of a stored job. *)

TasksOf(tenant) ==
    UNION {{<<id, t>> : t \in DOMAIN jobs[id].tasks} :
              id \in {k \in DOMAIN jobs : jobs[k].req.tenant = tenant}}

\* dependenciesCompleted found each of them Completed, in an earlier call.
DepsDone(id, t) ==
    \A d \in jobs[id].tasks[t].deps : d \in DOMAIN jobs[id].tasks /\ d \in jobs[id].done

\* tryAssign with a claimed ref, up to its UpdateTask.  Job and task were Running
\* and Queued when it read them, and running were the tenant's Running tasks when
\* it counted.
Assign(id, t, w, running) ==
    /\ <<id, t>> \in refs \/ t \in jobs[id].given
    /\ DepsDone(id, t)
    /\ LET d == EvaluateAssignment(site.policy, jobs[id].req.tenant, jobs[id].tasks[t], w, running)
       IN jobs' = IF d.allowed
                  THEN [jobs EXCEPT ![id].tasks[t].status = "Assigned", ![id].given = @ \cup {t}]
                  ELSE [jobs EXCEPT ![id].tasks[t].status = "Failed", ![id].denied = d,
                                    ![id].deniedTask = t]
    /\ UNCHANGED <<site, seq, handler, refs, accepted, dropped, known, restarts>>

\* The end of the poll: only a claim that led to an assignment is acknowledged,
\* the others go back to the queue or to its dead letters.
Ack(id, t) ==
    /\ t \in jobs[id].given
    /\ refs' = refs \ {<<id, t>>}
    /\ UNCHANGED <<site, seq, handler, jobs, accepted, dropped, known, restarts>>

\* The UpdateTask of a report, a sweep, a heartbeat or a preemption, all about a
\* task that was assigned, and of a cancel.
UpdateTask(id, t, status) ==
    /\ t \in jobs[id].given \/ status = "Canceled"
    /\ jobs' = [jobs EXCEPT ![id].tasks[t].status = status,
                            ![id].done = IF status = "Completed" THEN @ \cup {t} ELSE @]
    /\ UNCHANGED <<site, seq, handler, refs, accepted, dropped, known, restarts>>

\* The UpdateJob at the end of tryAssign, of a report or of a sweep, after the
\* UpdateTask of an assigned or a denied task, and of a cancel or an archive.
UpdateJob(id, status) ==
    /\ \/ status \in {"Canceled", "Archived"}
       \/ jobs[id].given # {}
       \/ ~jobs[id].denied.allowed
    /\ jobs' = [jobs EXCEPT ![id].status = status, ![id].reopened =
            IF status = "Running" /\ jobs[id].status # "Running" THEN TRUE ELSE @]
    /\ UNCHANGED <<site, seq, handler, refs, accepted, dropped, known, restarts>>

\* A retry, a sweep or a preemption enqueues a task again, and a Completed report
\* the tasks whose dependencies it found completed.
EnqueueAgain(id, t) ==
    /\ t \in jobs[id].given \/ (DepsDone(id, t) /\ jobs[id].done # {})
    /\ refs' = refs \cup {<<id, t>>}
    /\ UNCHANGED <<site, seq, handler, jobs, accepted, dropped, known, restarts>>

\* The connection to Redis breaks between two commands that move a ref, as in
\* Claim.
LoseRef(ref) ==
    /\ site.queue = "redis"
    /\ refs' = refs \ {ref}
    /\ dropped' = dropped \cup ({ref[1]} \cap DOMAIN jobs)
    /\ UNCHANGED <<site, seq, handler, jobs, accepted, known, restarts>>

Next ==
    \/ \E h \in site.handlers :
        \/ \E s \in site.servers :
            \/ \E r \in site.requests : Submit(h, s, r)
            \/ \E n \in site.prefetches : Prefetch(h, s, n)
            \/ \E d \in site.direct : Enqueue(h, s, d)
        \/ \E a \in site.answers : Plan(h, a)
        \/ CheckPolicy(h)
        \/ CreateJobWithTasks(h)
        \/ EnqueueMany(h)
        \/ EnqueueFails(h)
    \/ \E s \in site.servers : Restart(s)
    \/ \E id \in DOMAIN jobs :
        \/ \E t \in DOMAIN jobs[id].tasks :
            \/ \E w \in site.workers, n \in 0..Cardinality(TasksOf(jobs[id].req.tenant)) :
                    Assign(id, t, w, n)
            \/ Ack(id, t)
            \/ \E status \in site.taskWrites : UpdateTask(id, t, status)
            \/ EnqueueAgain(id, t)
        \/ \E status \in site.jobWrites : UpdateJob(id, status)
    \/ \E ref \in refs : LoseRef(ref)

Spec == Init /\ [][Next]_vars

----------------------------------------------------------------------------
(* A job whose ID had been used is outside what follows: a store in memory *)
(* forgets its jobs at a restart and the IDs begin again, and a caller of  *)
(* the scheduler service may replace a job there, while workers and        *)
(* handlers that knew the earlier job still report and write under the ID. *)

\* The plan the job was made from is sound, and does not itself use both IDs the
\* API server knows for its download task.
FitToUse(j) == Sound(j.plan) /\ ~(InstallIDs \subseteq IDs(j.plan))

\* Unless the external planner's own DAG is broken, a stored job can be run to its
\* end: every planned task is stored, every dependency exists, and there is no
\* cycle, whatever CompileWithMode and injectModelInstallTasks added.
StoredJobsRunnable ==
    \A id \in DOMAIN jobs : jobs[id].fresh /\ FitToUse(jobs[id]) =>
        LET tasks == jobs[id].tasks
        IN /\ Cardinality(DOMAIN tasks) = jobs[id].planned
           /\ Runnable(DOMAIN tasks, [t \in DOMAIN tasks |-> tasks[t].deps])

\* With install_model_if_missing no inference task is handed out before a download
\* of the model was complete, whatever is reported of either later
\* (injectModelInstallTasks, tryAssign).
InstallFirst ==
    \A id \in DOMAIN jobs :
        jobs[id].fresh /\ FitToUse(jobs[id]) /\ jobs[id].req.install /\ jobs[id].req.model # "" =>
            \A t \in jobs[id].given : IsInference(jobs[id].tasks[t]) =>
                \E d \in jobs[id].tasks[t].deps :
                    jobs[id].tasks[d].type = "model_download" /\ d \in jobs[id].done

\* A job whose submission was answered with 202 can start: until a task without
\* dependencies is handed out its ref is in the queue or among its dead letters,
\* through restarts of the servers and whatever the engine does with the job
\* (AddJob, PollAssignments).
\* The exceptions are jobs that a queue in memory beside a store that persists held
\* at a restart, and refs that a broken connection to Redis took.  How the tasks
\* that wait for others get their refs is ReadyTasksHaveRefs in EngineSteps.
AcceptedJobsQueued ==
    \A id \in accepted \ dropped : jobs[id].fresh =>
        \A t \in DOMAIN jobs[id].tasks \ jobs[id].given :
            jobs[id].tasks[t].deps = {} => <<id, t>> \in refs

\* Among the jobs that have run since they were stored, max_running_jobs is overrun
\* by at most one per request that is handled at the same time (the count in AddJob
\* is read before the job is stored).  Jobs that an old copy or a late report makes
\* Running again come on top: they pass no check (engine.go:566, 1007).
JobQuotaNearlyHolds ==
    \A tenant \in DOMAIN site.policy.maxRunningJobs :
        site.policy.maxRunningJobs[tenant] > 0 =>
            Cardinality({id \in DOMAIN jobs :
                /\ jobs[id].req.tenant = tenant /\ jobs[id].status = "Running"
                /\ jobs[id].fresh /\ ~jobs[id].reopened}) <=
                site.policy.maxRunningJobs[tenant] + Cardinality(site.handlers) - 1

\* The fields that both checks have and in which the task differs from the request:
\* the request left them empty and the DAG did not.
OwnFields(j) ==
    {f \in InputFields : j.tasks[j.deniedTask].inputs[f] # j.req[f]}

\* A job the policy admitted fails at assignment only by a quota, by a rule that
\* names something a submission does not have (a task type, a worker's locality,
\* a GPU, network isolation), because the rule that admitted it names something an
\* assignment does not have (EvaluateAssignment passes neither job type nor
\* priority), or by a model or classification that the DAG gave the task and the
\* request did not have: otherwise the two checks do not contradict each other.
AdmittedJobsAssignable ==
    \A id \in DOMAIN jobs :
        LET d == jobs[id].denied
            Names(rule, fields) ==
                rule # 0 /\ \E f \in fields : site.policy.rules[rule].match[f] # ""
        IN jobs[id].fresh /\ ~d.allowed /\ ~d.quota =>
            \/ Names(d.rule, TaskFields \cup OwnFields(jobs[id]))
            \/ Names(jobs[id].rule, JobFields \cup OwnFields(jobs[id]))

\* A store in memory is given an ID that it has, by a caller that chose it.
Overwrites(id) ==
    /\ site.store = "memory" /\ site.direct # {}
    /\ \E h \in Handlers : handler[h].at = "store" /\ handler[h].id = id

\* A stored job is not replaced by another submission, although the counters of
\* job IDs start again with every restart, and each server has its own: its
\* request, plan and tasks stay, and no step of a submission changes anything of
\* it.  The one exception is the scheduler service on a store in memory, whose
\* callers choose the IDs (CreateJobWithTasks).
JobsAreKept ==
    [][\A id \in DOMAIN jobs \cap DOMAIN jobs' : jobs[id].fresh /\ ~Overwrites(id) =>
        /\ jobs'[id].req = jobs[id].req /\ jobs'[id].plan = jobs[id].plan
        /\ DOMAIN jobs'[id].tasks = DOMAIN jobs[id].tasks
        /\ handler' # handler => jobs'[id] = jobs[id]]_vars
============================================================================
