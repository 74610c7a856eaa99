# A TLA+ model of SPLAI

SPLAI is a control plane that turns requests into DAGs of tasks and hands the
tasks to worker agents.  This directory models its core: the job engine with its
workers, both task queues, job submission (planner, policy, router), the execution
of tasks, the audit log, the limiters and the endpoints that wait for jobs.  TLC
checks the modules on small instances; TLAPS proves the invariants of all of these for
every value of the constants.

`PROJECT.json` lists components, runs, the source lines every definition stands
for, hazards, findings and theorems.

## 1. The system

| Component | State | Operations | Module |
|---|---|---|---|
| Job engine (`internal/scheduler/engine.go`) | job, task and worker records in the store; refs in the queue | AddJob, CancelJob, ArchiveJob, RegisterWorker, Heartbeat, PollAssignments, ReportTaskResult | `JobEngine` (whole handlers), `EngineSteps` (single calls) |
| Worker agent (`worker/internal/runtime`, `heartbeat`, `registration`) | what it executes | register, heartbeat, poll, execute, report | `JobEngine` |
| In-memory queue (`internal/state/memory_queue.go`) | pending, in flight, nack counters, dead letters | Enqueue(Many), Claim, Ack, Nack, RequeueExpired, RequeueDeadLetters | `MemoryQueue`, implements `TaskQueue` |
| Redis queue (`internal/state/redis_queue.go`) | the same in six Redis keys | the same, several commands each | `RedisQueue` |
| Task executor (`worker/internal/executor`) | artifacts, model cache, sandboxes on the worker's disk | Run for each task type, ensureModelInstalled, artifact write and upload | `Executor` |
| Tool catalog (`worker/internal/tools`) | none | Load, Resolve, Render | `ToolCatalog` |
| Submission (`internal/api/server.go`, `cmd/scheduler`, AddJob) | job counters, jobs, refs | POST /v1/jobs, model prefetch, POST /v1/scheduler/jobs, restart | `JobSubmission` |
| Planner (`internal/planner`) and injected tasks | none | CompileWithMode, injectModelBackend, injectModelInstallTasks | `Planner` |
| Policy engine (`internal/policy`), model router (`internal/models`) | configuration | EvaluateSubmit, EvaluateAssignment, Route | `Policy` |
| Audit log (both stores) | chained events | AppendAuditEvent, ListAuditEvents | `AuditLog` |
| Submit limiter (`internal/api/rate_limit.go`) | times per tenant and overall | allow | `SubmitLimiter` |
| Dead-letter endpoint (`internal/api/admin_safety.go`) | times of requeues, dead letters | requeue, dry run | `DeadLetterAdmin` |
| Event stream and OpenAI-compatible wait (`internal/api/server.go`) | what each client was told | stream, poll, time out | `JobStream` |

Not modelled: authentication (stateless checks per request), CLI, observability,
wire types, and the Kubernetes operator (stubs that log); see section 5.

How they interact.  A handler of the API server or of the scheduler service
plans a DAG and calls the engine.  The engine stores records and enqueues refs of
tasks without dependencies.  A worker's poll sweeps expired leases, claims refs,
leases tasks (`tryAssign`) and settles the claims with Ack or Nack.  The worker
reports Running, executes, and reports the result; a completion enqueues the
tasks it made ready.  Nothing holds a lock over more than one store or queue call,
so handlers interleave everywhere.  Executing a task reads the artifacts of its
dependencies by path and writes its own; the model cache is shared by the workers of
a file system.

What is hard.  Reports, polls and heartbeats are HTTP calls that are delayed,
lost, or answered to a client that gave up.  Workers die at any point and return
under their name.  A lease may expire while its holder lives.  Claims outlive their
visibility timeout and are settled late.  Redis methods are sequences of commands
without a transaction.  Limits are checked against values read earlier.  Servers
restart, and number their jobs from 1 again.  Two attempts at one task write the same
file.  Child processes outlive the shell that a timeout kills.

What makes the parts correct: the engine forgets no task, gives no attempt to two
workers, fails nothing before its retries are used up, and lets a closed job stay
closed; the queues lose and duplicate nothing; plans can be run; admission,
assignment and limits agree with the configuration; an aggregation says what its
sources say, an installed model is whole, and every execution ends; the audit chain
verifies; clients that wait get a true last word.

## 2. Modules

**JobEngine** — one step per request, except that PollAssignments is a step for
sweep and claim (`PollBegin`), one per claimed ref (`TryAssignSkips`,
`TryAssignSucceeds`, `TryAssignDenied`) and one at the end (`PollEnd`, or
`PollAborts` when Ack or Nack fails).  `task[t]` has the scheduling fields of a
TaskRecord; `pending[t]` counts copies of its ref; `poll[w]` is a handler at work;
`agent[w]` the process; `net` the reports on their way.  Abstractions:

- time is relative: of `LeaseExpires` its order to now and to the attempt's
  deadline (`zero`, `future`, `past`, `overdue`);
- a LeaseID is the attempt number it contains; 0 is the empty one;
- a worker's score is a fixed part (capability, warm cache, locality) minus the
  reported load; utilization, QueueDepth and the opt-in job spread are left out;
  ties are broken in any way;
- the claim window of 32 x max refs covers the queue; visibility timeouts are
  those of `PollAborts`: every claim of a failed poll comes back;
- the store accesses of one report, heartbeat, cancel or tryAssign are one step, and
  the store does not fail: that is EngineSteps' subject;
- the model inventory of workers is left out.

**EngineSteps** — the handlers that race (polls with their sweep, claims, tryAssign and
preemption; reports, heartbeats, cancels), one store or queue call per step, two at
a time, with errors and stops between any two calls, and polls that outlast the
visibility timeout of their claims.  The code has neither a lock nor
a version around a record, so much of what JobEngine promises of whole handlers does
not hold here.  The module says exactly how far it does, with two history variables
that no step looks at: `torn` has the records that were overwritten by a copy read before
their last change, `cut` the tasks and jobs to which a handler that stopped still owed
a ref or a status.  Every property has the form "holds except for these".  DAGs have no
cycle, as in JobEngine.  `UpdateTask` and
`UpdateJob` maintain `torn`; each handler's `owes` is what `cut` gets if it stops.  A case (`Shapes`)
fixes the DAG, the retries, and which requests and faults occur.

**MemoryQueue** — every method; receipts, late Acks and Nacks, the error limit,
revival of dead letters.  Copy numbers are history annotations.
**TaskQueue** — what the engine relies on: every copy in one place, claims that are
numbered, a settlement that counts only while its claim is current, and a claim that
comes back.  MemoryQueue implements it (`ImplementsTaskQueue`), with a mapping from the
five lists and maps of the code to one place per copy.  RedisQueue does not, since broken
connections lose and duplicate refs; its own properties say where.
**RedisQueue** — the same methods, one action per Redis command; `ClaimNext`,
`NackNext` and the others say which command follows.  A connection may break after
any command (`Break`); `late`, `dropped` and `stuck` record where one did.  Undecodable payloads and read-only methods are left out.

**JobSubmission** extends **Planner** and **Policy** — handlers that number a
request, plan (perhaps waiting for an external planner), check the policy, store
and enqueue, each as a step; servers that restart; and what becomes of a stored job.
The last is a coarse view of EngineSteps: the calls by which polls, reports, sweeps,
heartbeats, preemption, cancel and archive write to store and queue (`Assign`, `Ack`,
`UpdateTask`, `UpdateJob`, `EnqueueAgain`), each a step that may come at any time after
what must precede it, with any status, since the copies of records and the lists of
tasks it was worked out from may be of any age.  So late and repeated reports, retries, and
handlers that stop between two calls or write back what they had read are all there.  What precedes:
a task is handed out only if each of its dependencies was Completed once (`done`), and is
reported, acknowledged, retried or preempted only if it was handed out (`given`).
The assignment's policy check reads model, classification and network isolation from
the task's inputs, which AddJob overwrites only where the request has a value.
`LoseRef` is a connection to Redis that breaks between two commands.

A deployment (`Sites`) chooses store and queue separately, as `NewEngineFromEnv` does
(`internal/bootstrap/controlplane.go`): both in memory, both persistent, or mixed.
A store or a queue in memory belongs to one server.  History: `dropped` has the stored
jobs whose refs went with a queue in memory or a broken connection, or whose Enqueue
failed; `known` the IDs that have been used; and in a job, `given`, `done`, the last
denial and its task, `reopened` (closed, then Running again) and `fresh` (its ID is new).
Where the store is in memory, a job whose ID had been used is outside the properties:
workers and handlers that knew the earlier job still report and write under that ID.
Postgres refuses such a job.  Task types are compared exactly (the code
ignores case and blanks); prompts, resources and the other inputs are left out.

**Executor** extends **ToolCatalog** — workers that run one task at a time: tools,
downloads, inferences, embeddings, retrievals, aggregations, then the artifact (truncate,
fill, perhaps upload) and the report.  Workers share a file system or not.
Tasks are assigned when their dependencies are Completed; a second attempt may start
while the first runs, as after an expired lease.  One field stands for an artifact's
payload, since reduceAggregationSources treats each field alone.  A task's `match` has
the documents its query and filters can find; a blank query finds none (executor.go:1125), so
there `match` is empty.  `stopped`, `lost` and
`excused` are history: they mark downloads that ended half way or were disturbed.

**AuditLog** — append (one step in memory, SELECT and INSERT in Postgres) and an
operator's paging.  A hash is the tuple of what is hashed, so it has no collisions.
`StoredTick` is the precision of the time Postgres stores; `raced` and `forked` are
history, marking appends whose SELECT failed or was overtaken by an INSERT.
**Ordering** — finite sets as sequences in an order, by ranks: the listing a page is cut
from, and what a filter loop keeps of a slice.
**SubmitLimiter**, **DeadLetterAdmin** — handlers that read the clock and then wait
for a mutex, at most `Skew` seconds.  The code does not bound this wait, so Skew is a
parameter of the properties.  `accepted`, `acceptedOf` and `admitted` are history: the
times of all requests that got through, which the limiters' own lists forget.  A confirm
token is assumed to be configured.
**JobStream** extends JobEngine — streams that read job and tasks in two calls,
and OpenAI-compatible requests that submit and poll.  What they were told becomes false
when a report of an earlier attempt is applied to a task that is already Completed or
Failed (run `terminal`).  `overruled` is history: the jobs to which this has happened.
The two invariants hold for all others.

The `...Proofs` modules have the theorems of section 4; each extends its component's
module, AdminProofs both AuditLog and DeadLetterAdmin, and JobEngineProofs also JobStream.

A type invariant is checked of JobEngine, and proved of it and of the in-memory queue; the
other modules' properties fail on ill-typed states as well.

Every `MC` module only gives values to constants.  Definitions marked *Variant* are wrong versions of a neighbour, used to see that a property can fail.

## 3. Runs

The bounds are the smallest at which every action happens and every variant is
caught; where an instance could be larger at a reasonable cost it is.

| Run | Instance | What it shows |
|---|---|---|
| memory_queue | 2 refs, 2 copies, 4 receipts, limit 2 | no copy is lost or in two places, a late receipt removes nothing, and the queue implements TaskQueue, liveness included: a claim nobody settles comes back |
| redis_queue | 1 ref, 2 copies, batches of 2, 2 concurrent calls, 2 receipts, a broken connection | interleaved commands lose nothing, duplicate only after a timeout or a broken Nack, and leave no claim unswept, except where a connection breaks between two named commands |
| engine | either 1 task with timeout and a retry on 2 mortal workers that restart, with late and lost reports, expiries and failing polls; or 2 jobs of different priority on one worker of capacity 1, with preemption and denials | forgotten tasks, stranded jobs, double holders, early failures, reopened closed jobs: none |
| engine_steps | 2 tasks (independent, chained, or of two jobs), 2 workers, 2 handlers at a time, 2 assignments, an error limit of 1, at most one mishap to go on from; six cases with retries, heartbeats, cancels, denials and failures | what breaks these properties is a write of an outdated record or a handler that stopped half way, and nothing else |
| job_stream | t1 -> t2, one worker that stays and waits for answers, a stream and a wait, denials, failures, cancels | dependents are released, every job and every stream ends, no result is undone, and the last word a client gets is true and complete |
| executor | 2 workers, 3 tasks, 2 HTTP tries; cases with two attempts, shared or separate disks, MinIO, a failing write, download or process, three kinds of catalog | aggregations read whole artifacts and say what these say; installed models are whole unless a download stopped or was disturbed; every text has its vector; every run ends unless a child process holds it |
| job_submission | five kinds of deployment: 24 requests and 8 planner answers on one server; 2 servers and the scheduler service on Postgres and Redis, 2 handlers; the same with one handler and two kinds of workers; store and queue mixed; the scheduler service alone on a store in memory, with either queue; 3 IDs, a restart | every stored plan is runnable and inference waits for the download, jobs are not replaced, accepted ones can start, the quota's overrun by jobs that were never reopened is bounded, the two policy checks disagree only over fields that one of them does not see or that the DAG filled in |
| audit | either store, 2 writers, 4 events, pages of 2, a stored time of half the clock's precision | the chain breaks only where two appends to Postgres overlap or a SELECT fails; hashes verify unless the column cut the time; paging misses nothing and, in memory, repeats nothing |
| submit_limiter | 2 tenants, window 3, skew 1, 7 seconds | at most the limit in every window shortened by the skew; no refusal without as many requests in the window lengthened by it |
| dead_letter_admin | 2 refs, 2 clients, 5 letters, 3 seconds | the rate limit holds; a dry run that sees all letters is exact |
| terminal (violation) | 1 task, 2 workers, late reports | a late report takes a job out of Completed or Failed |
| orphan (violation) | 1 task, w1 dies, w2 lives | a task whose worker dies after its Running report has no lease and is never requeued |

Two workers, two calls or two handlers suffice for the races in question: each is
between the holder of a stale value and one other actor.  Two attempts suffice to
have an old and a new one.  memory_queue needs four receipts to have two dead
letters at a limit of 2; audit needs four ticks to have two stored times, and
dead_letter_admin five letters to have one that a dry run for one ref does not see.
Each deployment of job_submission has the statuses that matter to it (`taskWrites`,
`jobWrites`), as all of them everywhere are too many states; the theorems have no such
bound.
`engine` is cut down by a constraint (`TwoWorkersOrTwoJobs`): all faults with two workers
and two jobs at once are too many states.  `engine_steps` does not go on from a state with more
mishaps than its case allows: what follows a torn record is excused for that record
anyway, and the one mishap shows that the other record is not disturbed.
redis_queue was also run once with single batches and three receipts (18 million
states), and StreamSpec with one task of two attempts, a worker that gives up on calls and
expiring leases (1.8 million states): there jobs are overruled, both invariants of
JobStream hold, and each fails without its exception.  Deadlock is not checked (`CHECK_DEADLOCK FALSE`) where bounds on attempts,
receipts, copies, time or job numbers let everybody stop.  Symmetry is used over
workers, writers, clients, servers and handlers in runs of safety properties only.

### Where code and documents disagree

`findings` in PROJECT.json quotes the documents for the two runs that end in a
violation.  `terminal` and `job_stream` belong together: nothing is overruled where a
single worker waits for its answers (`ResultsStand`), and where reports come late, only
the clients of an overruled job were told something that does not last (section 4).  Further disagreements met while modelling; the
property named says how far the code's behaviour is right:

| Behaviour | Document | Property |
|---|---|---|
| `bestWorkerForTask` scores workers that no longer exist, and a dead one with the best score keeps its tasks from the live ones | fault-injection-runbook.md:25 "Existing jobs recover and continue execution." | none yet |
| a connection that breaks between RPOP and HSET, or LREM and LPUSH, loses the ref | the same, after "Restart Redis deployment." | `RefsLostOnlyInHands`: nowhere else |
| two overlapping appends to Postgres get the same predecessor | release-hardening-checklist.md:36 "audit chain integrity" | `ChainLinked`: no other event is unlinked |
| the event hash covers nanoseconds that TIMESTAMPTZ does not keep | the same | `HashesVerify`: all others verify |
| the in-memory store cuts the page before it reverses it, so the first page has the oldest events | memory_store.go:311 "Newest first for operator-facing endpoint." | `PagingExact`: no event is missed or, in memory, repeated |
| a dry run looks at four letters per requested ref only | server.go:1200 "would_requeue=%d" | `DryRunExact`: right if that is all |
| concurrent submissions overrun `max_running_jobs`, and so do jobs that a late report (engine.go:1007) or tryAssign's old copy (566) makes Running again, even with one request at a time | complete-operations-reference.md:710 "submit-time quota check" | `JobQuotaNearlyHolds`: submissions by one each, and only those that overlap |
| tasks assigned before the first reports Running overrun `max_running_tasks` | complete-operations-reference.md:711 | none: there is no bound |
| a request's model stays although a routing rule names another | complete-operations-reference.md "overrides default model before rule application" | none |
| the default-deny policy of Example B fails every job it admits, for an assignment has no job type | complete-operations-reference.md "Example B: Strict default deny + explicit allow" | `AdmittedJobsAssignable`: only for a field that one check lacks, or that the DAG gave the task |
| a catalog that cannot be loaded becomes an empty one, in which a tool task without a command succeeds and does nothing, and the built-in `split` is missing too | executor.go:39 "surface in task errors later.", worker/README.md:109 "Built-in `split` tool is available even without a custom catalog." | `OutputsComplete`: a task without effect has no definition in what could be loaded |
| the timeout of a tool kills the shell and waits for whoever else holds its output | executor.go:1017 "hard timeout" | `RunsEnd`: every other run ends |

`JobQuotaNearlyHolds` and the limiters' properties are tight: with one less they fail.
`JobQuotaNearlyHolds` fails on one handler without the exception for reopened jobs,
`AdmittedJobsAssignable` without the one for the task's own inputs (`OwnFields`), and
`AcceptedJobsQueued` without each of its two.

What the exceptions in EngineSteps' and Executor's properties stand for.  In each of
these the property fails without its exception, and TLC shows how:

- a poll outlasts the visibility timeout of its claims, another gets the same ref, both
  lease the task, and one attempt has two
  workers (`OneHolderPerAttempt`, torn);
- a heartbeat writes a task back as it was before a report, which then seems never to
  have arrived (`ReadyTasksHaveRefs`, `RunningJobsCanProgress`, torn);
- tryAssign writes the job back as Running and undoes a cancel (`OnlyOldCopiesReopen`);
- of two reports that complete the last two tasks, the one that listed the tasks first
  writes the job last, and the job stays Running (`RunningJobsCanProgress`, torn);
- a report, a sweep or a preemption stops between writing the task and enqueueing
  refs or updating the job; the task looks settled, so nobody repeats it (cut);
- a store error in tryAssign counts as an error of the ref; at the limit the ref of a
  good task is a dead letter, which `HasRef` accepts because an operator can revive it;
- a directory with anything in it counts as an installed model, so a download
  that stopped half way is never made good (`InstalledModelsWhole`);
- the artifact's path has no attempt in it: a late attempt overwrites what a
  completed one wrote, also while it is read; both properties on loading excuse such
  files (`AggregationsTrue`, `LoadFailuresHaveCause`), so whose content is read there is open;
- aggregation refuses artifacts in MinIO, and does not find those of a worker
  with another disk (`LoadFailuresHaveCause`);
- a queue in memory beside a persistent store loses the refs of stored jobs at a
  restart, and nothing enqueues them again (`AcceptedJobsQueued`, `dropped`);
- a caller of the scheduler service replaces an accepted job in a store in memory: its
  ID stays accepted while the new tasks have no refs yet, or never get them, and reports
  about the earlier job are applied to the new one (`AcceptedJobsQueued`, `fresh`);
- with a store in memory the IDs begin again after a restart, and a worker's late report
  about the lost job is applied to the new one of the same name (`fresh`).

### Fairness

- JobEngine: a worker that is up registers, sends heartbeats, polls and works
  (its main loop and ticker do so for ever); a handler runs to its end; a request
  that is not lost is handled; time passes.  Nothing is assumed of users or of
  crashed workers.  All weak: none of these is disabled by others for ever.
- MemoryQueue: a method that holds the mutex runs to its end, time passes, and
  RequeueExpired gets the mutex again and again (strong, since calls of other
  methods hold it in between; every poll makes this call).
- JobStream: the engine's fairness, and a stream whose client stays takes its next
  step.
- Executor: a worker whose Run can go on does so.  Requests to model servers and
  retrieval backends (postJSON) have a client timeout and each shell is killed in time, so these
  steps end; a download and children of a shell have no limit, and may be `stuck`.  The
  upload to MinIO (executor.go:619-647) has no timeout of this repository: that it ends,
  with the artifact or an error, is assumed of the client library and the network.  Nothing is assumed of
  assignments or crashes.
- EngineSteps, RedisQueue, JobSubmission and the limiters have safety properties only.

## 4. Proofs

Checked by TLAPS, for all constants that satisfy the assumptions named in the modules.

| Module | Theorem | Statement |
|---|---|---|
| JobEngineProofs | TypeCorrect | Spec => []TypeOK |
| | NoTaskForgotten | Spec => []ReadyTasksHaveRefs |
| | LeasesMatchAssignments | Spec => []AssignedIffLeased |
| | AttemptsHaveOneHolder | Spec => []OneHolderPerAttempt |
| | RunningJobsNotStranded | Spec => []RunningJobsCanProgress |
| | FailuresAreExhausted | Spec => []FailedMeansExhausted |
| | ClosedIsFinal | Spec => ClosedJobsStayClosed |
| | StreamsShowTasks | StreamSpec => []CompletedStreamsShowTasks |
| | LastWordIsTrue | StreamSpec => []LastWordHolds |
| EngineStepsProofs | AttemptsHaveOneHolder | Spec => []OneHolderPerAttempt |
| | ReadyTasksKeepRefs | Spec => []ReadyTasksHaveRefs |
| | RunningJobsKeepGoing | Spec => []RunningJobsCanProgress |
| | ReopenedByOldCopies | Spec => OnlyOldCopiesReopen |
| MemoryQueueProofs | TypesHold | Spec => []TypeOK |
| | CopiesAreSingle | Spec => []NoCopyInTwoPlaces |
| | CopiesAreKept | Spec => []NoCopyLost |
| | QueueImplements | Spec => Abstract!SafetySpec |
| RedisQueueProofs | ClaimsAlwaysSwept | Spec => []ClaimsAreSwept |
| | RefsKept | Spec => []RefsLostOnlyInHands |
| | NoEarlyDuplicates | Spec => []NoDuplicateBeforeTimeout |
| JobSubmissionProofs | JobsRunnable | Spec => []StoredJobsRunnable |
| | DownloadsComeFirst | Spec => []InstallFirst |
| | AcceptedJobsWaitForNobody | Spec => []AcceptedJobsQueued |
| | OverrunIsBounded | Spec => []JobQuotaNearlyHolds |
| | ChecksDoNotContradict | Spec => []AdmittedJobsAssignable |
| | JobsNeverReplaced | Spec => JobsAreKept |
| ExecutorProofs | AggregationsAreTrue | Spec => []AggregationsTrue |
| | LoadFailuresExplained | Spec => []LoadFailuresHaveCause |
| | InstalledModelsAreWhole | Spec => []InstalledModelsWhole |
| | OutputsAreComplete | Spec => []OutputsComplete |
| AdminProofs | ChainIsLinked | Spec => []ChainLinked |
| | HashesAreVerifiable | Spec => []HashesVerify |
| | PagingIsExact | Spec => []PagingExact |
| | RequeuesAreLimited | RequeueSpec => []RequeueRateHolds |
| | DryRunsAreExact | RequeueSpec => []DryRunExact |
| SubmitLimiterProofs | LimitsAlwaysHold | Spec => []LimitsHold |
| | RefusalsHaveReasons | Spec => RefusalsJustified |

**JobEngine.**  `TypeOK` is inductive together with `BusyAgentsHaveWork` (a busy
process has a current assignment, so `Head` is defined).  `ReadyTasksHaveRefs` needs
the rest of the invariant

    IInv == TypeInv /\ IdlePollsAreEmpty /\ NewTasksUntouched /\ CanceledInClosedJobs
            /\ RunningJobsAreOpen /\ AssignedIffLeased /\ OneHolderPerAttempt
            /\ ReadyTasksHaveRefs

A ref leaves the queue with a poll (so polls that are off hold none:
IdlePollsAreEmpty), or because its task was assigned (so a task that is Queued again
was requeued by somebody who enqueued it: this needs AssignedIffLeased, for the sweep
finds tasks by their lease).  AddJob relies on the tasks of a new job being untouched;
a completion relies on a Running job's tasks not being Canceled or Failed
(CanceledInClosedJobs, RunningJobsAreOpen).  OneHolderPerAttempt is inductive over
everything that carries an attempt number: records, poll results, queues of processes,
reports.  RunningJobsCanProgress follows from IInv and `AcyclicAssumption`: among the
tasks that are not Completed one depends on none of the others, so it is with a
worker, or ready and by ReadyTasksHaveRefs queued.

**JobStream.**  `StreamInv` adds to the types: a job that is not overruled is Completed
only with all its tasks Completed, and Failed only with a Failed one (SettledAt); what a
stream has read and not yet sent, or has closed with, and what a request was answered
still hold (HandlerTrue, WaitTrue).  Two lemmas about the engine carry it: only a report
changes a settled task (OnlyReportsUndo), and there are six ways a step treats a job's status
(JobMoves).  Computing the status from tasks that keep their results gives a terminal
job its old status again (TerminalKept), and so the second of a stream's two reads finds the
tasks as they were when the first found the job Completed.

**EngineSteps.**  The properties speak of moments when no handler is at work, so the
invariant says what a handler in the middle of its calls has promised: `HandlerOK`
gives for every program counter what the handler has read and holds, and `Promises`
ties this to the records.  A copy that is not outdated has the record's attempt
(CopiesCurrent), and the record counts the attempts given out (AttemptsCounted); a job
that a handler may write back over what it has read is not canceled (JobsOpen), and
tasks are canceled after their job (CancelsJobFirst); a task that is ready, or is
about to be written as Queued, has a ref, a poll that will give one back or a handler
that will enqueue it (ReadyTracked, RetriesTracked); a Running job whose tasks are
settled has a handler that owes it a status, also while another is about to write
Running (SettledOwed, ReopenedOwed); each unless the record is torn or cut.  With all
handlers idle nobody owes anything, and the properties follow, RunningJobsCanProgress
again with the DAG's lack of cycles.

**MemoryQueue.**  `QInv` is the three properties and: a copy's number was given out
and is its own (IdsKnown), the dead letters a revival has passed are not those it has
yet to reach (KeptApart), and a receipt in somebody's hands names the copy it was
issued for or nothing that is in flight (HandsKnown), which is why a late Ack or Nack
does no harm.  QueueImplements then maps each step to one of TaskQueue or a stutter,
action by action; `Abstract!SafetySpec` is TaskQueue without fairness.

**RedisQueue.**  `CoreInv` says which command each call may send next, that receipts
belong to one call, and that a lapsed receipt's copy is late.  The conservation of
copies (`PlacesInv`) cannot count claims as they are: a Nack pushes the copy back and
deletes the claim afterwards.  A claim that some call is about to delete is *doomed*,
the others *firm*; a copy that is neither acked nor dropped is pending, dead, in hands
or in a firm claim, and unless it is late, in one of these only.  One lemma per
command shows this.

**JobSubmission.**  The invariant

    Inv == site \in Sites /\ JobsInv /\ HandlersInv /\ NumberInv /\ OnceInv
           /\ QueueInv /\ QuotaInv

carries a plan's soundness from the planner to the record: lemmas on Planner's
operators show that each mode and injection keeps a sound plan ordered (every nonempty
set of its IDs has one that depends on none of the set), HandlersInv has it for
requests on their way and JobsInv for stored jobs, with "what was handed out had its
dependencies completed once" and "the last denial is one that the rules give for the
denied task's inputs".  Two lemmas about Policy compare the matches of both checks rule by
rule: they see the same request except for the fields of one check and those in which
the task's inputs differ.  The calls that write to a stored job have one lemma
(JobMovesInv): they keep its request, plan, dependencies and inputs, `given` and `done` only
grow, and nothing makes it Running without `reopened`.
NumberInv: one server's numbers are new as long as its store lives; OnceInv: a job with a
new ID has one handler and is accepted when that enqueues.  QueueInv has for every task
without dependencies that was never handed out the ref, or a handler about to
enqueue it, or a restart that cut this handler off; refs leave the queue only by an
Ack, and so for tasks that were handed out, or into `dropped`.  QuotaInv counts admitted
requests that are about to be stored like running jobs; without them the bound is not
inductive.  The theorems assume nothing about which statuses are written, or when.

**Executor.**  The invariant

    Inv == Domains /\ RunsInv /\ AttemptsApart /\ DoneInv /\ FilesInv /\ ModelsInv

says of every execution what it has made so far (`Sound`: the sources, the vectors left
to compute, the model it found) and what it relies on (`Placed`: its dependencies are
completed, its sources come from attempts that exist, and the file of a task with one
attempt is as that attempt left it).  The loop of an aggregation keeps "every dependency
is still to do or among the sources".  Merging is a fold over the sources: the least
counterexample shows that the fold's recursion is defined, so its result is reached
source by source, and what the first i sources say is then an invariant of this sequence.
FilesInv: a task completed by its only attempt has a whole artifact where that attempt
ran, so a load fails for one of the named causes.  ModelsInv: a model that is partly there has
a download at work or one that stopped, so whoever finds a directory and does not
download is excused or finds it whole.

**AuditLog.**  A call that has read the last hash and was not raced since still has
it; hashes of stored events are those of their fields before the column cut the time.
Paging is a statement about ranks: an event's position in the listing is the number of
matching events before it.  In memory, appends leave positions as they are, and the pages
so far are the events of rank below the offset.  In Postgres, newest first, an append
moves positions up and never down, so an event of `there` that was not yet read still
has a rank of at least the offset; repeats are possible, gaps are not.  `ReaderInv` says
this of a reader in the middle of its pages.

**DeadLetterAdmin.**  `AdminInv`: a waiting request's time is at most Skew old; for
every second of the current window the limiter's list has at least as many
times from there on as were admitted (`Covered`); and no span so far is too full
(`Bounded`).  A span with the time of a new admission starts within the window, so it
has at most as many admissions as the list is long.  DryRunExact compares two greedy
countings, of the refs that find a letter and of the letters that find a ref: both count
the pairs (ref, n) such that the n-th occurrence exists on both sides, by a bijection.

**SubmitLimiter.**  `Tracks`: each list is the end of its history, what was cut off
had left the window, and no time is later than a following one by more than Skew.  The
number of requests in a window is then bounded by the length of the list.

Assumptions beyond the types of constants.  Dependencies stay within a job, and DAGs
in JobEngine and EngineSteps have no cycle: JobsRunnable shows this of every sound
plan, while AddJob does not check DAGs of an external planner or of the scheduler
service's callers.  In JobSubmission servers share a store or queue only if it
persists, and callers of the scheduler service cannot ask for an installation.
RedisQueue has finitely many clients.  In SubmitLimiter and DeadLetterAdmin a request
waits for the mutex less than a window.  In Executor a task depends on tasks with smaller
numbers, and the documents a search matches are finitely many.

JobEngine's theorems are about whole handlers.  EngineSteps qualifies them: under
overlapping handlers they hold up to torn and cut records.

Only model-checked:

- liveness, the liveness of TaskQueue in `ImplementsTaskQueue` included (fairness and
  ENABLED are outside the prover);
- ResultsStand, which is true of one worker that takes one task at a time and waits for
  its answers, and not where calls are given up and leases expire;
- the two properties that do not hold.

## 5. Not covered

| What | Why |
|---|---|
| Authentication (`internal/api/auth.go`) | parses tokens and compares them per request; no state, no order of events |
| CLI (`cmd/splaictl`) | an HTTP client for people |
| Kubernetes operator | handlers that log and return |
| Observability, wire types | no decision reads them |
| The worker's model inventory after a download, the job-spread part of the score, utilization | inputs of a score of which only the comparison matters; ties and orders are free in the model |
| Similarities of vectors and documents | floating point; a search in the model finds some of the matching documents |
| Listing filters of the stores, artifact downloads, dashboards | read only |

Described and not checked:

- engine.go:617: nothing ages a WorkerRecord, so a dead worker with the best score keeps
  its tasks from the live ones.  JobEngine has this behaviour, and so no liveness of
  jobs is claimed with two workers; the orphan run is about the same line of the runbook.
- engine.go:488: polls of workers that are not chosen claim the whole queue and give it
  back.  That the chosen worker ever finds it needs an assumption on the timing of
  polls that the code does not make.
- engine.go:505: max_running_tasks counts tasks that have reported Running, and there is
  no bound on those that have not.

## 6. Plan

1. An abstract job (submitted, open, terminal) implemented by JobEngine where no report
   is delayed, and JobEngine's use of the queue as an instance of TaskQueue.
2. RedisQueue without broken connections and visibility timeouts as an implementation of
   TaskQueue; with a timeout a late Nack pushes a second copy, which TaskQueue has no
   room for.
