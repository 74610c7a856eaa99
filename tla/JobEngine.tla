----------------------------- MODULE JobEngine -----------------------------
(***************************************************************************)
(* The control plane's job engine (internal/scheduler/engine.go) together  *)
(* with the worker agents that poll it (worker/internal/runtime).          *)
(*                                                                         *)
(* Jobs are DAGs of tasks.  A worker polls, the engine claims refs from    *)
(* the task queue and leases tasks to the worker, the worker reports a     *)
(* Running and a final status per attempt over HTTP, and expired leases    *)
(* are requeued at the next poll of anybody.                               *)
(*                                                                         *)
(* Granularity.  AddJob, CancelJob, ArchiveJob, Heartbeat and              *)
(* ReportTaskResult are one step each.  PollAssignments is one step for    *)
(* the sweep of expired leases and the claim, one step per claimed ref     *)
(* (tryAssign) and one for the final Ack/Nack, and any other request may   *)
(* run between them.  Requests of workers are delayed, overtaken and lost  *)
(* as far as Faults allows.                                                *)
(*                                                                         *)
(* Time is relative: of LeaseExpires only its order to the current time    *)
(* and to the attempt's deadline is kept.                                  *)
(***************************************************************************)
EXTENDS Naturals, Sequences

CONSTANTS
    Jobs, Tasks, Workers,
    JobOf,          \* task -> its job
    Deps,           \* task -> the tasks it depends on
    MaxRetries,     \* task -> TaskRecord.MaxRetries
    HasTimeout,     \* task -> TimeoutSec > 0
    Rank,           \* job -> priorityRank of its priority, 1..3
    Eligible,       \* task -> workers that pass bestWorkerForTask's filters
    Affinity,       \* task -> worker -> the part of the score that is fixed
    Capacity,       \* worker -> workerCapacity
    MayDeny,        \* tasks the assignment policy may deny
    Preempt,        \* Options.Preempt
    MaxAssign,      \* max_tasks of a poll (MaxParallelTasks)
    MaxAttempt,     \* bound: attempts per task
    Mortal,         \* workers that may crash
    Faults,         \* other faults that may happen, see FaultKinds
    NoWorker, NoKey \* the empty WorkerID and the empty LastReportKey

\* restart: a crashed worker comes back under its name; timeout: a worker's HTTP
\* client gives up on a request that is still on its way; loss: a request or
\* the answer to it is lost; expiry: the lease of a live worker runs out (late
\* heartbeats); abort: a poll handler ends with an error before it settles its
\* claims.
FaultKinds == {"restart", "timeout", "loss", "expiry", "abort"}

TasksOf(j) == {t \in Tasks : JobOf[t] = j}

ASSUME JobsAssumption ==
    /\ JobOf \in [Tasks -> Jobs]
    /\ Rank \in [Jobs -> 1..3]
ASSUME TasksAssumption ==
    /\ Deps \in [Tasks -> SUBSET Tasks]
    /\ \A t \in Tasks : \A d \in Deps[t] : JobOf[d] = JobOf[t]
    /\ MaxRetries \in [Tasks -> Nat]
    /\ HasTimeout \in [Tasks -> BOOLEAN]
    /\ MayDeny \subseteq Tasks
\* DAGs have no cycle: every set of tasks has one that depends on none of the
\* others.  The planner's own templates are chains; AddJob does not check a DAG
\* that an external planner returns.
ASSUME AcyclicAssumption ==
    \A S \in SUBSET Tasks : S # {} => \E t \in S : Deps[t] \cap S = {}
ASSUME WorkersAssumption ==
    /\ Eligible \in [Tasks -> SUBSET Workers]
    /\ Affinity \in [Tasks -> [Workers -> Nat]]
    /\ Capacity \in [Workers -> Nat]
    /\ NoWorker \notin Workers
ASSUME OptionsAssumption ==
    /\ Preempt \in BOOLEAN
    /\ MaxAssign \in Nat /\ MaxAssign > 0
    /\ MaxAttempt \in Nat
    /\ Mortal \subseteq Workers
    /\ Faults \subseteq FaultKinds

VARIABLES
    job,        \* job -> JobRecord.Status, "none" before AddJob
    task,       \* task -> the scheduling fields of its TaskRecord
    pending,    \* task -> copies of its ref waiting in the queue
    poll,       \* worker -> its PollAssignments handler
    registered, \* workers that have a WorkerRecord; records are never removed
    load,       \* worker -> WorkerRecord.RunningTasks, as last reported
    agent,      \* worker -> the worker process
    net         \* reports sent and not yet handled

vars == <<job, task, pending, poll, registered, load, agent, net>>

JobStates == {"none", "Queued", "Running", "Completed", "Failed", "Canceled", "Archived"}
TaskStates == {"Queued", "Assigned", "Running", "Completed", "Failed", "Canceled"}

\* LeaseExpires: zero; in the future; past; or past together with the
\* attempt's deadline (lease start + TimeoutSec).
Expiries == {"zero", "future", "past", "overdue"}

\* A LeaseID names worker, task, attempt and time.  The attempt alone
\* identifies it among the leases of a task; 0 is the empty LeaseID.
Leases == Nat

\* The idempotency key worker:job:task:attempt, with or without ":running".
Keys == [worker : Workers, attempt : Nat, running : BOOLEAN]

TaskRecords ==
    [status : TaskStates, worker : Workers \cup {NoWorker}, lease : Leases,
     expires : Expiries, attempt : Nat, key : Keys \cup {NoKey}]

Reports ==
    [task : Tasks, worker : Workers, attempt : Nat,
     status : {"Running", "Completed", "Failed"}]

Assignments == [task : Tasks, attempt : Nat]

\* A poll handler: how many claims of each ref tryAssign has not seen, are to
\* be nacked (rest) and acked (acks), and the assignments made so far.
PollRecords ==
    [on : BOOLEAN, claims : [Tasks -> Nat], rest : [Tasks -> Nat],
     acks : [Tasks -> Nat], got : Seq(Assignments)]
NoRefs == [t \in Tasks |-> 0]
PollOff == [on |-> FALSE, claims |-> NoRefs, rest |-> NoRefs, acks |-> NoRefs,
            got |-> <<>>]

\* A worker process: its main loop polls, then for each assignment reports
\* Running, executes, and reports the result.
Stages == {"idle", "polling", "starting", "executing", "reporting"}
AgentRecords == [up : BOOLEAN, stage : Stages, queue : Seq(Assignments)]
AgentDown == [up |-> FALSE, stage |-> "idle", queue |-> <<>>]

Busy(w) == agent[w].stage \in {"starting", "executing", "reporting"}

NewTask ==
    [status |-> "Queued", worker |-> NoWorker, lease |-> 0, expires |-> "zero",
     attempt |-> 0, key |-> NoKey]

Init ==
    /\ job = [j \in Jobs |-> "none"]
    /\ task = [t \in Tasks |-> NewTask]
    /\ pending = NoRefs
    /\ poll = [w \in Workers |-> PollOff]
    /\ registered = {}
    /\ load = [w \in Workers |-> 0]
    /\ agent = [w \in Workers |-> AgentDown]
    /\ net = {}

---------------------------------------------------------------------------
isTerminal(status) == status \in {"Completed", "Failed", "Canceled", "Archived"}

\* Over the task records tk, so that it can be asked of the next state.
dependenciesCompleted(t, tk) == \A d \in Deps[t] : tk[d].status = "Completed"

\* The tail of ReportTaskResult, and reconcileJobStatus: the status a job gets
\* from its task records.
StatusFromTasks(j, tk) ==
    IF \E t \in TasksOf(j) : tk[t].status = "Failed" THEN "Failed"
    ELSE IF TasksOf(j) # {} /\ \A t \in TasksOf(j) : tk[t].status = "Completed"
         THEN "Completed" ELSE "Running"

Enqueue(q, refs) == [t \in Tasks |-> q[t] + IF t \in refs THEN 1 ELSE 0]

AddBags(p, q) == [t \in Tasks |-> p[t] + q[t]]

---------------------------------------------------------------------------
\* AddJob: all tasks are stored Queued and the ones without dependencies are
\* enqueued.  (A submission the policy denies changes nothing.)
AddJob(j) ==
    /\ job[j] = "none"
    /\ job' = [job EXCEPT ![j] = IF TasksOf(j) = {} THEN "Queued" ELSE "Running"]
    /\ pending' = Enqueue(pending, {t \in TasksOf(j) : Deps[t] = {}})
    /\ UNCHANGED <<task, poll, registered, load, agent, net>>

\* CancelJob: the job, and its tasks that are Queued or Running (not Assigned).
CancelJob(j) ==
    /\ job[j] # "none"
    /\ ~isTerminal(job[j])
    /\ job' = [job EXCEPT ![j] = "Canceled"]
    /\ task' = [t \in Tasks |->
                  IF JobOf[t] = j /\ task[t].status \in {"Queued", "Running"}
                  THEN [task[t] EXCEPT !.status = "Canceled", !.worker = NoWorker,
                                       !.lease = 0, !.expires = "zero"]
                  ELSE task[t]]
    /\ UNCHANGED <<pending, poll, registered, load, agent, net>>

ArchiveJob(j) ==
    /\ isTerminal(job[j])
    /\ job' = [job EXCEPT ![j] = "Archived"]
    /\ UNCHANGED <<task, pending, poll, registered, load, agent, net>>

---------------------------------------------------------------------------
\* RegisterWorker, called by a worker process when it starts; the upsert resets
\* RunningTasks.
RegisterWorker(w) ==
    /\ ~agent[w].up
    /\ w \notin registered \/ "restart" \in Faults
    /\ agent' = [agent EXCEPT ![w] = [AgentDown EXCEPT !.up = TRUE]]
    /\ registered' = registered \cup {w}
    /\ load' = [load EXCEPT ![w] = 0]
    /\ UNCHANGED <<job, task, pending, poll, net>>

\* extendWorkerLeasesWithTimeout: leases of w that have not run out move to
\* min(now + lease, deadline).
Extended(w, t) ==
    IF /\ task[t].worker = w
       /\ task[t].status \in {"Running", "Assigned"}
       /\ task[t].lease # 0
       /\ task[t].expires \notin {"past", "overdue"}
    THEN [task[t] EXCEPT !.expires = "future"] ELSE task[t]

Heartbeat(w) ==
    /\ agent[w].up
    /\ w \in registered
    /\ load' = [load EXCEPT ![w] = IF Busy(w) THEN 1 ELSE 0]
    /\ task' = [t \in Tasks |-> Extended(w, t)]
    /\ UNCHANGED <<job, pending, poll, registered, agent, net>>

\* A lease, or the backoff of a Queued task, runs out.  A live worker's
\* heartbeats keep its leases in the future unless they are late.
LeaseLapses(t) ==
    /\ task[t].expires = "future"
    /\ task[t].lease # 0 => \/ "expiry" \in Faults
                            \/ ~agent[task[t].worker].up
    /\ task' = [task EXCEPT ![t].expires = "past"]
    /\ UNCHANGED <<job, pending, poll, registered, load, agent, net>>

\* The deadline of an attempt passes; no lease outlives it.
DeadlinePasses(t) ==
    /\ HasTimeout[t]
    /\ task[t].lease # 0
    /\ task[t].expires \in {"future", "past"}
    /\ task' = [task EXCEPT ![t].expires = "overdue"]
    /\ UNCHANGED <<job, pending, poll, registered, load, agent, net>>

---------------------------------------------------------------------------
\* ListExpiredLeasedTasks.
Expired(t) ==
    /\ task[t].status \in {"Running", "Assigned"}
    /\ task[t].lease # 0
    /\ task[t].expires \in {"past", "overdue"}

\* Variant: the expired attempt is given back.
RequeuedUncounted(t) ==
    [task[t] EXCEPT !.status = "Queued", !.worker = NoWorker, !.lease = 0,
                    !.expires = "zero", !.attempt = @ - 1]

\* Variant: the LeaseID is not cleared.
RequeuedKeepsLease(t) ==
    [task[t] EXCEPT !.status = "Queued", !.worker = NoWorker, !.expires = "zero"]

\* What requeueExpiredLeases makes of an expired task: a timed out attempt
\* backs off, or fails the task when no retry is left.
Requeued(t) ==
    LET timedOut == task[t].expires = "overdue"
    IN  IF timedOut /\ task[t].attempt > MaxRetries[t]
        THEN [task[t] EXCEPT !.status = "Failed", !.worker = NoWorker, !.lease = 0]
        ELSE [task[t] EXCEPT !.status = "Queued", !.worker = NoWorker, !.lease = 0,
                             !.expires = IF timedOut THEN "future" ELSE "zero"]

Swept == [t \in Tasks |-> IF Expired(t) THEN Requeued(t) ELSE task[t]]
SweptRefs == {t \in Tasks : Expired(t) /\ Requeued(t).status = "Queued"}
\* Variant: the jobs of swept tasks are not reconciled.
SweptJobKept(j) == job[j]
SweptJob(j) ==
    IF job[j] \notin {"Canceled", "Archived"} /\ \E t \in TasksOf(j) : Expired(t)
    THEN StatusFromTasks(j, Swept) ELSE job[j]

\* PollAssignments up to the claim: sweep the expired leases of all workers,
\* then claim the refs in the queue (the window of 32 * max refs is assumed to
\* cover it).
PollBegin(w) ==
    /\ agent[w].up /\ agent[w].stage = "idle" /\ agent[w].queue = <<>>
    /\ w \in registered
    /\ ~poll[w].on
    /\ task' = Swept
    /\ job' = [j \in Jobs |-> SweptJob(j)]
    /\ poll' = [poll EXCEPT ![w] = [PollOff EXCEPT !.on = TRUE,
                                      !.claims = Enqueue(pending, SweptRefs)]]
    /\ pending' = NoRefs
    /\ agent' = [agent EXCEPT ![w].stage = "polling"]
    /\ UNCHANGED <<registered, load, net>>

\* Variant: a claim is not taken off the list.
NextClaimAgain(w, t) ==
    /\ poll[w].on
    /\ Len(poll[w].got) < MaxAssign
    /\ \A u \in Tasks : poll[w].claims[u] > 0 => Rank[JobOf[u]] <= Rank[JobOf[t]]

\* The ref tryAssign is called with next: claims are sorted by priority, and
\* creation time and a hash order equal priorities in some way.
NextClaim(w, t) ==
    /\ poll[w].on
    /\ poll[w].claims[t] > 0
    /\ Len(poll[w].got) < MaxAssign
    /\ \A u \in Tasks : poll[w].claims[u] > 0 => Rank[JobOf[u]] <= Rank[JobOf[t]]

\* Variant: any LeaseExpires of a Queued task delays it.
AssignableUnlessDelayed(t) ==
    /\ job[JobOf[t]] = "Running"
    /\ task[t].status = "Queued"
    /\ task[t].expires = "zero"
    /\ dependenciesCompleted(t, task)

\* The guards of tryAssign that depend on the task alone.
Assignable(t) ==
    /\ job[JobOf[t]] = "Running"
    /\ task[t].status = "Queued"
    /\ task[t].expires # "future"
    /\ dependenciesCompleted(t, task)

\* bestWorkerForTask looks at every worker that ever registered.  The score is
\* a fixed part (capability, warm cache, locality; utilization is taken as
\* constant and the opt-in job spread left out) minus a penalty for the
\* reported load.
Candidates(t) == {w \in Eligible[t] : w \in registered}
BestWorkers(t) ==
    {w \in Candidates(t) :
        \A v \in Candidates(t) : Affinity[t][w] + load[v] >= Affinity[t][v] + load[w]}

\* bestWorkerID is empty or w.
ChosenFor(w, t) == Candidates(t) = {} \/ w \in BestWorkers(t)
\* bestWorkerID is another worker.
OtherChosen(w, t) == BestWorkers(t) \ {w} # {}

workerAtCapacity(w) == Capacity[w] > 0 /\ load[w] >= Capacity[w]

\* The tasks tryPreemptLowerPriority may take from w for t.
Victims(w, t) ==
    {v \in Tasks : /\ task[v].worker = w
                   /\ task[v].status \in {"Running", "Assigned"}
                   /\ Rank[JobOf[v]] < Rank[JobOf[t]]}

NeedsVictim(w) == Preempt /\ workerAtCapacity(w)

\* The assignment itself: a new attempt under a new lease.
Leased(w, rec) ==
    [rec EXCEPT !.status = "Assigned", !.worker = w, !.attempt = @ + 1,
                !.lease = rec.attempt + 1, !.expires = "future"]

\* PollAssignments' bookkeeping for a claim of t: to be nacked, or acked with
\* the assignment a.
NackClaim(p, t) == [p EXCEPT !.claims[t] = @ - 1, !.rest[t] = @ + 1]
AckClaim(p, t, a) ==
    [p EXCEPT !.claims[t] = @ - 1, !.acks[t] = @ + 1, !.got = Append(@, a)]

\* tryAssign returns not ready: the claim will be nacked.
TryAssignSkips(w, t) ==
    /\ NextClaim(w, t)
    /\ \/ ~Assignable(t)
       \/ OtherChosen(w, t)
       \/ NeedsVictim(w) /\ Victims(w, t) = {}
    /\ poll' = [poll EXCEPT ![w] = NackClaim(@, t)]
    /\ UNCHANGED <<job, task, pending, registered, load, agent, net>>

\* What tryAssign preempts before it assigns t: one victim, or nothing when it
\* need not preempt.
VictimSets(w, t) == IF NeedsVictim(w) THEN {{v} : v \in Victims(w, t)} ELSE {{}}

AfterPreempt(V) ==
    [t \in Tasks |->
        IF t \in V
        THEN [task[t] EXCEPT !.status = "Queued", !.worker = NoWorker, !.lease = 0,
                             !.expires = "zero"]
        ELSE task[t]]

\* Variant: the victim's ref is not enqueued.
TryAssignDropsVictim(w, t, V) ==
    /\ NextClaim(w, t)
    /\ Assignable(t)
    /\ ChosenFor(w, t)
    /\ task[t].attempt < MaxAttempt
    /\ task' = [AfterPreempt(V) EXCEPT ![t] = Leased(w, @)]
    /\ poll' = [poll EXCEPT ![w] =
                  AckClaim(@, t, [task |-> t, attempt |-> task[t].attempt + 1])]
    /\ UNCHANGED <<job, pending, registered, load, agent, net>>

TryAssignSucceeds(w, t, V) ==
    /\ NextClaim(w, t)
    /\ Assignable(t)
    /\ ChosenFor(w, t)
    /\ task[t].attempt < MaxAttempt
    /\ task' = [AfterPreempt(V) EXCEPT ![t] = Leased(w, @)]
    /\ pending' = Enqueue(pending, V)
    /\ poll' = [poll EXCEPT ![w] =
                  AckClaim(@, t, [task |-> t, attempt |-> task[t].attempt + 1])]
    /\ UNCHANGED <<job, registered, load, agent, net>>

\* The policy denies the assignment: task and job fail.
TryAssignDenied(w, t, V) ==
    /\ NextClaim(w, t)
    /\ Assignable(t)
    /\ ChosenFor(w, t)
    /\ t \in MayDeny
    /\ task' = [AfterPreempt(V) EXCEPT ![t] = [@ EXCEPT !.status = "Failed"]]
    /\ job' = [job EXCEPT ![JobOf[t]] = "Failed"]
    /\ pending' = Enqueue(pending, V)
    /\ poll' = [poll EXCEPT ![w] = NackClaim(@, t)]
    /\ UNCHANGED <<registered, load, agent, net>>

\* Ack the assigned claims, nack the others, answer the worker if it still
\* waits for this answer.
PollEnd(w) ==
    /\ poll[w].on
    /\ poll[w].claims = NoRefs \/ Len(poll[w].got) >= MaxAssign
    /\ pending' = AddBags(pending, AddBags(poll[w].claims, poll[w].rest))
    /\ poll' = [poll EXCEPT ![w] = PollOff]
    /\ agent' = IF agent[w].stage = "polling"
                THEN [agent EXCEPT ![w].stage = "idle", ![w].queue = poll[w].got]
                ELSE agent
    /\ UNCHANGED <<job, task, registered, load, net>>

\* The handler fails before it settles its claims: no assignment is returned,
\* and every claim comes back when its visibility timeout lapses.
PollAborts(w) ==
    /\ "abort" \in Faults
    /\ poll[w].on
    /\ pending' = AddBags(pending, AddBags(poll[w].acks, AddBags(poll[w].claims, poll[w].rest)))
    /\ poll' = [poll EXCEPT ![w] = PollOff]
    /\ agent' = IF agent[w].stage = "polling"
                THEN [agent EXCEPT ![w].stage = "idle"] ELSE agent
    /\ UNCHANGED <<job, task, registered, load, net>>

---------------------------------------------------------------------------
\* The worker process (pollAndRun).
Current(w) == Head(agent[w].queue)
ReportOf(w, status) ==
    [task |-> Current(w).task, worker |-> w, attempt |-> Current(w).attempt, status |-> status]

\* Variant: the worker does not wait for the answer to a report.
CallReturnsAtOnce(w, statuses) == agent[w].up

\* A report's HTTP call returns when the engine has handled it or it was lost;
\* with a client timeout it may return earlier.
CallReturns(w, statuses) ==
    \/ "timeout" \in Faults
    \/ \A s \in statuses : ReportOf(w, s) \notin net

PollTimesOut(w) ==
    /\ {"timeout", "loss"} \cap Faults # {}
    /\ agent[w].stage = "polling"
    /\ agent' = [agent EXCEPT ![w].stage = "idle"]
    /\ UNCHANGED <<job, task, pending, poll, registered, load, net>>

StartTask(w) ==
    /\ agent[w].up /\ agent[w].stage = "idle" /\ agent[w].queue # <<>>
    /\ net' = net \cup {ReportOf(w, "Running")}
    /\ agent' = [agent EXCEPT ![w].stage = "starting"]
    /\ UNCHANGED <<job, task, pending, poll, registered, load>>

Execute(w) ==
    /\ agent[w].stage = "starting"
    /\ CallReturns(w, {"Running"})
    /\ agent' = [agent EXCEPT ![w].stage = "executing"]
    /\ UNCHANGED <<job, task, pending, poll, registered, load, net>>

FinishTask(w, status) ==
    /\ agent[w].stage = "executing"
    /\ net' = net \cup {ReportOf(w, status)}
    /\ agent' = [agent EXCEPT ![w].stage = "reporting"]
    /\ UNCHANGED <<job, task, pending, poll, registered, load>>

NextAssignment(w) ==
    /\ agent[w].stage = "reporting"
    /\ CallReturns(w, {"Completed", "Failed"})
    /\ agent' = [agent EXCEPT ![w].stage = "idle", ![w].queue = Tail(@)]
    /\ UNCHANGED <<job, task, pending, poll, registered, load, net>>

Crash(w) ==
    /\ w \in Mortal
    /\ agent[w].up
    /\ agent' = [agent EXCEPT ![w] = AgentDown]
    /\ UNCHANGED <<job, task, pending, poll, registered, load, net>>

ReportLost(r) ==
    /\ "loss" \in Faults
    /\ net' = net \ {r}
    /\ UNCHANGED <<job, task, pending, poll, registered, load, agent>>

---------------------------------------------------------------------------
\* ReportTaskResult.
KeyOf(r) == [worker |-> r.worker, attempt |-> r.attempt, running |-> r.status = "Running"]

\* Variant: closed jobs are not looked at.
IgnoredWhenStale(r) ==
    \/ task[r.task].key = KeyOf(r)
    \/ task[r.task].lease # 0 /\ task[r.task].lease # r.attempt

\* The early returns: a closed job, a repeated key, a stale lease.
Ignored(r) ==
    \/ job[JobOf[r.task]] \in {"Canceled", "Archived"}
    \/ task[r.task].key = KeyOf(r)
    \/ task[r.task].lease # 0 /\ task[r.task].lease # r.attempt

\* Every accepted report clears the lease.
Settled(r) ==
    [task[r.task] EXCEPT !.key = KeyOf(r), !.lease = 0, !.expires = "zero"]

\* Variant: the last retry is not granted.
ReportedOffByOne(r) ==
    CASE r.status = "Running" ->
           [Settled(r) EXCEPT !.status = "Running", !.worker = r.worker]
      [] r.status = "Completed" ->
           [Settled(r) EXCEPT !.status = "Completed"]
      [] r.status = "Failed" /\ task[r.task].attempt < MaxRetries[r.task] ->
           [Settled(r) EXCEPT !.status = "Queued", !.worker = NoWorker, !.expires = "future"]
      [] OTHER ->
           [Settled(r) EXCEPT !.status = "Failed"]

Reported(r) ==
    CASE r.status = "Running" ->
           [Settled(r) EXCEPT !.status = "Running", !.worker = r.worker]
      [] r.status = "Completed" ->
           [Settled(r) EXCEPT !.status = "Completed"]
      [] r.status = "Failed" /\ task[r.task].attempt <= MaxRetries[r.task] ->
           [Settled(r) EXCEPT !.status = "Queued", !.worker = NoWorker, !.expires = "future"]
      [] OTHER ->
           [Settled(r) EXCEPT !.status = "Failed"]

\* The refs an accepted report enqueues: the task's own on a retry, every
\* Queued task of the job that is ready on a completion.
ReportRefs(r, tk) ==
    CASE tk[r.task].status = "Queued" -> {r.task}
      [] tk[r.task].status = "Completed" ->
           {t \in TasksOf(JobOf[r.task]) :
               tk[t].status = "Queued" /\ dependenciesCompleted(t, tk)}
      [] OTHER -> {}

ReportIgnored(r) ==
    /\ Ignored(r)
    /\ net' = net \ {r}
    /\ UNCHANGED <<job, task, pending, poll, registered, load, agent>>

ReportTaskResult(r) ==
    LET tk == [task EXCEPT ![r.task] = Reported(r)]
        j  == JobOf[r.task]
    IN  /\ ~Ignored(r)
        /\ net' = net \ {r}
        /\ task' = tk
        /\ pending' = Enqueue(pending, ReportRefs(r, tk))
        /\ job' = [job EXCEPT ![j] = IF r.status = "Running" THEN @ ELSE StatusFromTasks(j, tk)]
        /\ UNCHANGED <<poll, registered, load, agent>>

---------------------------------------------------------------------------
UserNext == \E j \in Jobs : AddJob(j) \/ CancelJob(j) \/ ArchiveJob(j)

PollNext(w) ==
    \/ PollBegin(w)
    \/ \E t \in Tasks : TryAssignSkips(w, t)
    \/ \E t \in Tasks : \E V \in VictimSets(w, t) :
          TryAssignSucceeds(w, t, V) \/ TryAssignDenied(w, t, V)
    \/ PollEnd(w)

AgentNext(w) ==
    \/ StartTask(w)
    \/ Execute(w)
    \/ \E status \in {"Completed", "Failed"} : FinishTask(w, status)
    \/ NextAssignment(w)

WorkerNext(w) ==
    \/ RegisterWorker(w)
    \/ Heartbeat(w)
    \/ PollNext(w)
    \/ PollAborts(w)
    \/ PollTimesOut(w)
    \/ AgentNext(w)
    \/ Crash(w)

TimeNext == \E t \in Tasks : LeaseLapses(t) \/ DeadlinePasses(t)

ReportNext == \E r \in net : ReportIgnored(r) \/ ReportTaskResult(r) \/ ReportLost(r)

Next ==
    \/ UserNext
    \/ \E w \in Workers : WorkerNext(w)
    \/ TimeNext
    \/ ReportNext

Spec == Init /\ [][Next]_vars

\* What the code's scheduling guarantees: workers register, poll, work and send
\* heartbeats while they are up, handlers run to their end, requests that are
\* not lost are handled, time passes.  Nothing is assumed of users.
Fairness ==
    /\ \A w \in Workers :
          /\ WF_vars(RegisterWorker(w))
          /\ WF_vars(Heartbeat(w))
          /\ WF_vars(PollNext(w))
          /\ WF_vars(AgentNext(w))
    /\ \A t \in Tasks : WF_vars(LeaseLapses(t)) /\ WF_vars(DeadlinePasses(t))
    /\ WF_vars(\E r \in net : ReportIgnored(r) \/ ReportTaskResult(r))

FairSpec == Spec /\ Fairness

---------------------------------------------------------------------------
\* The types of the stored records, the handlers and the processes.
TypeOK ==
    /\ job \in [Jobs -> JobStates]
    /\ task \in [Tasks -> TaskRecords]
    /\ pending \in [Tasks -> Nat]
    /\ poll \in [Workers -> PollRecords]
    /\ registered \subseteq Workers
    /\ load \in [Workers -> 0..1]
    /\ agent \in [Workers -> AgentRecords]
    /\ net \subseteq Reports

\* The ref of t is in the queue, or claimed by a poll that will put it back.
HasRef(t) ==
    \/ pending[t] > 0
    \/ \E w \in Workers : poll[w].claims[t] > 0 \/ poll[w].rest[t] > 0

Ready(t) == task[t].status = "Queued" /\ dependenciesCompleted(t, task)

\* No task is forgotten: a stored task that is Queued and whose dependencies
\* are completed has a ref in the queue, whatever mixture of retries, lease
\* expiries, preemptions, failed polls and late reports made it Queued.
ReadyTasksHaveRefs ==
    \A t \in Tasks : job[JobOf[t]] # "none" /\ Ready(t) => HasRef(t)

\* A Running job is never stranded: one of its tasks is with a worker, or is
\* ready and in the queue.
RunningJobsCanProgress ==
    \A j \in Jobs : job[j] = "Running" =>
        \E t \in TasksOf(j) :
            \/ task[t].status \in {"Assigned", "Running"}
            \/ Ready(t) /\ HasRef(t)

\* The attempts worker w was given and that may still be reported: in the
\* answer under construction, in the worker's list, in a report on its way.
Held(w) ==
    {poll[w].got[i] : i \in 1..Len(poll[w].got)}
    \cup {agent[w].queue[i] : i \in 1..Len(agent[w].queue)}
    \cup {[task |-> r.task, attempt |-> r.attempt] : r \in {x \in net : x.worker = w}}

\* Attempt numbers identify leases (tryAssign derives LeaseID and the worker
\* the idempotency key from them): no attempt of a task is given to two
\* workers, and nobody holds an attempt the record has not reached.
OneHolderPerAttempt ==
    \A v, w \in Workers : \A a \in Held(v) :
        /\ a.attempt \in 1..task[a.task].attempt
        /\ a \in Held(w) => v = w

\* A task is Assigned exactly while it has a lease, the lease is that of its
\* last attempt, and it has an owner and an expiry: requeueExpiredLeases and
\* the heartbeat's extension (which look for both a status and a LeaseID) can
\* see every Assigned task.
AssignedIffLeased ==
    \A t \in Tasks :
        /\ task[t].status = "Assigned" <=> task[t].lease # 0
        /\ task[t].lease # 0 =>
              /\ task[t].lease = task[t].attempt
              /\ task[t].worker \in registered
              /\ task[t].expires # "zero"

\* No task fails before its retries are used up, unless the policy denied it,
\* even when late reports of earlier attempts are counted against it.
FailedMeansExhausted ==
    \A t \in Tasks : task[t].status = "Failed" =>
        task[t].attempt > MaxRetries[t] \/ t \in MayDeny

\* A cancel or archive is final: no report, sweep or assignment on its way
\* takes the job out of Canceled or Archived again.
ClosedJobsStayClosed ==
    [][\A j \in Jobs :
          /\ job[j] = "Canceled" => job'[j] \in {"Canceled", "Archived"}
          /\ job[j] = "Archived" => job'[j] = "Archived"]_vars

\* A terminal status is final: clients stop polling and streamJobEvents closes
\* the stream once they have seen one.
TerminalIsFinal ==
    [][\A j \in Jobs : isTerminal(job[j]) => job'[j] \in {job[j], "Archived"}]_vars

\* t is recorded as Running, but nobody executes it and no report is on its way.
Orphaned(t) ==
    /\ job[JobOf[t]] = "Running"
    /\ task[t].status = "Running"
    /\ \A w \in Workers : \A i \in 1..Len(agent[w].queue) : agent[w].queue[i].task # t
    /\ \A r \in net : r.task # t

\* A task whose worker died while executing it does not stay Running.
OrphansRecovered == \A t \in Tasks : Orphaned(t) ~> ~Orphaned(t)

\* Every submitted job reaches a terminal status.
JobsFinish == \A j \in Jobs : job[j] # "none" ~> isTerminal(job[j])
=============================================================================
