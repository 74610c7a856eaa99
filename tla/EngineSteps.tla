---------------------------- MODULE EngineSteps ----------------------------
(***************************************************************************)
(* The job engine's handlers one store or queue call at a time             *)
(* (internal/scheduler/engine.go).                                         *)
(*                                                                         *)
(* JobEngine takes a report, a heartbeat, a cancel and a tryAssign as one  *)
(* step each.  In the code each of them reads records, changes its copies  *)
(* and writes them back whole, with no lock and no version around them, so *)
(* handlers that overlap overwrite one another, and a handler that meets   *)
(* an error stops half way.  This module has one thread per request.       *)
(*                                                                         *)
(* Two history variables that no step looks at name the causes of trouble: *)
(* torn has the records that were overwritten by a copy read before their  *)
(* last change, cut has what a handler that stopped half way still owed.   *)
(* The properties say that nothing else causes any: a store that refused   *)
(* outdated writes, and handlers that finish, would restore what JobEngine *)
(* promises.                                                               *)
(*                                                                         *)
(* Reads in a row with no write in between are one step when the later     *)
(* ones can only see more of the same kind (the dependencies of a task     *)
(* with the task, the two lists of a worker's tasks).                      *)
(***************************************************************************)
EXTENDS Naturals, FiniteSets

CONSTANTS
    Jobs, Tasks, Workers,
    Threads,        \* handlers that may run at the same time
    Shapes,         \* the cases to look at: see ShapeRecords
    NackLimit,      \* error nacks that dead-letter a ref; 5 in the code
    MaxAssigned,    \* bound: assignments ever made
    MaxRefs,        \* bound: copies of one ref in the queue, further ones not counted
    Nobody          \* the empty WorkerID, LeaseID and LastReportKey

\* The jobs: which job a task is of, what it depends on, its MaxRetries, whether
\* it has a TimeoutSec and whether the assignment policy may deny it, and the
\* priority of each job.  What happens besides polls and reports: requests that
\* come, how many store errors and stopped handlers at most, and how many of the
\* records in torn and cut to go on from.
ShapeRecords ==
    [jobOf : [Tasks -> Jobs], deps : [Tasks -> SUBSET Tasks], retries : [Tasks -> Nat],
     timeout : SUBSET Tasks, denied : SUBSET Tasks, rank : [Jobs -> 1..3],
     requests : SUBSET {"heartbeat", "cancel"}, failures : Nat, mishaps : Nat]

\* Dependencies stay within a job and have no cycle: every set of tasks has one
\* that depends on none of the others.
ASSUME ShapesAssumption ==
    /\ Shapes \subseteq ShapeRecords
    /\ \A s \in Shapes : \A t \in Tasks : \A d \in s.deps[t] : s.jobOf[d] = s.jobOf[t]
    /\ \A s \in Shapes : \A S \in (SUBSET Tasks) \ {{}} : \E t \in S : s.deps[t] \cap S = {}
    /\ Jobs \cap Tasks = {}
ASSUME LimitsAssumption ==
    /\ NackLimit \in Nat \ {0}
    /\ MaxAssigned \in Nat /\ MaxRefs \in Nat \ {0}
    /\ Nobody \notin Workers \cup Nat

VARIABLES
    shape,      \* the jobs at hand, chosen at the start
    job,        \* job -> JobRecord.Status
    task,       \* task -> the scheduling fields of its TaskRecord
    queue,      \* task -> copies of its ref waiting in the queue
    nacks,      \* task -> the queue's counter of error nacks
    dead,       \* task -> dead-lettered copies of its ref
    thread,     \* thread -> the handler it runs
    reports,    \* reports that workers have yet to send
    given,      \* history: the assignments made
    torn, cut,  \* history: see above
    failures    \* store errors and stopped handlers so far, at most shape.failures

vars == <<shape, job, task, queue, nacks, dead, thread, reports, given, torn, cut, failures>>
queues == <<queue, nacks, dead>>
rest == <<shape, reports, given, cut, failures>>

TasksOf(j) == {t \in Tasks : shape.jobOf[t] = j}
JobOf(t) == shape.jobOf[t]
NoRefs == [t \in Tasks |-> 0]
\* What every handler has: its outdated copies are those not in fresh.
Idle == [op |-> "idle", fresh |-> {}, owes |-> {}]
JobsAtHand == {JobOf(t) : t \in Tasks}

NewTask ==
    [status |-> "Queued", worker |-> Nobody, lease |-> Nobody, expires |-> "zero",
     attempt |-> 0, key |-> Nobody]

\* The jobs have been added.
Init ==
    /\ shape \in Shapes
    /\ job = [j \in Jobs |-> "Running"]
    /\ task = [t \in Tasks |-> NewTask]
    /\ queue = [t \in Tasks |-> IF shape.deps[t] = {} THEN 1 ELSE 0]
    /\ nacks = NoRefs
    /\ dead = NoRefs
    /\ thread = [p \in Threads |-> Idle]
    /\ reports = {}
    /\ given = {}
    /\ torn = {}
    /\ cut = {}
    /\ failures = 0

---------------------------------------------------------------------------
(* Records and calls. *)

dependenciesCompleted(t) == \A d \in shape.deps[t] : task[d].status = "Completed"

\* Variant: a failed task fails the job once every task has ended.
StatusWhenAllEnded(j) ==
    IF \A t \in TasksOf(j) : task[t].status \in {"Completed", "Failed"}
    THEN IF \E t \in TasksOf(j) : task[t].status = "Failed" THEN "Failed" ELSE "Completed"
    ELSE "Running"

\* The tail of ReportTaskResult, and reconcileJobStatus.
StatusFromTasks(j) ==
    IF \E t \in TasksOf(j) : task[t].status = "Failed" THEN "Failed"
    ELSE IF TasksOf(j) # {} /\ \A t \in TasksOf(j) : task[t].status = "Completed"
         THEN "Completed" ELSE "Running"

\* UpdateTask and UpdateJob write whole records and look at nothing.  The copies
\* of x that other handlers have read are outdated after it; an extended lease
\* alone, which leaves UpdatedAt, does not count.
Overwrite(p, x, outdates, next) ==
    /\ torn' = IF x \in thread[p].fresh THEN torn ELSE torn \cup {x}
    /\ thread' = [q \in Threads |->
                    IF q = p THEN next
                    ELSE [thread[q] EXCEPT !.fresh = IF outdates THEN @ \ {x} ELSE @]]

UpdateTask(p, t, rec, next) ==
    LET Timeless(r) == [r EXCEPT !.expires = @ # "zero"]
    IN  /\ task' = [task EXCEPT ![t] = rec]
        /\ Overwrite(p, t, Timeless(rec) # Timeless(task[t]), next)
UpdateJob(p, j, status, next) ==
    /\ job' = [job EXCEPT ![j] = status]
    /\ Overwrite(p, j, TRUE, next)

Put(copies) ==
    queue' = [t \in Tasks |-> IF queue[t] + copies[t] > MaxRefs THEN MaxRefs
                              ELSE queue[t] + copies[t]]
EnqueueMany(refs) == Put([t \in Tasks |-> IF t \in refs THEN 1 ELSE 0])

At(p, op, pc) == thread[p].op = op /\ thread[p].pc = pc
Goto(p, changes) == thread' = [thread EXCEPT ![p] = changes]
Done(p) == Goto(p, Idle)
Without(f, x) == [y \in DOMAIN f \ {x} |-> f[y]]

\* Time passes the expiry of a lease or a backoff.
Lapse(t) ==
    /\ task[t].expires = "future"
    /\ task' = [task EXCEPT ![t].expires = "past"]
    /\ UNCHANGED <<job, queues, thread, torn, rest>>

---------------------------------------------------------------------------
(* PollAssignments: the sweep of expired leases. *)

Expired ==
    {t \in Tasks : /\ task[t].status \in {"Running", "Assigned"}
                   /\ task[t].lease # Nobody
                   /\ task[t].expires = "past"}

\* GetWorker and ListExpiredLeasedTasks, when there are any.  One poll of a
\* worker at a time.
NotPolling(w) == \A q \in Threads : thread[q].op \in {"sweep", "assign"} => thread[q].w # w

PollBegin(p, w) ==
    /\ thread[p] = Idle
    /\ NotPolling(w)
    /\ Expired # {}
    /\ Goto(p, [op |-> "sweep", pc |-> "tasks", w |-> w, fresh |-> Expired, owes |-> {},
                refs |-> {}, todo |-> [t \in Expired |-> task[t]],
                jobs |-> {JobOf(t) : t \in Expired}, j |-> Nobody, status |-> Nobody])
    /\ UNCHANGED <<job, task, queues, torn, rest>>

Requeued(rec, timedOut, t) ==
    IF timedOut /\ rec.attempt > shape.retries[t]
    THEN [rec EXCEPT !.status = "Failed", !.worker = Nobody, !.lease = Nobody]
    ELSE [rec EXCEPT !.status = "Queued", !.worker = Nobody, !.lease = Nobody,
                     !.expires = IF timedOut THEN "future" ELSE "zero"]

\* Variant: a task whose time is up is queued by whoever ends its backoff.
SweepForgetsBackoff(p, t) ==
    /\ At(p, "sweep", "tasks")
    /\ t \in DOMAIN thread[p].todo
    /\ \E timedOut \in {FALSE, (t \in shape.timeout)} :
        LET rec == Requeued(thread[p].todo[t], timedOut, t)
        IN  UpdateTask(p, t, rec, [thread[p] EXCEPT
                !.todo = Without(@, t),
                !.refs = IF rec.status = "Queued" /\ ~timedOut THEN @ \cup {t} ELSE @,
                !.owes = @ \cup {t, JobOf(t)}])
    /\ UNCHANGED <<job, queues, rest>>

SweepTask(p, t) ==
    /\ At(p, "sweep", "tasks")
    /\ t \in DOMAIN thread[p].todo
    /\ \E timedOut \in {FALSE, (t \in shape.timeout)} :
        LET rec == Requeued(thread[p].todo[t], timedOut, t)
        IN  UpdateTask(p, t, rec, [thread[p] EXCEPT
                !.todo = Without(@, t),
                !.refs = IF rec.status = "Queued" THEN @ \cup {t} ELSE @,
                !.owes = @ \cup {t, JobOf(t)}])
    /\ UNCHANGED <<job, queues, rest>>

Swept(p) == At(p, "sweep", "tasks") /\ DOMAIN thread[p].todo = {}

\* All requeued refs are enqueued after the last task is written.
SweepEnqueue(p) ==
    /\ Swept(p)
    /\ thread[p].refs # {}
    /\ EnqueueMany(thread[p].refs)
    /\ Goto(p, [thread[p] EXCEPT !.refs = {}, !.owes = @ \cap Jobs])
    /\ UNCHANGED <<job, task, nacks, dead, torn, rest>>

\* Variant: a canceled job is reconciled too.
ReconcileAny(p, j) ==
    /\ Swept(p)
    /\ thread[p].refs = {}
    /\ j \in thread[p].jobs
    /\ Goto(p, [thread[p] EXCEPT !.pc = "list", !.j = j, !.fresh = @ \cup {j}])
    /\ UNCHANGED <<job, task, queues, torn, rest>>

\* reconcileJobStatus: GetJob, ListTasksByJob, UpdateJob.
ReconcileRead(p, j) ==
    /\ Swept(p)
    /\ thread[p].refs = {}
    /\ j \in thread[p].jobs
    /\ Goto(p, IF job[j] = "Canceled"
               THEN [thread[p] EXCEPT !.jobs = @ \ {j}, !.owes = @ \ {j}]
               ELSE [thread[p] EXCEPT !.pc = "list", !.j = j, !.fresh = @ \cup {j}])
    /\ UNCHANGED <<job, task, queues, torn, rest>>

ReconcileList(p) ==
    /\ At(p, "sweep", "list")
    /\ Goto(p, [thread[p] EXCEPT !.pc = "write", !.status = StatusFromTasks(thread[p].j)])
    /\ UNCHANGED <<job, task, queues, torn, rest>>

ReconcileWrite(p) ==
    /\ At(p, "sweep", "write")
    /\ LET j == thread[p].j
       IN  UpdateJob(p, j, thread[p].status,
                     [thread[p] EXCEPT !.pc = "tasks", !.jobs = @ \ {j}, !.owes = @ \ {j},
                                       !.j = Nobody, !.status = Nobody])
    /\ UNCHANGED <<task, queues, rest>>

---------------------------------------------------------------------------
(* PollAssignments: claims and tryAssign, for max_tasks = 1. *)

\* The claims that are yet to be tried, to be nacked, and to be nacked as errors;
\* late when their visibility timeout has lapsed.
Assigning(w, claims) ==
    [op |-> "assign", pc |-> "next", w |-> w, claims |-> claims, back |-> NoRefs,
     errs |-> NoRefs, late |-> FALSE, t |-> Nobody, base |-> Nobody, victim |-> Nobody,
     fresh |-> {}, owes |-> {}]

\* Claim takes what is in the queue, after the sweep or when there was nothing
\* to sweep.
Claim(p, w) ==
    /\ \/ thread[p] = Idle /\ NotPolling(w) /\ queue # NoRefs
       \/ Swept(p) /\ thread[p].refs = {} /\ thread[p].jobs = {} /\ thread[p].w = w
    /\ Goto(p, IF queue = NoRefs THEN Idle ELSE Assigning(w, queue))
    /\ queue' = NoRefs
    /\ UNCHANGED <<job, task, nacks, dead, torn, rest>>

\* tryAssign ends without an assignment, or with an error.
NextClaim(p) ==
    [thread[p] EXCEPT !.pc = "next", !.t = Nobody, !.base = Nobody, !.victim = Nobody,
                      !.fresh = {}, !.owes = {}]
NotReady(p, t) == [NextClaim(p) EXCEPT !.back[t] = @ + 1]
Erred(p, t) == [NextClaim(p) EXCEPT !.errs[t] = @ + 1]

\* The refs a poll has claimed and not given back.
ClaimsOf(p) ==
    IF thread[p].op # "assign" \/ thread[p].late THEN NoRefs
    ELSE [t \in Tasks |-> thread[p].claims[t] + thread[p].back[t] + thread[p].errs[t]
                          + IF thread[p].pc # "next" /\ thread[p].t = t THEN 1 ELSE 0]

\* A poll takes longer than the visibility timeout of its claims: RequeueExpired,
\* in any poll that follows, gives them back while this one goes on.
VisibilityLapses(p) ==
    /\ failures < shape.failures
    /\ ClaimsOf(p) # NoRefs
    /\ failures' = failures + 1
    /\ Put(ClaimsOf(p))
    /\ Goto(p, [thread[p] EXCEPT !.late = TRUE])
    /\ UNCHANGED <<shape, job, task, nacks, dead, reports, given, torn, cut>>

\* The next claim in the order of priorities; GetJob.
AssignBegin(p, t) ==
    /\ At(p, "assign", "next")
    /\ thread[p].claims[t] > 0
    /\ \A u \in Tasks : thread[p].claims[u] > 0 => shape.rank[JobOf(u)] <= shape.rank[JobOf(t)]
    /\ LET tried == [thread[p] EXCEPT !.claims[t] = @ - 1]
       IN  Goto(p, IF job[JobOf(t)] = "Running"
                   THEN [tried EXCEPT !.pc = "task", !.t = t, !.fresh = {JobOf(t)}]
                   ELSE [tried EXCEPT !.back[t] = @ + 1])
    /\ UNCHANGED <<job, task, queues, torn, rest>>

Assignable(t) ==
    /\ task[t].status = "Queued"
    /\ task[t].expires # "future"
    /\ dependenciesCompleted(t)

\* GetTask and its dependencies; bestWorkerForTask may name another worker.
AssignRead(p) ==
    /\ At(p, "assign", "task")
    /\ LET t == thread[p].t
       IN  \/ /\ Assignable(t)
              /\ Goto(p, [thread[p] EXCEPT !.pc = "chosen", !.base = task[t],
                                           !.fresh = @ \cup {t}])
           \/ Goto(p, NotReady(p, t))
    /\ UNCHANGED <<job, task, queues, torn, rest>>

\* tryPreemptLowerPriority, when the worker reported itself at capacity: read
\* a victim, write it back as Queued, enqueue it.  Without a victim the task is
\* not ready (AssignRead).
Victims(w, t) ==
    {v \in Tasks : /\ task[v].worker = w
                   /\ task[v].status \in {"Running", "Assigned"}
                   /\ shape.rank[JobOf(v)] < shape.rank[JobOf(t)]}

PreemptRead(p) ==
    /\ At(p, "assign", "chosen")
    /\ \E v \in Victims(thread[p].w, thread[p].t) :
          Goto(p, [thread[p] EXCEPT !.pc = "victim", !.victim = <<v, task[v]>>,
                                       !.fresh = @ \cup {v}])
    /\ UNCHANGED <<job, task, queues, torn, rest>>

PreemptWrite(p) ==
    /\ At(p, "assign", "victim")
    /\ LET v == thread[p].victim[1]
           read == thread[p].victim[2]
       IN  UpdateTask(p, v, [read EXCEPT !.status = "Queued", !.worker = Nobody,
                                         !.lease = Nobody, !.expires = "zero"],
                      [thread[p] EXCEPT !.pc = "requeue", !.owes = {v}])
    /\ UNCHANGED <<job, queues, rest>>

PreemptEnqueue(p) ==
    /\ At(p, "assign", "requeue")
    /\ EnqueueMany({thread[p].victim[1]})
    /\ Goto(p, [thread[p] EXCEPT !.pc = "preempted", !.victim = Nobody, !.owes = {}])
    /\ UNCHANGED <<job, task, nacks, dead, torn, rest>>

\* Variant: the attempt is counted when it is reported.
LeasedUncounted(w, rec) ==
    [rec EXCEPT !.status = "Assigned", !.worker = w,
                !.lease = Cardinality(given) + 1, !.expires = "future"]

\* newLeaseID puts the time in the lease ID: every assignment has its own.
Leased(w, rec) ==
    [rec EXCEPT !.status = "Assigned", !.worker = w, !.attempt = @ + 1,
                !.lease = Cardinality(given) + 1, !.expires = "future"]
Assignment(t, rec) ==
    [task |-> t, worker |-> rec.worker, attempt |-> rec.attempt, lease |-> rec.lease]

Placed(p) == At(p, "assign", "chosen") \/ At(p, "assign", "preempted")

AssignWrite(p) ==
    /\ Placed(p)
    /\ Cardinality(given) < MaxAssigned
    /\ LET t == thread[p].t
           rec == Leased(thread[p].w, thread[p].base)
       IN  /\ UpdateTask(p, t, rec, [thread[p] EXCEPT !.pc = "assigned", !.base = rec])
           /\ given' = given \cup {Assignment(t, rec)}
    /\ UNCHANGED <<shape, job, queues, reports, cut, failures>>

\* The job is written back as it was read, Running.
AssignJob(p) ==
    /\ At(p, "assign", "assigned")
    /\ UpdateJob(p, JobOf(thread[p].t), "Running", [thread[p] EXCEPT !.pc = "settle"])
    /\ UNCHANGED <<task, queues, rest>>

\* The policy denies the assignment: the task and the job fail.
DenyWrite(p) ==
    /\ Placed(p)
    /\ thread[p].t \in shape.denied
    /\ UpdateTask(p, thread[p].t, [thread[p].base EXCEPT !.status = "Failed"],
                  [thread[p] EXCEPT !.pc = "denied", !.owes = {JobOf(thread[p].t)}])
    /\ UNCHANGED <<job, queues, rest>>

DenyJob(p) ==
    /\ At(p, "assign", "denied")
    /\ UpdateJob(p, JobOf(thread[p].t), "Failed", NotReady(p, thread[p].t))
    /\ UNCHANGED <<task, queues, rest>>

\* A store or queue call of tryAssign fails; the poll goes on with the next claim.
AssignFails(p) ==
    /\ failures < shape.failures
    /\ thread[p].op = "assign"
    /\ thread[p].pc \notin {"next", "settle"}
    /\ failures' = failures + 1
    /\ cut' = cut \cup thread[p].owes
    /\ Goto(p, Erred(p, thread[p].t))
    /\ UNCHANGED <<shape, job, task, queues, reports, given, torn>>

\* Ack of the assigned claim, Nack of the others; the worker gets the answer.
\* The queue's counter of errors of a ref starts again with an Ack and with
\* every letter.  Nack passes over receipts that are no longer in flight.
Acked(p) == IF thread[p].pc = "settle" THEN {thread[p].t} ELSE {}
PollEnd(p) ==
    /\ thread[p].op = "assign"
    /\ \/ thread[p].pc = "settle"
       \/ thread[p].pc = "next" /\ thread[p].claims = NoRefs
    /\ LET errs == IF thread[p].late THEN NoRefs ELSE thread[p].errs
           Errors(t) == (IF t \in Acked(p) THEN 0 ELSE nacks[t]) + errs[t]
           Letters(t) == Errors(t) \div NackLimit
           Returns(t) == IF t \in Acked(p) THEN ClaimsOf(p)[t] - 1 ELSE ClaimsOf(p)[t]
       IN  /\ nacks' = [t \in Tasks |-> Errors(t) % NackLimit]
           /\ dead' = [t \in Tasks |-> dead[t] + Letters(t)]
           /\ Put([t \in Tasks |-> IF thread[p].late THEN 0 ELSE Returns(t) - Letters(t)])
    /\ reports' = reports \cup
          {[of |-> Assignment(t, thread[p].base), final |-> f] : t \in Acked(p), f \in BOOLEAN}
    /\ Done(p)
    /\ UNCHANGED <<shape, job, task, given, torn, cut, failures>>

---------------------------------------------------------------------------
(* ReportTaskResult. *)

\* buildIdempotencyKey; the Running report has a suffix.
KeyOf(r) == <<r.of.worker, r.of.attempt, r.final>>

\* A worker sends its Running report before the final one, each once; it does
\* not wait for the answer longer than its HTTP client does.  GetJob.
ReportBegin(p, r, status) ==
    /\ thread[p] = Idle
    /\ IF r.final THEN [r EXCEPT !.final = FALSE] \notin reports /\ status # "Running"
                  ELSE status = "Running"
    /\ reports' = reports \ {r}
    /\ Goto(p, [op |-> "report", pc |-> "task", r |-> r, status |-> status,
                canceled |-> job[JobOf(r.of.task)] = "Canceled", base |-> Nobody, refs |-> {},
                fresh |-> {JobOf(r.of.task)}, owes |-> {}])
    /\ UNCHANGED <<shape, job, task, queues, given, torn, cut, failures>>

Ignored(r, canceled, rec) ==
    \/ canceled
    \/ rec.key = KeyOf(r)
    \/ rec.lease # Nobody /\ rec.lease # r.of.lease

Retries(status, rec, t) == status = "Failed" /\ rec.attempt <= shape.retries[t]

\* GetTask and the early returns.
ReportRead(p) ==
    /\ At(p, "report", "task")
    /\ LET r == thread[p].r
           rec == task[r.of.task]
       IN  Goto(p, IF Ignored(r, thread[p].canceled, rec) THEN Idle
                   ELSE [thread[p] EXCEPT !.base = rec, !.fresh = @ \cup {r.of.task}, !.pc =
                            IF Retries(thread[p].status, rec, r.of.task) THEN "retry" ELSE "write"])
    /\ UNCHANGED <<job, task, queues, torn, rest>>

\* A retried task is enqueued before its record is written.
ReportRetry(p) ==
    /\ At(p, "report", "retry")
    /\ EnqueueMany({thread[p].r.of.task})
    /\ Goto(p, [thread[p] EXCEPT !.pc = "write"])
    /\ UNCHANGED <<job, task, nacks, dead, torn, rest>>

Reported(r, status, rec) ==
    LET settled == [rec EXCEPT !.key = KeyOf(r), !.lease = Nobody, !.expires = "zero"]
    IN  CASE status = "Running" -> [settled EXCEPT !.status = "Running", !.worker = r.of.worker]
          [] status = "Completed" -> [settled EXCEPT !.status = "Completed"]
          [] Retries(status, rec, r.of.task) ->
                [settled EXCEPT !.status = "Queued", !.worker = Nobody, !.expires = "future"]
          [] OTHER -> [settled EXCEPT !.status = "Failed"]

ReportWrite(p) ==
    /\ At(p, "report", "write")
    /\ LET r == thread[p].r
           j == JobOf(r.of.task)
       IN  UpdateTask(p, r.of.task, Reported(r, thread[p].status, thread[p].base),
              IF thread[p].status = "Running" THEN Idle
              ELSE [thread[p] EXCEPT !.pc = "list", !.base = Nobody, !.owes =
                      {j} \cup IF thread[p].status = "Completed" THEN TasksOf(j) ELSE {}])
    /\ UNCHANGED <<job, queues, rest>>

\* ListTasksByJob and, on a completion, the dependencies of the Queued tasks.
ReportList(p) ==
    /\ At(p, "report", "list")
    /\ LET j == JobOf(thread[p].r.of.task)
           refs == IF thread[p].status = "Completed"
                   THEN {t \in TasksOf(j) : task[t].status = "Queued" /\ dependenciesCompleted(t)}
                   ELSE {}
       IN  Goto(p, [thread[p] EXCEPT !.status = StatusFromTasks(j), !.refs = refs,
                      !.owes = {j} \cup refs, !.pc = IF refs = {} THEN "job" ELSE "dependents"])
    /\ UNCHANGED <<job, task, queues, torn, rest>>

ReportDependents(p) ==
    /\ At(p, "report", "dependents")
    /\ EnqueueMany(thread[p].refs)
    /\ Goto(p, [thread[p] EXCEPT !.pc = "job", !.refs = {}, !.owes = @ \ Tasks])
    /\ UNCHANGED <<job, task, nacks, dead, torn, rest>>

ReportJob(p) ==
    /\ At(p, "report", "job")
    /\ UpdateJob(p, JobOf(thread[p].r.of.task), thread[p].status, Idle)
    /\ UNCHANGED <<task, queues, rest>>

---------------------------------------------------------------------------
(* Heartbeat and CancelJob. *)

\* The leases extendWorkerLeasesWithTimeout finds to extend.
HeartbeatBegin(p, w) ==
    LET own == {t \in Tasks : /\ task[t].worker = w
                              /\ task[t].status \in {"Running", "Assigned"}
                              /\ task[t].lease # Nobody
                              /\ task[t].expires # "past"}
    IN  /\ thread[p] = Idle
        /\ "heartbeat" \in shape.requests
        /\ own # {}
        /\ Goto(p, [op |-> "heartbeat", pc |-> "tasks", todo |-> [t \in own |-> task[t]],
                    fresh |-> own, owes |-> {}])
        /\ UNCHANGED <<job, task, queues, torn, rest>>

\* The next of the copies p has read is written; the handler ends with the last.
WriteNext(p, t, rec) ==
    /\ UpdateTask(p, t, rec, IF DOMAIN thread[p].todo = {t} THEN Idle
                             ELSE [thread[p] EXCEPT !.todo = Without(@, t)])
    /\ UNCHANGED <<job, queues, rest>>

HeartbeatTask(p, t) ==
    /\ At(p, "heartbeat", "tasks")
    /\ t \in DOMAIN thread[p].todo
    /\ WriteNext(p, t, [thread[p].todo[t] EXCEPT !.expires = "future"])

isTerminal(status) == status \in {"Completed", "Failed", "Canceled"}

CancelBegin(p, j) ==
    /\ thread[p] = Idle
    /\ "cancel" \in shape.requests
    /\ j \in JobsAtHand
    /\ ~isTerminal(job[j])
    /\ Goto(p, [op |-> "cancel", pc |-> "job", j |-> j, todo |-> [t \in {} |-> NewTask],
                fresh |-> {j}, owes |-> {}])
    /\ UNCHANGED <<job, task, queues, torn, rest>>

CancelJob(p) ==
    /\ At(p, "cancel", "job")
    /\ UpdateJob(p, thread[p].j, "Canceled", [thread[p] EXCEPT !.pc = "list"])
    /\ UNCHANGED <<task, queues, rest>>

CancelList(p) ==
    LET open == {t \in TasksOf(thread[p].j) : task[t].status \in {"Queued", "Running"}}
    IN  /\ At(p, "cancel", "list")
        /\ Goto(p, IF open = {} THEN Idle
                   ELSE [thread[p] EXCEPT !.pc = "tasks", !.fresh = open,
                                          !.todo = [t \in open |-> task[t]]])
        /\ UNCHANGED <<job, task, queues, torn, rest>>

CancelTask(p, t) ==
    /\ At(p, "cancel", "tasks")
    /\ t \in DOMAIN thread[p].todo
    /\ WriteNext(p, t, [thread[p].todo[t] EXCEPT !.status = "Canceled", !.worker = Nobody,
                                                 !.lease = Nobody, !.expires = "zero"])

---------------------------------------------------------------------------
\* A handler meets an error it returns, or its process dies.  The claims of a
\* poll come back when their visibility timeout lapses.
HandlerStops(p) ==
    /\ failures < shape.failures
    /\ thread[p] # Idle
    /\ failures' = failures + 1
    /\ cut' = cut \cup thread[p].owes
    /\ Put(ClaimsOf(p))
    /\ Done(p)
    /\ UNCHANGED <<shape, job, task, nacks, dead, reports, given, torn>>

PollNext(p) ==
    \/ \E w \in Workers : PollBegin(p, w) \/ Claim(p, w)
    \/ \E t \in Tasks : SweepTask(p, t) \/ AssignBegin(p, t)
    \/ SweepEnqueue(p)
    \/ \E j \in Jobs : ReconcileRead(p, j)
    \/ ReconcileList(p) \/ ReconcileWrite(p)
    \/ AssignRead(p)
    \/ PreemptRead(p) \/ PreemptWrite(p) \/ PreemptEnqueue(p)
    \/ AssignWrite(p) \/ AssignJob(p)
    \/ DenyWrite(p) \/ DenyJob(p)
    \/ AssignFails(p) \/ VisibilityLapses(p)
    \/ PollEnd(p)

ReportNext(p) ==
    \/ \E r \in reports, s \in {"Running", "Completed", "Failed"} : ReportBegin(p, r, s)
    \/ ReportRead(p) \/ ReportRetry(p) \/ ReportWrite(p)
    \/ ReportList(p) \/ ReportDependents(p) \/ ReportJob(p)

Next ==
    \/ \E p \in Threads :
        \/ PollNext(p)
        \/ ReportNext(p)
        \/ \E w \in Workers : HeartbeatBegin(p, w)
        \/ \E t \in Tasks : HeartbeatTask(p, t) \/ CancelTask(p, t)
        \/ \E j \in Jobs : CancelBegin(p, j)
        \/ CancelJob(p) \/ CancelList(p)
        \/ HandlerStops(p)
    \/ \E t \in Tasks : Lapse(t)

Spec == Init /\ [][Next]_vars

---------------------------------------------------------------------------
\* No handler is in the middle of anything.
AtRest == \A p \in Threads : thread[p] = Idle

Excused == torn \cup cut
Ready(t) == task[t].status = "Queued" /\ dependenciesCompleted(t)
HasRef(t) == queue[t] > 0 \/ dead[t] > 0

\* However the calls of handlers interleave, a task that is ready has a ref in
\* the queue or among the dead letters, unless its record was overwritten by an
\* outdated copy (two polls that hold duplicate refs, a report and a sweep) or a
\* handler stopped between writing it and enqueueing it (requeueExpiredLeases,
\* tryPreemptLowerPriority, ReportTaskResult on a completion).
ReadyTasksHaveRefs ==
    AtRest => \A t \in Tasks : Ready(t) /\ t \notin Excused => HasRef(t)

\* A Running job is not stranded with nothing left to do, unless its record or a
\* task's was overwritten by an outdated copy (two reports of one job, a report
\* and a heartbeat), or a report, a denial or a sweep stopped before it updated
\* the job.
RunningJobsCanProgress ==
    AtRest => \A j \in Jobs :
        job[j] = "Running" /\ TasksOf(j) # {} /\ ({j} \cup TasksOf(j)) \cap Excused = {} =>
            \E t \in TasksOf(j) :
                \/ task[t].status \in {"Assigned", "Running"}
                \/ Ready(t) /\ HasRef(t)

\* One attempt is given to one worker, unless an outdated copy of the task was
\* written: every tryAssign that loses the race overwrites the winner's record.
OneHolderPerAttempt ==
    \A a, b \in given :
        a.task = b.task /\ a.attempt = b.attempt /\ a.task \notin torn => a = b

\* A canceled job is opened again only by a handler that read it before it was
\* canceled (tryAssign, ReportTaskResult and reconcileJobStatus write it back).
OnlyOldCopiesReopen ==
    [][\A j \in Jobs : job[j] = "Canceled" /\ job'[j] # "Canceled" => j \in torn']_vars
=============================================================================
