------------------------- MODULE EngineStepsProofs -------------------------
(***************************************************************************)
(* Proofs about EngineSteps for every set of jobs, tasks, workers and      *)
(* overlapping handlers and for every shape of the jobs: what outdated     *)
(* copies and handlers that stop half way can do, and that nothing else    *)
(* does it.                                                                *)
(***************************************************************************)
EXTENDS EngineSteps, FiniteSetTheorems, TLAPS

TaskStatus == {"Queued", "Assigned", "Running", "Completed", "Failed", "Canceled"}
JobStatus == {"Running", "Completed", "Failed", "Canceled"}
Holder == Workers \cup {Nobody}
Lease == Nat \cup {Nobody}
Records == Jobs \cup Tasks

TaskRec ==
    [status : TaskStatus, worker : Holder, lease : Lease, expires : {"zero", "future", "past"},
     attempt : Nat, key : (Holder \X Nat \X BOOLEAN) \cup {Nobody}]
AssignmentRec == [task : Tasks, worker : Holder, attempt : Nat, lease : Lease]
ReportRec == [of : AssignmentRec, final : BOOLEAN]
\* Copies of some tasks' records.
Copies == UNION {[S -> TaskRec] : S \in SUBSET Tasks}

---------------------------------------------------------------------------
(* The handlers: their fields, and what they know at each of their steps.  *)
(* s is the shape, th a handler.                                           *)

SweepRec ==
    [op : {"sweep"}, pc : {"tasks", "list", "write"}, w : Workers, fresh : SUBSET Records,
     owes : SUBSET Records, refs : SUBSET Tasks, todo : Copies, jobs : SUBSET Jobs,
     j : Jobs \cup {Nobody}, status : JobStatus \cup {Nobody}]
SweepOK(s, th) ==
    /\ th \in SweepRec
    /\ th.refs \subseteq th.owes
    /\ th.owes \cap Jobs \subseteq th.jobs
    /\ \A t \in DOMAIN th.todo : s.jobOf[t] \in th.jobs
    /\ th.pc # "tasks" => th.refs = {} /\ DOMAIN th.todo = {} /\ th.j \in Jobs
    /\ th.pc = "write" => th.status \in {"Running", "Completed", "Failed"}

AssignRec ==
    [op : {"assign"}, w : Workers, late : BOOLEAN,
     pc : {"next", "task", "chosen", "victim", "requeue", "preempted", "assigned", "denied",
           "settle"},
     claims : [Tasks -> Nat], back : [Tasks -> Nat], errs : [Tasks -> Nat],
     t : Tasks \cup {Nobody}, base : TaskRec \cup {Nobody},
     victim : (Tasks \X TaskRec) \cup {Nobody}, fresh : SUBSET Records, owes : SUBSET Records]
AssignOK(s, th) ==
    /\ th \in AssignRec
    /\ th.pc # "next" => th.t \in Tasks
    /\ th.pc \notin {"next", "task"} => th.base \in TaskRec
    /\ th.pc \in {"victim", "requeue"} => th.victim \in Tasks \X TaskRec
    /\ th.owes = IF th.pc = "requeue" THEN {th.victim[1]}
                 ELSE IF th.pc = "denied" THEN {s.jobOf[th.t]} ELSE {}

ReportRecs ==
    [op : {"report"}, pc : {"task", "retry", "write", "list", "dependents", "job"},
     r : ReportRec, status : {"Running", "Completed", "Failed"}, canceled : BOOLEAN,
     base : TaskRec \cup {Nobody}, refs : SUBSET Tasks, fresh : SUBSET Records,
     owes : SUBSET Records]
RetriesIn(s, status, rec, t) == status = "Failed" /\ rec.attempt <= s.retries[t]
ReportOK(s, th) ==
    LET t == th.r.of.task
        j == s.jobOf[t]
    IN  /\ th \in ReportRecs
        /\ th.pc # "task" => ~th.canceled
        /\ th.pc \in {"retry", "write"} => th.base \in TaskRec
        /\ th.pc = "retry" => RetriesIn(s, th.status, th.base, t)
        /\ th.pc \in {"task", "retry", "write"} => th.owes = {}
        /\ th.pc = "list" => th.owes = {j} \cup IF th.status = "Completed"
                                               THEN {u \in Tasks : s.jobOf[u] = j} ELSE {}
        /\ th.pc = "dependents" => th.owes = {j} \cup th.refs
        /\ th.pc = "job" => th.owes = {j}

HeartbeatRec ==
    [op : {"heartbeat"}, pc : {"tasks"}, todo : Copies, fresh : SUBSET Records,
     owes : SUBSET Records]
HeartbeatOK(s, th) ==
    /\ th \in HeartbeatRec
    /\ th.owes = {}
    /\ \A t \in DOMAIN th.todo : th.todo[t].status \in {"Running", "Assigned"}

CancelRec ==
    [op : {"cancel"}, pc : {"job", "list", "tasks"}, j : Jobs, todo : Copies,
     fresh : SUBSET Records, owes : SUBSET Records]
CancelOK(s, th) ==
    /\ th \in CancelRec
    /\ th.owes = {}
    /\ \A t \in DOMAIN th.todo : s.jobOf[t] = th.j

HandlerOK(s, th) ==
    \/ th = Idle
    \/ SweepOK(s, th)
    \/ AssignOK(s, th)
    \/ ReportOK(s, th)
    \/ HeartbeatOK(s, th)
    \/ CancelOK(s, th)

TypeInv ==
    /\ shape \in Shapes
    /\ job \in [Jobs -> JobStatus]
    /\ task \in [Tasks -> TaskRec]
    /\ queue \in [Tasks -> Nat] /\ nacks \in [Tasks -> 0..(NackLimit - 1)] /\ dead \in [Tasks -> Nat]
    /\ DOMAIN thread = Threads /\ \A p \in Threads : HandlerOK(shape, thread[p])
    /\ thread = [p \in Threads |-> thread[p]]
    /\ reports \subseteq ReportRec
    /\ given \subseteq AssignmentRec /\ IsFiniteSet(given)
    /\ torn \subseteq Records /\ cut \subseteq Records
    /\ failures \in Nat

---------------------------------------------------------------------------
(* What the properties rest on. *)

\* A copy that is not outdated has the attempt of the record.
AttemptsFresh(th, tk) ==
    /\ th.op \in {"sweep", "heartbeat", "cancel"} =>
          \A t \in DOMAIN th.todo \cap th.fresh : th.todo[t].attempt = tk[t].attempt
    /\ th.op = "assign" /\ th.pc \notin {"next", "task"} /\ th.t \in th.fresh =>
          th.base.attempt = tk[th.t].attempt
    /\ th.op = "assign" /\ th.pc = "victim" /\ th.victim[1] \in th.fresh =>
          th.victim[2].attempt = tk[th.victim[1]].attempt
    /\ th.op = "report" /\ th.pc \in {"retry", "write"} /\ th.r.of.task \in th.fresh =>
          th.base.attempt = tk[th.r.of.task].attempt
CopiesCurrent == \A p \in Threads : AttemptsFresh(thread[p], task)

\* The attempts given out are those the record has counted.
AttemptsCounted ==
    \A a \in given : a.task \notin torn => a.attempt <= task[a.task].attempt

\* The job records that a handler may write back and that are not outdated are
\* not canceled; those of tryAssign are Running.
OpenFresh(th, jb) ==
    /\ th.op = "sweep" \/ (th.op = "report" /\ ~th.canceled) =>
          \A j \in Jobs \cap th.fresh : jb[j] # "Canceled"
    /\ th.op = "assign" => \A j \in Jobs \cap th.fresh : jb[j] = "Running"
JobsOpen == \A p \in Threads : OpenFresh(thread[p], job)

\* A poll has a claim of t that it will give back.
Claims(th, t) ==
    /\ th.op = "assign"
    /\ ~th.late
    /\ \/ th.claims[t] + th.back[t] + th.errs[t] > 0
       \/ th.pc \notin {"next", "assigned", "settle"} /\ th.t = t
Tracked(t) == HasRef(t) \/ \E p \in Threads : Claims(thread[p], t)

\* A handler will enqueue t.
WillEnqueue(s, th, t) ==
    \/ th.op = "sweep" /\ t \in th.refs
    \/ th.op = "assign" /\ th.pc = "requeue" /\ th.victim[1] = t
    \/ /\ th.op = "report"
       /\ \/ th.pc = "list" /\ th.status = "Completed" /\ s.jobOf[t] = s.jobOf[th.r.of.task]
          \/ th.pc = "dependents" /\ t \in th.refs

ReadyTracked ==
    \A t \in Tasks : Ready(t) /\ t \notin Excused =>
        Tracked(t) \/ \E p \in Threads : WillEnqueue(shape, thread[p], t)

\* A report has enqueued t and will write it as Queued, over a copy that is not
\* outdated.
Requeues(s, th, t) ==
    /\ th.op = "report" /\ th.pc = "write"
    /\ th.r.of.task = t /\ t \in th.fresh
    /\ RetriesIn(s, th.status, th.base, t)
RetriesTracked ==
    \A p \in Threads, t \in Tasks : Requeues(shape, thread[p], t) /\ t \notin torn => Tracked(t)

\* A job that is over, by its tasks.
Settled(j) ==
    \/ \E t \in TasksOf(j) : task[t].status = "Failed"
    \/ \A t \in TasksOf(j) : task[t].status = "Completed"
Clean(j) == TasksOf(j) # {} /\ ({j} \cup TasksOf(j)) \cap Excused = {}

\* A Running job that is over has a handler that has yet to write it.
SettledOwed ==
    \A j \in Jobs : job[j] = "Running" /\ Clean(j) /\ Settled(j) =>
        \E p \in Threads : j \in thread[p].owes

\* A handler is about to write that j is Running still.
WillReopen(s, th, j) ==
    /\ \/ th.op = "sweep" /\ th.pc = "write" /\ th.j = j
       \/ th.op = "report" /\ th.pc \in {"dependents", "job"} /\ s.jobOf[th.r.of.task] = j
    /\ th.status = "Running"
    /\ j \in th.fresh
ReopenedOwed ==
    \A p \in Threads, j \in Jobs :
        WillReopen(shape, thread[p], j) /\ Clean(j) /\ Settled(j) =>
            \E q \in Threads \ {p} : j \in thread[q].owes

\* Tasks are canceled after their job.
Closed(j) == job[j] = "Canceled" \/ j \in torn
CancelsJobFirst ==
    /\ \A p \in Threads :
          thread[p].op = "cancel" /\ thread[p].pc # "job" => Closed(thread[p].j)
    /\ \A t \in Tasks : task[t].status = "Canceled" => Closed(JobOf(t))

Promises ==
    /\ CopiesCurrent /\ AttemptsCounted
    /\ JobsOpen /\ CancelsJobFirst
    /\ ReadyTracked /\ RetriesTracked
    /\ SettledOwed /\ ReopenedOwed

Inv == TypeInv /\ Promises

---------------------------------------------------------------------------
(* Lemmas about handlers and records. *)

LEMMA ShapeFacts ==
    ASSUME NEW s \in Shapes
    PROVE  /\ s \in ShapeRecords
           /\ \A t \in Tasks : s.jobOf[t] \in Jobs /\ s.retries[t] \in Nat
           /\ \A t \in Tasks : s.deps[t] \subseteq Tasks
           /\ \A t \in Tasks : \A d \in s.deps[t] : s.jobOf[d] = s.jobOf[t]
<1>1. s \in ShapeRecords
  BY ShapesAssumption
<1> QED
  BY <1>1, ShapesAssumption DEF ShapeRecords

LEMMA CopiesFacts ==
    ASSUME NEW f \in Copies
    PROVE  /\ DOMAIN f \subseteq Tasks
           /\ \A t \in DOMAIN f : f[t] \in TaskRec
           /\ f = [t \in DOMAIN f |-> f[t]]
           /\ \A t : Without(f, t) \in Copies /\ DOMAIN Without(f, t) = DOMAIN f \ {t}
           /\ \A t : \A u \in DOMAIN f \ {t} : Without(f, t)[u] = f[u]
<1> PICK S \in SUBSET Tasks : f \in [S -> TaskRec]
  BY DEF Copies
<1>1. ASSUME NEW t PROVE Without(f, t) \in [S \ {t} -> TaskRec]
  BY DEF Without
<1>2. ASSUME NEW t PROVE Without(f, t) \in Copies
  BY <1>1 DEF Copies
<1> QED
  BY <1>2 DEF Without

LEMMA NewCopies ==
    ASSUME NEW S \in SUBSET Tasks, NEW tk \in [Tasks -> TaskRec]
    PROVE  [t \in S |-> tk[t]] \in Copies
BY DEF Copies

\* A handler is of the kind its op names.
LEMMA HandlerKinds ==
    ASSUME NEW s, NEW th, HandlerOK(s, th)
    PROVE  /\ th.op = "idle" => th = Idle
           /\ th.op = "sweep" => SweepOK(s, th)
           /\ th.op = "assign" => AssignOK(s, th)
           /\ th.op = "report" => ReportOK(s, th)
           /\ th.op = "heartbeat" => HeartbeatOK(s, th)
           /\ th.op = "cancel" => CancelOK(s, th)
           /\ th.op \in {"idle", "sweep", "assign", "report", "heartbeat", "cancel"}
           /\ th.fresh \subseteq Records /\ th.owes \subseteq Records
<1>1. CASE th = Idle
  BY <1>1 DEF Idle
<1>2. CASE SweepOK(s, th)
  BY <1>2 DEF SweepOK, SweepRec
<1>3. CASE AssignOK(s, th)
  BY <1>3 DEF AssignOK, AssignRec
<1>4. CASE ReportOK(s, th)
  BY <1>4 DEF ReportOK, ReportRecs
<1>5. CASE HeartbeatOK(s, th)
  BY <1>5 DEF HeartbeatOK, HeartbeatRec
<1>6. CASE CancelOK(s, th)
  BY <1>6 DEF CancelOK, CancelRec
<1> QED
  BY <1>1, <1>2, <1>3, <1>4, <1>5, <1>6 DEF HandlerOK

\* What a handler has when another one has outdated its copies in X.
Shrunk(th, X) == [th EXCEPT !.fresh = @ \ X]

\* The fields the invariants read.
SameFields(s, th, n) ==
    /\ n.op = th.op /\ n.owes = th.owes
    /\ th.op = "report" => n.canceled = th.canceled
    /\ th.op = "cancel" => n.pc = th.pc /\ n.j = th.j
    /\ \A t : Claims(n, t) <=> Claims(th, t)
    /\ \A t : WillEnqueue(s, n, t) <=> WillEnqueue(s, th, t)

LEMMA ShrunkFacts ==
    ASSUME NEW s, NEW th, HandlerOK(s, th), NEW X
    PROVE  /\ HandlerOK(s, Shrunk(th, X))
           /\ Shrunk(th, X).fresh = th.fresh \ X
           /\ SameFields(s, th, Shrunk(th, X))
           /\ \A t \in Tasks : Requeues(s, Shrunk(th, X), t) <=> Requeues(s, th, t) /\ t \notin X
           /\ \A j \in Jobs : WillReopen(s, Shrunk(th, X), j) <=> WillReopen(s, th, j) /\ j \notin X
           /\ \A tk : AttemptsFresh(th, tk) => AttemptsFresh(Shrunk(th, X), tk)
<1> DEFINE n == Shrunk(th, X)
<1>1. CASE th = Idle
  <2>1. n.op = "idle" /\ n.fresh = {} /\ n.owes = {} /\ n = Idle
    BY <1>1 DEF Idle, Shrunk
  <2> QED
    BY <2>1, <1>1 DEF HandlerOK, SameFields, Idle, Claims, WillEnqueue, Requeues, WillReopen,
                      AttemptsFresh
<1>2. CASE SweepOK(s, th)
  <2>1. /\ n \in SweepRec /\ n.fresh = th.fresh \ X
        /\ n.op = th.op /\ n.pc = th.pc /\ n.owes = th.owes /\ n.refs = th.refs /\ n.todo = th.todo
        /\ n.jobs = th.jobs /\ n.j = th.j /\ n.status = th.status /\ n.op = "sweep"
    BY <1>2 DEF Shrunk, SweepOK, SweepRec
  <2> HIDE DEF n
  <2>2. SweepOK(s, n)
    BY <2>1, <1>2 DEF SweepOK
  <2> QED
    BY <2>1, <2>2 DEF HandlerOK, SameFields, Claims, WillEnqueue, Requeues, WillReopen,
                      AttemptsFresh, n
<1>3. CASE AssignOK(s, th)
  <2>1. /\ n \in AssignRec /\ n.fresh = th.fresh \ X
        /\ n.op = th.op /\ n.pc = th.pc /\ n.owes = th.owes /\ n.w = th.w /\ n.late = th.late
        /\ n.claims = th.claims /\ n.back = th.back /\ n.errs = th.errs /\ n.t = th.t
        /\ n.base = th.base /\ n.victim = th.victim /\ n.op = "assign"
    BY <1>3 DEF Shrunk, AssignOK, AssignRec
  <2> HIDE DEF n
  <2>2. AssignOK(s, n)
    BY <2>1, <1>3 DEF AssignOK
  <2> QED
    BY <2>1, <2>2 DEF HandlerOK, SameFields, Claims, WillEnqueue, Requeues, WillReopen,
                      AttemptsFresh, n
<1>4. CASE ReportOK(s, th)
  <2>1. /\ n \in ReportRecs /\ n.fresh = th.fresh \ X
        /\ n.op = th.op /\ n.pc = th.pc /\ n.owes = th.owes /\ n.r = th.r
        /\ n.status = th.status /\ n.canceled = th.canceled /\ n.base = th.base
        /\ n.refs = th.refs /\ n.op = "report"
    BY <1>4 DEF Shrunk, ReportOK, ReportRecs
  <2> HIDE DEF n
  <2>2. ReportOK(s, n)
    BY <2>1, <1>4 DEF ReportOK
  <2> QED
    BY <2>1, <2>2 DEF HandlerOK, SameFields, Claims, WillEnqueue, Requeues, WillReopen,
                      AttemptsFresh, n
<1>5. CASE HeartbeatOK(s, th)
  <2>1. /\ n \in HeartbeatRec /\ n.fresh = th.fresh \ X
        /\ n.op = th.op /\ n.pc = th.pc /\ n.owes = th.owes /\ n.todo = th.todo
        /\ n.op = "heartbeat"
    BY <1>5 DEF Shrunk, HeartbeatOK, HeartbeatRec
  <2> HIDE DEF n
  <2>2. HeartbeatOK(s, n)
    BY <2>1, <1>5 DEF HeartbeatOK
  <2> QED
    BY <2>1, <2>2 DEF HandlerOK, SameFields, Claims, WillEnqueue, Requeues, WillReopen,
                      AttemptsFresh, n
<1>6. CASE CancelOK(s, th)
  <2>1. /\ n \in CancelRec /\ n.fresh = th.fresh \ X
        /\ n.op = th.op /\ n.pc = th.pc /\ n.owes = th.owes /\ n.todo = th.todo /\ n.j = th.j
        /\ n.op = "cancel"
    BY <1>6 DEF Shrunk, CancelOK, CancelRec
  <2> HIDE DEF n
  <2>2. CancelOK(s, n)
    BY <2>1, <1>6 DEF CancelOK
  <2> QED
    BY <2>1, <2>2 DEF HandlerOK, SameFields, Claims, WillEnqueue, Requeues, WillReopen,
                      AttemptsFresh, n
<1> QED
  BY <1>1, <1>2, <1>3, <1>4, <1>5, <1>6 DEF HandlerOK

---------------------------------------------------------------------------
(* Three kinds of steps of a handler p that becomes n: it writes no        *)
(* record, a task's or a job's.  For each, what n has to satisfy for the   *)
(* invariant to hold again.                                                *)

\* The other handlers go on as they were, with the copies in X outdated.
OthersKeep(p, X) ==
    \A q \in Threads \ {p} :
        /\ HandlerOK(shape, thread'[q])
        /\ thread'[q].fresh = thread[q].fresh \ X
        /\ SameFields(shape, thread[q], thread'[q])
        /\ \A t \in Tasks :
              Requeues(shape, thread'[q], t) <=> Requeues(shape, thread[q], t) /\ t \notin X
        /\ \A j \in Jobs :
              WillReopen(shape, thread'[q], j) <=> WillReopen(shape, thread[q], j) /\ j \notin X
        /\ \A tk : AttemptsFresh(thread[q], tk) => AttemptsFresh(thread'[q], tk)
Moves(p, n, X) ==
    /\ thread'[p] = n
    /\ DOMAIN thread' = Threads
    /\ thread' = [q \in Threads |-> thread'[q]]
    /\ OthersKeep(p, X)
Tears(p, x) == torn' = IF x \in thread[p].fresh THEN torn ELSE torn \cup {x}

LEMMA GotoMoves ==
    ASSUME TypeInv, NEW p \in Threads, NEW n, Goto(p, n)
    PROVE  Moves(p, n, {})
<1>1. thread' = [thread EXCEPT ![p] = n] /\ DOMAIN thread = Threads
  BY DEF Goto, TypeInv
<1>2. \A q \in Threads : thread'[q] = IF q = p THEN n ELSE thread[q]
  BY <1>1
<1>3. thread'[p] = n /\ DOMAIN thread' = Threads /\ thread' = [q \in Threads |-> thread'[q]]
  BY <1>1
<1>4. ASSUME NEW q \in Threads \ {p} PROVE thread'[q] = thread[q] /\ HandlerOK(shape, thread[q])
  BY <1>2 DEF TypeInv
<1>5. ASSUME NEW q \in Threads \ {p} PROVE SameFields(shape, thread[q], thread[q])
  BY DEF SameFields
<1> QED
  BY <1>3, <1>4, <1>5 DEF Moves, OthersKeep

LEMMA OverwriteMoves ==
    ASSUME TypeInv, NEW p \in Threads, NEW x, NEW outdates, NEW n, Overwrite(p, x, outdates, n)
    PROVE  /\ Tears(p, x)
           /\ Moves(p, n, IF outdates THEN {x} ELSE {})
<1> DEFINE X == IF outdates THEN {x} ELSE {}
<1>1. thread' = [q \in Threads |->
                    IF q = p THEN n
                    ELSE [thread[q] EXCEPT !.fresh = IF outdates THEN @ \ {x} ELSE @]]
  BY DEF Overwrite
<1>2. thread'[p] = n /\ DOMAIN thread' = Threads /\ thread' = [q \in Threads |-> thread'[q]]
  BY <1>1
<1>3. ASSUME NEW q \in Threads \ {p} PROVE thread'[q] = Shrunk(thread[q], X)
  <2>1. (IF outdates THEN thread[q].fresh \ {x} ELSE thread[q].fresh) = thread[q].fresh \ X
    OBVIOUS
  <2>2. thread'[q] = [thread[q] EXCEPT !.fresh = IF outdates THEN @ \ {x} ELSE @]
    BY <1>1
  <2> QED
    BY <2>1, <2>2 DEF Shrunk
<1> HIDE DEF X
<1>4. ASSUME NEW q \in Threads \ {p} PROVE HandlerOK(shape, thread[q])
  BY DEF TypeInv
<1>5. OthersKeep(p, X)
  BY <1>3, <1>4, ShrunkFacts DEF OthersKeep
<1> QED
  BY <1>2, <1>5 DEF Moves, Overwrite, Tears, X

\* An extended lease alone leaves the attempt.
LEMMA TimelessAttempt ==
    ASSUME NEW r \in TaskRec, NEW u \in TaskRec,
           [r EXCEPT !.expires = @ # "zero"] = [u EXCEPT !.expires = @ # "zero"]
    PROVE  r.attempt = u.attempt
<1>1. [r EXCEPT !.expires = @ # "zero"].attempt = r.attempt
  BY DEF TaskRec
<1>2. [u EXCEPT !.expires = @ # "zero"].attempt = u.attempt
  BY DEF TaskRec
<1> QED
  BY <1>1, <1>2

LEMMA TaskMoves ==
    ASSUME TypeInv, NEW p \in Threads, NEW t \in Tasks, NEW rec \in TaskRec, NEW n,
           UpdateTask(p, t, rec, n)
    PROVE  /\ task' = [task EXCEPT ![t] = rec]
           /\ Tears(p, t)
           /\ \E X \in {{}, {t}} : Moves(p, n, X) /\ (X = {} => rec.attempt = task[t].attempt)
<1> DEFINE Timeless(r) == [r EXCEPT !.expires = @ # "zero"]
           outdates == Timeless(rec) # Timeless(task[t])
<1>1. task' = [task EXCEPT ![t] = rec] /\ Overwrite(p, t, outdates, n)
  BY DEF UpdateTask
<1>2. task[t] \in TaskRec
  BY DEF TypeInv
<1>3. ~outdates => rec.attempt = task[t].attempt
  BY <1>2, TimelessAttempt
<1> HIDE DEF outdates
<1>4. PICK o : o = outdates
  OBVIOUS
<1>5. Overwrite(p, t, o, n)
  BY <1>1, <1>4 DEF Overwrite
<1>6. Tears(p, t) /\ Moves(p, n, IF o THEN {t} ELSE {})
  BY <1>5, OverwriteMoves
<1> QED
  BY <1>1, <1>3, <1>4, <1>6

LEMMA JobMoves ==
    ASSUME TypeInv, NEW p \in Threads, NEW j \in Jobs, NEW status, NEW n,
           UpdateJob(p, j, status, n)
    PROVE  /\ job' = [job EXCEPT ![j] = status]
           /\ Tears(p, j)
           /\ Moves(p, n, {j})
<1>1. job' = [job EXCEPT ![j] = status] /\ Overwrite(p, j, TRUE, n)
  BY DEF UpdateJob
<1> QED
  BY <1>1, OverwriteMoves

LEMMA RecordsApart == \A j \in Jobs : j \notin Tasks
BY ShapesAssumption

\* What a new handler n has to satisfy in every step of p.
KeepsWork(p, n) ==
    /\ \A t \in Tasks : HasRef(t) => queue'[t] > 0 \/ dead'[t] > 0 \/ Claims(n, t)
    /\ \A t \in Tasks : WillEnqueue(shape, thread[p], t) /\ Ready(t) =>
          WillEnqueue(shape, n, t) \/ queue'[t] > 0 \/ t \in cut'

Quiet(p, n) ==
    /\ Moves(p, n, {})
    /\ UNCHANGED <<shape, job, task, torn, given>>
    /\ cut \subseteq cut'
    /\ AttemptsFresh(n, task) /\ OpenFresh(n, job)
    /\ n.op = "cancel" /\ n.pc # "job" => thread[p].op = "cancel" /\ thread[p].pc # "job"
                                          /\ n.j = thread[p].j
    /\ KeepsWork(p, n)
    /\ \A t \in Tasks : Claims(thread[p], t) => Claims(n, t) \/ queue'[t] > 0 \/ dead'[t] > 0
    /\ \A t \in Tasks : Requeues(shape, n, t) => Requeues(shape, thread[p], t) \/ queue'[t] > 0
    /\ \A j \in Jobs : j \in thread[p].owes => j \in n.owes \/ j \in cut' \/ job[j] = "Canceled"
    /\ \A j \in Jobs : WillReopen(shape, n, j) /\ Clean(j) =>
          WillReopen(shape, thread[p], j) \/ ~Settled(j)

LEMMA QuietStep ==
    ASSUME Inv, NEW p \in Threads, NEW n, Quiet(p, n)
    PROVE  Promises'
<1>1. /\ thread'[p] = n /\ OthersKeep(p, {})
      /\ shape' = shape /\ job' = job /\ task' = task /\ torn' = torn /\ given' = given
      /\ cut \subseteq cut'
  BY DEF Quiet, Moves
<1>2. \A q \in Threads \ {p} : thread'[q].fresh = thread[q].fresh
  BY <1>1 DEF OthersKeep
<1>3. CopiesCurrent'
  BY <1>1 DEF CopiesCurrent, Quiet, OthersKeep, Inv, Promises
<1>4. AttemptsCounted'
  BY <1>1 DEF AttemptsCounted, Inv, Promises
<1>5. JobsOpen'
  <2> SUFFICES ASSUME NEW q \in Threads PROVE OpenFresh(thread'[q], job)
    BY <1>1 DEF JobsOpen
  <2>1. CASE q = p
    BY <2>1, <1>1 DEF Quiet
  <2>2. CASE q # p
    BY <2>2, <1>1, <1>2 DEF OpenFresh, JobsOpen, Inv, Promises, OthersKeep, SameFields
  <2> QED
    BY <2>1, <2>2
<1>6. CancelsJobFirst'
  <2>1. ASSUME NEW q \in Threads, thread'[q].op = "cancel", thread'[q].pc # "job"
        PROVE  \E k \in Threads : thread[k].op = "cancel" /\ thread[k].pc # "job"
                                  /\ thread[k].j = thread'[q].j
    <3>1. CASE q = p
      BY <2>1, <3>1, <1>1 DEF Quiet
    <3>2. CASE q # p
      BY <2>1, <3>2, <1>1 DEF OthersKeep, SameFields
    <3> QED
      BY <3>1, <3>2
  <2> QED
    BY <2>1, <1>1 DEF CancelsJobFirst, Closed, JobOf, Inv, Promises
<1>7. ASSUME NEW t \in Tasks, Tracked(t) PROVE Tracked(t)'
  <2>1. ASSUME NEW q \in Threads, Claims(thread[q], t)
        PROVE  queue'[t] > 0 \/ dead'[t] > 0 \/ Claims(thread'[q], t)
    <3>1. CASE q = p
      BY <2>1, <3>1, <1>1 DEF Quiet
    <3>2. CASE q # p
      BY <2>1, <3>2, <1>1 DEF OthersKeep, SameFields
    <3> QED
      BY <3>1, <3>2
  <2>2. HasRef(t) => queue'[t] > 0 \/ dead'[t] > 0 \/ Claims(thread'[p], t)
    BY <1>1 DEF Quiet, KeepsWork
  <2> QED
    BY <1>7, <2>1, <2>2 DEF Tracked, HasRef
<1>8. ReadyTracked'
  <2> SUFFICES ASSUME NEW t \in Tasks, Ready(t)', t \notin Excused'
               PROVE  Tracked(t)' \/ \E q \in Threads : WillEnqueue(shape, thread'[q], t)
    BY <1>1 DEF ReadyTracked
  <2>1. Ready(t) /\ t \notin Excused /\ t \notin cut'
    BY <1>1 DEF Ready, dependenciesCompleted, Excused
  <2>2. ASSUME NEW q \in Threads, WillEnqueue(shape, thread[q], t)
        PROVE  queue'[t] > 0 \/ WillEnqueue(shape, thread'[q], t)
    <3>1. CASE q = p
      BY <2>1, <2>2, <3>1, <1>1 DEF Quiet, KeepsWork
    <3>2. CASE q # p
      BY <2>2, <3>2, <1>1 DEF OthersKeep, SameFields
    <3> QED
      BY <3>1, <3>2
  <2>3. queue'[t] > 0 => Tracked(t)'
    BY DEF Tracked, HasRef
  <2> QED
    BY <2>1, <2>2, <2>3, <1>7 DEF ReadyTracked, Inv, Promises
<1>9. RetriesTracked'
  <2> SUFFICES ASSUME NEW q \in Threads, NEW t \in Tasks, Requeues(shape, thread'[q], t),
                      t \notin torn
               PROVE  Tracked(t)'
    BY <1>1 DEF RetriesTracked
  <2>1. Requeues(shape, thread[q], t) \/ queue'[t] > 0
    <3>1. CASE q = p
      BY <3>1, <1>1 DEF Quiet
    <3>2. CASE q # p
      BY <3>2, <1>1 DEF OthersKeep
    <3> QED
      BY <3>1, <3>2
  <2>2. queue'[t] > 0 => Tracked(t)'
    BY DEF Tracked, HasRef
  <2> QED
    BY <2>1, <2>2, <1>7 DEF RetriesTracked, Inv, Promises
<1>10. \A j \in Jobs : /\ Settled(j)' <=> Settled(j)
                       /\ Clean(j)' => Clean(j) /\ j \notin cut'
  BY <1>1 DEF Settled, Clean, Excused, TasksOf
<1>11. ASSUME NEW j \in Jobs, NEW q \in Threads, j \in thread[q].owes, job[j] # "Canceled",
              j \notin cut'
       PROVE  j \in thread'[q].owes
  BY <1>1, <1>11 DEF Quiet, OthersKeep, SameFields
<1>12. SettledOwed'
  <2> SUFFICES ASSUME NEW j \in Jobs, job[j] = "Running", Clean(j)', Settled(j)'
               PROVE  \E q \in Threads : j \in thread'[q].owes
    BY <1>1 DEF SettledOwed
  <2>1. PICK q \in Threads : j \in thread[q].owes
    BY <1>10 DEF SettledOwed, Inv, Promises
  <2> QED
    BY <2>1, <1>10, <1>11
<1>13. ReopenedOwed'
  <2> SUFFICES ASSUME NEW k \in Threads, NEW j \in Jobs, WillReopen(shape, thread'[k], j),
                      Clean(j)', Settled(j)'
               PROVE  \E q \in Threads \ {k} : j \in thread'[q].owes
    BY <1>1 DEF ReopenedOwed
  <2>1. WillReopen(shape, thread[k], j)
    <3>1. CASE k = p
      BY <3>1, <1>1, <1>10 DEF Quiet
    <3>2. CASE k # p
      BY <3>2, <1>1 DEF OthersKeep
    <3> QED
      BY <3>1, <3>2
  <2>2. PICK q \in Threads \ {k} : j \in thread[q].owes
    BY <2>1, <1>10 DEF ReopenedOwed, Inv, Promises
  <2>3. job[j] # "Canceled"
    <3>1. OpenFresh(thread[k], job) /\ HandlerOK(shape, thread[k])
      BY DEF Inv, TypeInv, Promises, JobsOpen
    <3>2. ReportOK(shape, thread[k]) \/ thread[k].op = "sweep"
      BY <2>1, <3>1, HandlerKinds DEF WillReopen
    <3>3. thread[k].op = "sweep" \/ (thread[k].op = "report" /\ ~thread[k].canceled)
      BY <2>1, <3>2 DEF WillReopen, ReportOK
    <3> QED
      BY <2>1, <3>1, <3>3 DEF WillReopen, OpenFresh
  <2> QED
    BY <2>2, <2>3, <1>10, <1>11
<1> QED
  BY <1>3, <1>4, <1>5, <1>6, <1>8, <1>9, <1>12, <1>13 DEF Promises

\* A written record leaves the attempts of the copies that are not outdated.
LEMMA AttemptsAfterWrite ==
    ASSUME NEW s, NEW th, HandlerOK(s, th), NEW tk \in [Tasks -> TaskRec], NEW x \in Tasks,
           NEW rec, AttemptsFresh(th, tk), x \notin th.fresh \/ rec.attempt = tk[x].attempt
    PROVE  AttemptsFresh(th, [tk EXCEPT ![x] = rec])
<1> DEFINE new == [tk EXCEPT ![x] = rec]
<1>1. \A t \in Tasks : t \in th.fresh => new[t].attempt = tk[t].attempt
  OBVIOUS
<1> HIDE DEF new
<1>2. th.op \in {"sweep", "heartbeat", "cancel"} => DOMAIN th.todo \subseteq Tasks
  <2>1. th.op \in {"sweep", "heartbeat", "cancel"} => th.todo \in Copies
    BY HandlerKinds DEF SweepOK, SweepRec, HeartbeatOK, HeartbeatRec, CancelOK, CancelRec
  <2> QED
    BY <2>1, CopiesFacts
<1>3. th.op = "assign" /\ th.pc \notin {"next", "task"} => th.t \in Tasks
  BY HandlerKinds DEF AssignOK
<1>4. th.op = "assign" /\ th.pc = "victim" => th.victim[1] \in Tasks
  BY HandlerKinds DEF AssignOK
<1>5. th.op = "report" => th.r.of.task \in Tasks
  BY HandlerKinds DEF ReportOK, ReportRecs, ReportRec, AssignmentRec
<1> QED
  BY <1>1, <1>2, <1>3, <1>4, <1>5 DEF AttemptsFresh, new

WritesTask(p, n, x, rec) ==
    /\ UpdateTask(p, x, rec, n)
    /\ UNCHANGED <<shape, job, queues, cut>>
    /\ x \in thread[p].fresh => rec.attempt >= task[x].attempt
    /\ \A a \in given' : a \in given \/ (a.task = x /\ a.attempt = rec.attempt)
    /\ AttemptsFresh(n, [task EXCEPT ![x] = rec]) /\ OpenFresh(n, job)
    /\ n.op = "cancel" /\ n.pc # "job" => thread[p].op = "cancel" /\ thread[p].pc # "job"
                                          /\ n.j = thread[p].j
    /\ rec.status = "Canceled" => thread[p].op = "cancel" /\ thread[p].pc # "job"
                                  /\ thread[p].j = JobOf(x)
    /\ \A t \in Tasks : Claims(thread[p], t) =>
          \/ Claims(n, t)
          \/ /\ t = x /\ rec.status = "Assigned"
             /\ x \in thread[p].fresh => rec.attempt # task[x].attempt
    /\ \A t \in Tasks : WillEnqueue(shape, thread[p], t) => WillEnqueue(shape, n, t)
    /\ rec.status = "Queued" => WillEnqueue(shape, n, x) \/ Requeues(shape, thread[p], x)
                                \/ x \notin thread[p].fresh
    /\ rec.status = "Completed" =>
          \A t \in Tasks : JobOf(t) = JobOf(x) => WillEnqueue(shape, n, t)
    /\ \A t \in Tasks : ~Requeues(shape, n, t)
    /\ \A j \in Jobs : j \in thread[p].owes => j \in n.owes
    /\ rec.status \in {"Failed", "Completed"} => JobOf(x) \in n.owes
    /\ \A j \in Jobs : ~WillReopen(shape, n, j)

LEMMA WriteTaskStep ==
    ASSUME Inv, NEW p \in Threads, NEW n, NEW x \in Tasks, NEW rec \in TaskRec,
           WritesTask(p, n, x, rec)
    PROVE  Promises'
<1>1. /\ task' = [task EXCEPT ![x] = rec] /\ Tears(p, x)
      /\ \E X \in {{}, {x}} : Moves(p, n, X) /\ (X = {} => rec.attempt = task[x].attempt)
  BY TaskMoves DEF WritesTask, Inv
<1>2. PICK X \in {{}, {x}} : Moves(p, n, X) /\ (X = {} => rec.attempt = task[x].attempt)
  BY <1>1
<1>3. /\ thread'[p] = n /\ OthersKeep(p, X)
      /\ shape' = shape /\ job' = job /\ queue' = queue /\ dead' = dead /\ cut' = cut
      /\ torn \subseteq torn' /\ (x \notin thread[p].fresh => x \in torn')
      /\ task \in [Tasks -> TaskRec]
  BY <1>1, <1>2 DEF WritesTask, Moves, Tears, queues, Inv, TypeInv
<1>4. /\ task'[x] = rec /\ \A t \in Tasks \ {x} : task'[t] = task[t]
  BY <1>1, <1>3
<1>5. \A q \in Threads \ {p} : thread'[q].fresh = thread[q].fresh \ X
  BY <1>3 DEF OthersKeep
<1>6. CopiesCurrent'
  <2> SUFFICES ASSUME NEW q \in Threads PROVE AttemptsFresh(thread'[q], task')
    BY DEF CopiesCurrent
  <2>1. CASE q = p
    BY <2>1, <1>1, <1>3 DEF WritesTask
  <2>2. CASE q # p
    <3>1. HandlerOK(shape, thread'[q]) /\ AttemptsFresh(thread'[q], task)
      BY <2>2, <1>3 DEF OthersKeep, CopiesCurrent, Inv, Promises
    <3>2. x \notin thread'[q].fresh \/ rec.attempt = task[x].attempt
      BY <2>2, <1>2, <1>5
    <3> QED
      BY <3>1, <3>2, <1>1, <1>3, AttemptsAfterWrite
  <2> QED
    BY <2>1, <2>2
<1>7. AttemptsCounted'
  <2> SUFFICES ASSUME NEW a \in given', a.task \notin torn' PROVE a.attempt <= task'[a.task].attempt
    BY DEF AttemptsCounted
  <2>1. CASE a \notin given
    <3>1. a.task = x /\ a.attempt = rec.attempt /\ rec.attempt \in Nat
      BY <2>1 DEF WritesTask, TaskRec
    <3> QED
      BY <3>1, <1>4
  <2>2. CASE a \in given
    <3>1. a.task \in Tasks /\ a.attempt \in Nat /\ a.attempt <= task[a.task].attempt
      BY <2>2, <1>3 DEF AttemptsCounted, Inv, Promises, TypeInv, AssignmentRec
    <3>2. CASE a.task # x
      BY <3>1, <3>2, <1>4
    <3>3. CASE a.task = x
      <4>1. rec.attempt >= task[x].attempt /\ rec.attempt \in Nat /\ task[x].attempt \in Nat
        BY <3>3, <1>3 DEF WritesTask, TaskRec
      <4> QED
        BY <4>1, <3>1, <3>3, <1>4
    <3> QED
      BY <3>2, <3>3
  <2> QED
    BY <2>1, <2>2
<1>8. JobsOpen'
  <2> SUFFICES ASSUME NEW q \in Threads PROVE OpenFresh(thread'[q], job)
    BY <1>3 DEF JobsOpen
  <2>1. CASE q = p
    BY <2>1, <1>3 DEF WritesTask
  <2>2. CASE q # p
    BY <2>2, <1>3, <1>5 DEF OpenFresh, JobsOpen, Inv, Promises, OthersKeep, SameFields
  <2> QED
    BY <2>1, <2>2
<1>9. CancelsJobFirst'
  <2>1. ASSUME NEW q \in Threads, thread'[q].op = "cancel", thread'[q].pc # "job"
        PROVE  Closed(thread'[q].j)
    <3>1. CASE q = p
      BY <2>1, <3>1, <1>3 DEF WritesTask, CancelsJobFirst, Inv, Promises
    <3>2. CASE q # p
      BY <2>1, <3>2, <1>3 DEF OthersKeep, SameFields, CancelsJobFirst, Inv, Promises
    <3> QED
      BY <3>1, <3>2
  <2>2. ASSUME NEW t \in Tasks, task'[t].status = "Canceled" PROVE Closed(JobOf(t))
    <3>1. CASE t = x
      BY <2>2, <3>1, <1>4 DEF WritesTask, CancelsJobFirst, Inv, Promises
    <3>2. CASE t # x
      BY <2>2, <3>2, <1>4 DEF CancelsJobFirst, Inv, Promises
    <3> QED
      BY <3>1, <3>2
  <2>3. ASSUME NEW j, Closed(j) PROVE Closed(j)'
    BY <2>3, <1>3 DEF Closed
  <2>4. \A t : JobOf(t)' = JobOf(t)
    BY <1>3 DEF JobOf
  <2>5. ASSUME NEW t \in Tasks, task'[t].status = "Canceled"
        PROVE  job'[JobOf(t)'] = "Canceled" \/ JobOf(t)' \in torn'
    BY <2>2, <2>4, <2>5, <1>3 DEF Closed
  <2>6. ASSUME NEW q \in Threads, thread'[q].op = "cancel", thread'[q].pc # "job"
        PROVE  job'[thread'[q].j] = "Canceled" \/ thread'[q].j \in torn'
    BY <2>1, <2>6, <1>3 DEF Closed
  <2> QED
    BY <2>5, <2>6 DEF CancelsJobFirst, Closed
<1>10. ASSUME NEW t \in Tasks, Tracked(t),
              t # x \/ rec.status # "Assigned"
                    \/ (x \in thread[p].fresh /\ rec.attempt = task[x].attempt)
       PROVE  Tracked(t)'
  <2>1. ASSUME NEW q \in Threads, Claims(thread[q], t) PROVE Claims(thread'[q], t)
    <3>1. CASE q = p
      BY <2>1, <3>1, <1>3, <1>10 DEF WritesTask
    <3>2. CASE q # p
      BY <2>1, <3>2, <1>3 DEF OthersKeep, SameFields
    <3> QED
      BY <3>1, <3>2
  <2> QED
    BY <1>10, <2>1, <1>3 DEF Tracked, HasRef
<1>11. ReadyTracked'
  <2> SUFFICES ASSUME NEW t \in Tasks, Ready(t)', t \notin Excused'
               PROVE  Tracked(t)' \/ \E q \in Threads : WillEnqueue(shape, thread'[q], t)
    BY <1>3 DEF ReadyTracked
  <2>1. /\ t \notin Excused /\ t \notin torn' /\ shape \in Shapes
    BY <1>3 DEF Excused, Inv, TypeInv
  <2>2. /\ task'[t].status = "Queued"
        /\ \A d \in shape.deps[t] : task'[d].status = "Completed"
    BY <1>3 DEF Ready, dependenciesCompleted
  <2>3. \A d \in shape.deps[t] : d \in Tasks /\ JobOf(d) = JobOf(t)
    BY <2>1, ShapeFacts DEF JobOf
  <2>4. CASE x \in shape.deps[t]
    BY <2>2, <2>3, <2>4, <1>3, <1>4 DEF WritesTask
  <2>5. CASE x \notin shape.deps[t] /\ t = x
    <3>1. rec.status = "Queued"
      BY <2>2, <2>5, <1>4
    <3>2. CASE Requeues(shape, thread[p], x)
      <4>1. Tracked(x)
        BY <3>2, <2>1, <2>5, <1>3 DEF RetriesTracked, Inv, Promises, Excused
      <4> QED
        BY <4>1, <3>1, <2>5, <1>10
    <3>3. CASE WillEnqueue(shape, n, x)
      BY <3>3, <2>5, <1>3
    <3> QED
      BY <3>1, <3>2, <3>3, <2>1, <2>5, <1>3 DEF WritesTask
  <2>6. CASE x \notin shape.deps[t] /\ t # x
    <3>1. Ready(t)
      BY <2>2, <2>3, <2>6, <1>4 DEF Ready, dependenciesCompleted
    <3>2. Tracked(t) \/ \E q \in Threads : WillEnqueue(shape, thread[q], t)
      BY <3>1, <2>1 DEF ReadyTracked, Inv, Promises
    <3>3. ASSUME NEW q \in Threads, WillEnqueue(shape, thread[q], t)
          PROVE  WillEnqueue(shape, thread'[q], t)
      <4>1. CASE q = p
        BY <3>3, <4>1, <1>3 DEF WritesTask
      <4>2. CASE q # p
        BY <3>3, <4>2, <1>3 DEF OthersKeep, SameFields
      <4> QED
        BY <4>1, <4>2
    <3> QED
      BY <3>2, <3>3, <2>6, <1>10
  <2> QED
    BY <2>4, <2>5, <2>6
<1>12. RetriesTracked'
  <2> SUFFICES ASSUME NEW q \in Threads, NEW t \in Tasks, Requeues(shape, thread'[q], t),
                      t \notin torn'
               PROVE  Tracked(t)'
    BY <1>3 DEF RetriesTracked
  <2>1. q # p
    BY <1>3 DEF WritesTask
  <2>2. Requeues(shape, thread[q], t) /\ t \notin X
    BY <2>1, <1>3 DEF OthersKeep
  <2>3. Tracked(t)
    BY <2>2, <1>3 DEF RetriesTracked, Inv, Promises
  <2>4. t = x => rec.attempt = task[x].attempt /\ x \in thread[p].fresh
    BY <2>2, <1>2, <1>3
  <2> QED
    BY <2>3, <2>4, <1>10
<1>13. ASSUME NEW j \in Jobs, Clean(j)', Settled(j)'
       PROVE  Clean(j) /\ (Settled(j) \/ j \in n.owes)
  <2>1. Clean(j)
    BY <1>3, <1>13 DEF Clean, Excused, TasksOf
  <2>2. CASE \E t \in TasksOf(j) : task'[t].status = "Failed"
    BY <2>1, <2>2, <1>4 DEF Settled, TasksOf, JobOf, WritesTask
  <2>3. CASE \A t \in TasksOf(j) : task'[t].status = "Completed"
    BY <2>1, <2>3, <1>4 DEF Settled, TasksOf, JobOf, WritesTask
  <2> QED
    BY <2>1, <2>2, <2>3, <1>3, <1>13 DEF Settled, TasksOf
<1>14. ASSUME NEW j \in Jobs, NEW q \in Threads, j \in thread[q].owes PROVE j \in thread'[q].owes
  BY <1>14, <1>3 DEF WritesTask, OthersKeep, SameFields
<1>15. SettledOwed'
  <2> SUFFICES ASSUME NEW j \in Jobs, job[j] = "Running", Clean(j)', Settled(j)'
               PROVE  \E q \in Threads : j \in thread'[q].owes
    BY <1>3 DEF SettledOwed
  <2>1. CASE j \in n.owes
    BY <2>1, <1>3
  <2>2. CASE j \notin n.owes
    BY <2>2, <1>13, <1>14 DEF SettledOwed, Inv, Promises
  <2> QED
    BY <2>1, <2>2
<1>16. ReopenedOwed'
  <2> SUFFICES ASSUME NEW k \in Threads, NEW j \in Jobs, WillReopen(shape, thread'[k], j),
                      Clean(j)', Settled(j)'
               PROVE  \E q \in Threads \ {k} : j \in thread'[q].owes
    BY <1>3 DEF ReopenedOwed
  <2>1. k # p
    BY <1>3 DEF WritesTask
  <2>2. WillReopen(shape, thread[k], j)
    BY <2>1, <1>3 DEF OthersKeep
  <2>3. CASE j \in n.owes
    BY <2>1, <2>3, <1>3
  <2>4. CASE j \notin n.owes
    BY <2>2, <2>4, <1>13, <1>14 DEF ReopenedOwed, Inv, Promises
  <2> QED
    BY <2>3, <2>4
<1> QED
  BY <1>6, <1>7, <1>8, <1>9, <1>11, <1>12, <1>15, <1>16 DEF Promises

WritesJob(p, n, j, status) ==
    /\ UpdateJob(p, j, status, n)
    /\ UNCHANGED <<shape, task, queues, given, cut>>
    /\ AttemptsFresh(n, task) /\ OpenFresh(n, [job EXCEPT ![j] = status])
    /\ status = "Canceled" \/ (j \in thread[p].fresh => job[j] # "Canceled")
    /\ n.op = "cancel" /\ n.pc # "job" => n.j = j /\ status = "Canceled"
    /\ \A t \in Tasks : Claims(thread[p], t) => Claims(n, t)
    /\ \A t \in Tasks : ~WillEnqueue(shape, thread[p], t) /\ ~Requeues(shape, n, t)
    /\ \A k \in Jobs : k # j /\ k \in thread[p].owes => k \in n.owes
    /\ status = "Running" /\ j \in thread[p].fresh =>
          (job[j] = "Running" /\ j \notin thread[p].owes) \/ WillReopen(shape, thread[p], j)
    /\ \A k \in Jobs : ~WillReopen(shape, n, k)

LEMMA WriteJobStep ==
    ASSUME Inv, NEW p \in Threads, NEW n, NEW j \in Jobs, NEW status, WritesJob(p, n, j, status)
    PROVE  /\ Promises'
           /\ \A k \in Jobs : job[k] = "Canceled" /\ job'[k] # "Canceled" => k \in torn'
<1>1. /\ job' = [job EXCEPT ![j] = status] /\ Tears(p, j) /\ Moves(p, n, {j})
  BY JobMoves DEF WritesJob, Inv
<1>2. /\ thread'[p] = n /\ OthersKeep(p, {j})
      /\ shape' = shape /\ task' = task /\ queue' = queue /\ dead' = dead /\ cut' = cut
      /\ given' = given
      /\ torn \subseteq torn' /\ (j \notin thread[p].fresh => j \in torn')
      /\ torn' \subseteq torn \cup {j}
      /\ job \in [Jobs -> JobStatus]
  BY <1>1 DEF WritesJob, Moves, Tears, queues, Inv, TypeInv
<1>3. job'[j] = status /\ \A k \in Jobs \ {j} : job'[k] = job[k]
  BY <1>1, <1>2
<1>4. \A k \in Jobs : job[k] = "Canceled" /\ job'[k] # "Canceled" => k \in torn'
  BY <1>2, <1>3 DEF WritesJob
<1>5. CopiesCurrent'
  BY <1>2 DEF CopiesCurrent, WritesJob, OthersKeep, Inv, Promises
<1>6. AttemptsCounted'
  BY <1>2 DEF AttemptsCounted, Inv, Promises
<1>7. JobsOpen'
  <2> SUFFICES ASSUME NEW q \in Threads PROVE OpenFresh(thread'[q], job')
    BY DEF JobsOpen
  <2>1. CASE q = p
    BY <2>1, <1>1, <1>2 DEF WritesJob
  <2>2. CASE q # p
    <3>1. thread'[q].fresh = thread[q].fresh \ {j} /\ OpenFresh(thread[q], job)
          /\ SameFields(shape, thread[q], thread'[q])
      BY <2>2, <1>2 DEF OthersKeep, JobsOpen, Inv, Promises
    <3> QED
      BY <3>1, <1>3 DEF OpenFresh, SameFields
  <2> QED
    BY <2>1, <2>2
<1>8. CancelsJobFirst'
  <2>1. ASSUME NEW k \in Jobs, Closed(k) PROVE Closed(k)'
    BY <2>1, <1>2, <1>4 DEF Closed
  <2>2. ASSUME NEW q \in Threads, thread'[q].op = "cancel", thread'[q].pc # "job"
        PROVE  job'[thread'[q].j] = "Canceled" \/ thread'[q].j \in torn'
    <3>1. CASE q = p
      BY <2>2, <3>1, <1>2, <1>3 DEF WritesJob, Closed
    <3>2. CASE q # p
      <4>1. /\ thread[q].op = "cancel" /\ thread[q].pc # "job" /\ thread[q].j = thread'[q].j
            /\ HandlerOK(shape, thread[q])
        BY <2>2, <3>2, <1>2 DEF OthersKeep, SameFields, Inv, TypeInv
      <4>2. thread[q].j \in Jobs
        BY <4>1, HandlerKinds DEF CancelOK, CancelRec
      <4>3. PICK k \in Jobs : k = thread[q].j
        BY <4>2
      <4>4. Closed(k)'
        BY <4>1, <4>3, <2>1 DEF CancelsJobFirst, Inv, Promises
      <4> QED
        BY <4>1, <4>3, <4>4 DEF Closed
    <3> QED
      BY <3>1, <3>2
  <2>3. ASSUME NEW t \in Tasks, task'[t].status = "Canceled" PROVE Closed(JobOf(t))'
    <3>1. PICK k : k = JobOf(t)
      OBVIOUS
    <3>2. k \in Jobs
      BY <3>1, ShapeFacts DEF JobOf, Inv, TypeInv
    <3>3. Closed(k)
      BY <2>3, <3>1, <1>2 DEF CancelsJobFirst, Inv, Promises
    <3>4. JobOf(t)' = k
      BY <3>1, <1>2 DEF JobOf
    <3> QED
      BY <3>2, <3>3, <3>4, <2>1 DEF Closed
  <2> QED
    BY <2>2, <2>3 DEF CancelsJobFirst, Closed
<1>9. ASSUME NEW t \in Tasks, Tracked(t) PROVE Tracked(t)'
  <2>1. ASSUME NEW q \in Threads, Claims(thread[q], t) PROVE Claims(thread'[q], t)
    BY <2>1, <1>2 DEF WritesJob, OthersKeep, SameFields
  <2> QED
    BY <1>9, <2>1, <1>2 DEF Tracked, HasRef
<1>10. ReadyTracked'
  <2> SUFFICES ASSUME NEW t \in Tasks, Ready(t)', t \notin Excused'
               PROVE  Tracked(t)' \/ \E q \in Threads : WillEnqueue(shape, thread'[q], t)
    BY <1>2 DEF ReadyTracked
  <2>1. Ready(t) /\ t \notin Excused
    BY <1>2 DEF Ready, dependenciesCompleted, Excused
  <2>2. ASSUME NEW q \in Threads, WillEnqueue(shape, thread[q], t)
        PROVE  WillEnqueue(shape, thread'[q], t)
    BY <2>2, <1>2 DEF WritesJob, OthersKeep, SameFields
  <2> QED
    BY <2>1, <2>2, <1>9 DEF ReadyTracked, Inv, Promises
<1>11. RetriesTracked'
  <2> SUFFICES ASSUME NEW q \in Threads, NEW t \in Tasks, Requeues(shape, thread'[q], t),
                      t \notin torn'
               PROVE  Tracked(t)'
    BY <1>2 DEF RetriesTracked
  <2>1. Requeues(shape, thread[q], t) /\ t \notin torn
    BY <1>2 DEF WritesJob, OthersKeep
  <2> QED
    BY <2>1, <1>9 DEF RetriesTracked, Inv, Promises
<1>12. \A k \in Jobs : /\ Settled(k)' <=> Settled(k)
                       /\ Clean(k)' => Clean(k) /\ k \notin torn'
  BY <1>2 DEF Settled, Clean, Excused, TasksOf
<1>13. ASSUME NEW k \in Jobs, NEW q \in Threads, k \in thread[q].owes, k # j \/ q # p
       PROVE  k \in thread'[q].owes
  BY <1>13, <1>2 DEF WritesJob, OthersKeep, SameFields
<1>14. SettledOwed'
  <2> SUFFICES ASSUME NEW k \in Jobs, job'[k] = "Running", Clean(k)', Settled(k)'
               PROVE  \E q \in Threads : k \in thread'[q].owes
    BY DEF SettledOwed
  <2>1. CASE k # j
    <3>1. PICK q \in Threads : k \in thread[q].owes
      BY <2>1, <1>3, <1>12 DEF SettledOwed, Inv, Promises
    <3> QED
      BY <3>1, <2>1, <1>13
  <2>2. CASE k = j
    <3>1. status = "Running" /\ j \in thread[p].fresh
      BY <2>2, <1>2, <1>3, <1>12
    <3>2. PICK q \in Threads \ {p} : j \in thread[q].owes
      <4>1. CASE job[j] = "Running" /\ j \notin thread[p].owes
        BY <4>1, <2>2, <1>12 DEF SettledOwed, Inv, Promises
      <4>2. CASE WillReopen(shape, thread[p], j)
        BY <4>2, <2>2, <1>12 DEF ReopenedOwed, Inv, Promises
      <4> QED
        BY <3>1, <4>1, <4>2 DEF WritesJob
    <3> QED
      BY <3>2, <2>2, <1>13
  <2> QED
    BY <2>1, <2>2
<1>15. ReopenedOwed'
  <2> SUFFICES ASSUME NEW h \in Threads, NEW k \in Jobs, WillReopen(shape, thread'[h], k),
                      Clean(k)', Settled(k)'
               PROVE  \E q \in Threads \ {h} : k \in thread'[q].owes
    BY <1>2 DEF ReopenedOwed
  <2>1. h # p
    BY <1>2 DEF WritesJob
  <2>2. WillReopen(shape, thread[h], k) /\ k # j
    BY <2>1, <1>2 DEF OthersKeep
  <2> QED
    BY <2>2, <1>12, <1>13 DEF ReopenedOwed, Inv, Promises
<1> QED
  BY <1>4, <1>5, <1>6, <1>7, <1>8, <1>10, <1>11, <1>14, <1>15 DEF Promises

---------------------------------------------------------------------------
(* Steps that only read. *)

LEMMA QuietTypes ==
    ASSUME TypeInv, NEW p \in Threads, NEW n, Moves(p, n, {}), HandlerOK(shape, n),
           UNCHANGED <<shape, job, task, torn, given>>,
           queue' \in [Tasks -> Nat], nacks' \in [Tasks -> 0..(NackLimit - 1)],
           dead' \in [Tasks -> Nat], reports' \subseteq ReportRec, cut' \subseteq Records,
           failures' \in Nat
    PROVE  TypeInv'
<1>1. \A q \in Threads : HandlerOK(shape, thread'[q])
  BY DEF Moves, OthersKeep
<1> QED
  BY <1>1 DEF TypeInv, Moves

Looks(p, n) ==
    /\ Goto(p, n)
    /\ UNCHANGED <<shape, job, task, queues, torn, given, cut, failures>>
    /\ reports' \subseteq reports
    /\ HandlerOK(shape, n)
    /\ AttemptsFresh(n, task) /\ OpenFresh(n, job)
    /\ n.op = "cancel" /\ n.pc # "job" => thread[p].op = "cancel" /\ thread[p].pc # "job"
                                          /\ n.j = thread[p].j
    /\ \A t \in Tasks : WillEnqueue(shape, thread[p], t) /\ Ready(t) => WillEnqueue(shape, n, t)
    /\ \A t \in Tasks : Claims(thread[p], t) => Claims(n, t)
    /\ \A t \in Tasks : ~Requeues(shape, n, t)
    /\ \A j \in Jobs : j \in thread[p].owes => j \in n.owes \/ job[j] = "Canceled"
    /\ \A j \in Jobs : WillReopen(shape, n, j) /\ Clean(j) => ~Settled(j)

LEMMA LooksStep ==
    ASSUME Inv, NEW p \in Threads, NEW n, Looks(p, n)
    PROVE  Inv'
<1>1. Moves(p, n, {})
  BY GotoMoves DEF Looks, Inv
<1>2. /\ shape' = shape /\ job' = job /\ task' = task /\ torn' = torn /\ given' = given
      /\ queue' = queue /\ nacks' = nacks /\ dead' = dead /\ cut' = cut
      /\ failures' = failures
  BY DEF Looks, queues
<1>3. TypeInv'
  BY <1>1, <1>2, QuietTypes DEF Looks, Inv, TypeInv
<1>4. KeepsWork(p, n)
  BY <1>2 DEF Looks, KeepsWork, HasRef
<1>5. Quiet(p, n)
  BY <1>1, <1>2, <1>4 DEF Looks, Quiet
<1> QED
  BY <1>3, <1>5, QuietStep DEF Inv

\* The handler p is of its kind.
LEMMA KindOf ==
    ASSUME Inv, NEW p \in Threads
    PROVE  /\ thread[p].op = "idle" => thread[p] = Idle
           /\ thread[p].op = "sweep" => SweepOK(shape, thread[p])
           /\ thread[p].op = "assign" => AssignOK(shape, thread[p])
           /\ thread[p].op = "report" => ReportOK(shape, thread[p])
           /\ thread[p].op = "heartbeat" => HeartbeatOK(shape, thread[p])
           /\ thread[p].op = "cancel" => CancelOK(shape, thread[p])
           /\ HandlerOK(shape, thread[p])
           /\ thread[p].fresh \subseteq Records /\ thread[p].owes \subseteq Records
           /\ AttemptsFresh(thread[p], task) /\ OpenFresh(thread[p], job)
           /\ shape \in Shapes /\ task \in [Tasks -> TaskRec] /\ job \in [Jobs -> JobStatus]
<1>1. HandlerOK(shape, thread[p])
  BY DEF Inv, TypeInv
<1> QED
  BY <1>1, HandlerKinds DEF Inv, TypeInv, Promises, CopiesCurrent, JobsOpen

LEMMA IdleFacts ==
    ASSUME NEW s
    PROVE  /\ HandlerOK(s, Idle)
           /\ Idle.op = "idle" /\ Idle.fresh = {} /\ Idle.owes = {}
           /\ \A t : ~Claims(Idle, t) /\ ~WillEnqueue(s, Idle, t) /\ ~Requeues(s, Idle, t)
           /\ \A j : ~WillReopen(s, Idle, j)
           /\ \A tk : AttemptsFresh(Idle, tk)
           /\ \A jb : OpenFresh(Idle, jb)
<1>1. Idle.op = "idle" /\ Idle.fresh = {} /\ Idle.owes = {}
  BY DEF Idle
<1> QED
  BY <1>1 DEF HandlerOK, Claims, WillEnqueue, Requeues, WillReopen, AttemptsFresh, OpenFresh

LEMMA PollBeginStep ==
    ASSUME Inv, NEW p \in Threads, NEW w \in Workers, PollBegin(p, w)
    PROVE  Inv'
<1>1. PICK n : n = [op |-> "sweep", pc |-> "tasks", w |-> w, fresh |-> Expired, owes |-> {},
                    refs |-> {}, todo |-> [t \in Expired |-> task[t]],
                    jobs |-> {JobOf(t) : t \in Expired}, j |-> Nobody, status |-> Nobody]
  OBVIOUS
<1>2. Goto(p, n) /\ thread[p] = Idle /\ UNCHANGED <<shape, job, task, queues, torn, given, cut,
                                                   failures, reports>>
  BY <1>1 DEF PollBegin, rest, Goto
<1>3. Expired \subseteq Tasks /\ \A t \in Expired : JobOf(t) \in Jobs
  BY KindOf, ShapeFacts DEF Expired, JobOf
<1>4. n.todo \in Copies /\ DOMAIN n.todo = Expired /\ \A t \in Expired : n.todo[t] = task[t]
  BY <1>1, <1>3, KindOf, NewCopies
<1>5. SweepOK(shape, n)
  <2>1. n \in SweepRec
    BY <1>1, <1>3, <1>4 DEF SweepRec, Records
  <2> QED
    BY <2>1, <1>1, <1>3, <1>4 DEF SweepOK, JobOf
<1>6. n.op = "sweep" /\ n.fresh = Expired /\ n.pc = "tasks"
  BY <1>1
<1>7. AttemptsFresh(n, task) /\ OpenFresh(n, job)
  BY <1>3, <1>4, <1>6, RecordsApart DEF AttemptsFresh, OpenFresh
<1>8. Looks(p, n)
  BY <1>2, <1>5, <1>6, <1>7, IdleFacts
     DEF Looks, HandlerOK, Requeues, WillReopen
<1> QED
  BY <1>8, LooksStep

LEMMA ReconcileReadStep ==
    ASSUME Inv, NEW p \in Threads, NEW j \in Jobs, ReconcileRead(p, j)
    PROVE  Inv'
<1> DEFINE th == thread[p]
<1>1. /\ SweepOK(shape, th) /\ th.op = "sweep" /\ th.pc = "tasks" /\ th.refs = {}
      /\ DOMAIN th.todo = {}
      /\ UNCHANGED <<shape, job, task, queues, torn, given, cut, failures, reports>>
  BY KindOf DEF ReconcileRead, Swept, At, rest
<1>2. th \in SweepRec /\ AttemptsFresh(th, task) /\ OpenFresh(th, job)
  BY <1>1, KindOf DEF SweepOK
<1>3. CASE job[j] = "Canceled"
  <2>1. PICK n : n = [th EXCEPT !.jobs = @ \ {j}, !.owes = @ \ {j}]
    OBVIOUS
  <2>2. Goto(p, n)
    BY <1>3, <2>1 DEF ReconcileRead, Goto
  <2>3. /\ n \in SweepRec /\ n.op = "sweep" /\ n.pc = "tasks" /\ n.refs = {} /\ n.todo = th.todo
        /\ n.fresh = th.fresh /\ n.owes = th.owes \ {j} /\ n.jobs = th.jobs \ {j}
    BY <1>1, <1>2, <2>1 DEF SweepRec
  <2>4. SweepOK(shape, n)
    BY <1>1, <2>3 DEF SweepOK
  <2>5. AttemptsFresh(n, task) /\ OpenFresh(n, job)
    BY <1>1, <1>2, <2>3 DEF AttemptsFresh, OpenFresh
  <2>6. Looks(p, n)
    BY <1>1, <1>3, <2>2, <2>3, <2>4, <2>5
       DEF Looks, HandlerOK, Requeues, WillReopen, WillEnqueue, Claims
  <2> QED
    BY <2>6, LooksStep
<1>4. CASE job[j] # "Canceled"
  <2>1. PICK n : n = [th EXCEPT !.pc = "list", !.j = j, !.fresh = @ \cup {j}]
    OBVIOUS
  <2>2. Goto(p, n)
    BY <1>4, <2>1 DEF ReconcileRead, Goto
  <2>3. /\ n \in SweepRec /\ n.op = "sweep" /\ n.pc = "list" /\ n.refs = {} /\ n.todo = th.todo
        /\ n.fresh = th.fresh \cup {j} /\ n.owes = th.owes /\ n.jobs = th.jobs /\ n.j = j
    BY <1>1, <1>2, <2>1 DEF SweepRec, Records
  <2>4. SweepOK(shape, n)
    BY <1>1, <2>3 DEF SweepOK
  <2>5. AttemptsFresh(n, task) /\ OpenFresh(n, job)
    BY <1>1, <1>2, <1>4, <2>3 DEF AttemptsFresh, OpenFresh
  <2>6. Looks(p, n)
    BY <1>1, <2>2, <2>3, <2>4, <2>5
       DEF Looks, HandlerOK, Requeues, WillReopen, WillEnqueue, Claims
  <2> QED
    BY <2>6, LooksStep
<1> QED
  BY <1>3, <1>4

\* The status from the tasks is Running only while the job is not over.
LEMMA StatusFacts ==
    ASSUME NEW j
    PROVE  /\ StatusFromTasks(j) \in {"Running", "Completed", "Failed"}
           /\ Clean(j) /\ StatusFromTasks(j) = "Running" => ~Settled(j)
BY DEF StatusFromTasks, Settled, Clean

LEMMA ReconcileListStep ==
    ASSUME Inv, NEW p \in Threads, ReconcileList(p)
    PROVE  Inv'
<1> DEFINE th == thread[p]
<1>1. /\ SweepOK(shape, th) /\ th.op = "sweep" /\ th.pc = "list"
      /\ UNCHANGED <<shape, job, task, queues, torn, given, cut, failures, reports>>
  BY KindOf DEF ReconcileList, At, rest
<1>2. th \in SweepRec /\ AttemptsFresh(th, task) /\ OpenFresh(th, job)
  BY <1>1, KindOf DEF SweepOK
<1>3. PICK st : st = StatusFromTasks(th.j)
  OBVIOUS
<1>4. PICK n : n = [th EXCEPT !.pc = "write", !.status = st]
  OBVIOUS
<1>5. Goto(p, n)
  BY <1>3, <1>4 DEF ReconcileList, Goto
<1>6. st \in {"Running", "Completed", "Failed"}
  BY <1>3, StatusFacts
<1>7. /\ n \in SweepRec /\ n.op = "sweep" /\ n.pc = "write" /\ n.refs = th.refs /\ n.todo = th.todo
      /\ n.fresh = th.fresh /\ n.owes = th.owes /\ n.jobs = th.jobs /\ n.j = th.j /\ n.status = st
  BY <1>1, <1>2, <1>4, <1>6 DEF SweepRec, JobStatus
<1>8. SweepOK(shape, n)
  BY <1>1, <1>6, <1>7 DEF SweepOK
<1>9. AttemptsFresh(n, task) /\ OpenFresh(n, job)
  BY <1>1, <1>2, <1>7 DEF AttemptsFresh, OpenFresh
<1>10. \A k \in Jobs : WillReopen(shape, n, k) => k = th.j /\ st = "Running"
  BY <1>7 DEF WillReopen
<1>11. Looks(p, n)
  BY <1>1, <1>3, <1>5, <1>7, <1>8, <1>9, <1>10, StatusFacts
     DEF Looks, HandlerOK, Requeues, WillEnqueue, Claims
<1> QED
  BY <1>11, LooksStep

LEMMA AssignBeginStep ==
    ASSUME Inv, NEW p \in Threads, NEW t \in Tasks, AssignBegin(p, t)
    PROVE  Inv'
<1> DEFINE th == thread[p]
<1>1. /\ AssignOK(shape, th) /\ th.op = "assign" /\ th.pc = "next" /\ th.claims[t] > 0
      /\ UNCHANGED <<shape, job, task, queues, torn, given, cut, failures, reports>>
  BY KindOf DEF AssignBegin, At, rest
<1>2. th \in AssignRec /\ AttemptsFresh(th, task) /\ OpenFresh(th, job)
  BY <1>1, KindOf DEF AssignOK
<1>3. JobOf(t) \in Jobs
  BY KindOf, ShapeFacts DEF JobOf
<1>4. PICK left : left = [th.claims EXCEPT ![t] = @ - 1]
  OBVIOUS
<1>5. left \in [Tasks -> Nat] /\ \A u \in Tasks : left[u] = IF u = t THEN th.claims[t] - 1 ELSE th.claims[u]
  BY <1>1, <1>2, <1>4 DEF AssignRec
<1>6. CASE job[JobOf(t)] = "Running"
  <2>1. PICK n : n = [th EXCEPT !.claims = left, !.pc = "task", !.t = t, !.fresh = {JobOf(t)}]
    OBVIOUS
  <2>2. Goto(p, n)
    BY <1>2, <1>4, <1>6, <2>1 DEF AssignBegin, Goto, AssignRec
  <2>3. /\ n \in AssignRec /\ n.op = "assign" /\ n.pc = "task" /\ n.claims = left
        /\ n.back = th.back /\ n.errs = th.errs /\ n.late = th.late /\ n.t = t
        /\ n.fresh = {JobOf(t)} /\ n.owes = th.owes
    BY <1>2, <1>3, <1>5, <2>1 DEF AssignRec, Records
  <2>4. AssignOK(shape, n)
    BY <1>1, <2>3 DEF AssignOK
  <2>5. AttemptsFresh(n, task) /\ OpenFresh(n, job)
    BY <1>6, <2>3 DEF AttemptsFresh, OpenFresh
  <2>6. \A u \in Tasks : Claims(th, u) => Claims(n, u)
    BY <1>1, <1>5, <2>3 DEF Claims
  <2>7. Looks(p, n)
    BY <1>1, <2>2, <2>3, <2>4, <2>5, <2>6
       DEF Looks, HandlerOK, Requeues, WillReopen, WillEnqueue
  <2> QED
    BY <2>7, LooksStep
<1>7. CASE job[JobOf(t)] # "Running"
  <2>1. PICK more : more = [th.back EXCEPT ![t] = @ + 1]
    OBVIOUS
  <2>2. more \in [Tasks -> Nat] /\ \A u \in Tasks : more[u] = IF u = t THEN th.back[t] + 1 ELSE th.back[u]
    BY <1>2, <2>1 DEF AssignRec
  <2>3. PICK n : n = [th EXCEPT !.claims = left, !.back = more]
    OBVIOUS
  <2>4. Goto(p, n)
    BY <1>2, <1>4, <1>7, <2>1, <2>3 DEF AssignBegin, Goto, AssignRec
  <2>5. /\ n \in AssignRec /\ n.op = "assign" /\ n.pc = "next" /\ n.claims = left
        /\ n.back = more /\ n.errs = th.errs /\ n.late = th.late
        /\ n.fresh = th.fresh /\ n.owes = th.owes
    BY <1>1, <1>2, <1>5, <2>2, <2>3 DEF AssignRec
  <2>6. AssignOK(shape, n)
    BY <1>1, <2>5 DEF AssignOK
  <2>7. AttemptsFresh(n, task) /\ OpenFresh(n, job)
    BY <1>1, <1>2, <2>5 DEF AttemptsFresh, OpenFresh
  <2>8. ASSUME NEW u \in Tasks, Claims(th, u) PROVE Claims(n, u)
    <3>1. th.claims[u] + th.back[u] + th.errs[u] > 0 /\ ~th.late
      BY <1>1, <2>8 DEF Claims
    <3>2. th.claims[u] \in Nat /\ th.back[u] \in Nat /\ th.errs[u] \in Nat
      BY <1>2 DEF AssignRec
    <3>3. left[u] + more[u] + th.errs[u] > 0
      BY <1>1, <1>5, <2>2, <3>1, <3>2
    <3> QED
      BY <2>5, <3>1, <3>3 DEF Claims
  <2>9. Looks(p, n)
    BY <1>1, <2>4, <2>5, <2>6, <2>7, <2>8
       DEF Looks, HandlerOK, Requeues, WillReopen, WillEnqueue
  <2> QED
    BY <2>9, LooksStep
<1> QED
  BY <1>6, <1>7

\* tryAssign gives up on a claim, and how.
LEMMA NotReadyFacts ==
    ASSUME Inv, NEW p \in Threads, thread[p].op = "assign", thread[p].pc # "next",
           NEW n, n = NotReady(p, thread[p].t) \/ n = Erred(p, thread[p].t)
    PROVE  /\ HandlerOK(shape, n)
           /\ n.op = "assign" /\ n.pc = "next" /\ n.fresh = {} /\ n.owes = {}
           /\ \A u \in Tasks : Claims(thread[p], u) => Claims(n, u)
           /\ AttemptsFresh(n, task)
           /\ \A jb : OpenFresh(n, jb)
           /\ \A u : ~WillEnqueue(shape, n, u) /\ ~Requeues(shape, n, u)
           /\ \A j : ~WillReopen(shape, n, j)
<1> DEFINE th == thread[p]
<1>1. AssignOK(shape, th) /\ th \in AssignRec /\ th.t \in Tasks
  BY KindOf DEF AssignOK
<1>2. PICK c : c = NextClaim(p)
  OBVIOUS
<1>3. /\ c \in AssignRec /\ c.op = "assign" /\ c.pc = "next" /\ c.fresh = {} /\ c.owes = {}
      /\ c.claims = th.claims /\ c.back = th.back /\ c.errs = th.errs /\ c.late = th.late
  BY <1>1, <1>2 DEF NextClaim, AssignRec, Records
<1>4. th.claims \in [Tasks -> Nat] /\ th.back \in [Tasks -> Nat] /\ th.errs \in [Tasks -> Nat]
  BY <1>1 DEF AssignRec
<1>5. /\ n \in AssignRec /\ n.op = "assign" /\ n.pc = "next" /\ n.fresh = {} /\ n.owes = {}
      /\ n.claims = th.claims /\ n.late = th.late
      /\ \/ n.back = [th.back EXCEPT ![th.t] = @ + 1] /\ n.errs = th.errs
         \/ n.errs = [th.errs EXCEPT ![th.t] = @ + 1] /\ n.back = th.back
  <2>1. CASE n = NotReady(p, th.t)
    <3>1. n = [c EXCEPT !.back = [c.back EXCEPT ![th.t] = @ + 1]]
      BY <1>2, <2>1 DEF NotReady
    <3>2. [c.back EXCEPT ![th.t] = @ + 1] \in [Tasks -> Nat]
      BY <1>1, <1>3, <1>4
    <3> QED
      BY <1>3, <3>1, <3>2 DEF AssignRec
  <2>2. CASE n = Erred(p, th.t)
    <3>1. n = [c EXCEPT !.errs = [c.errs EXCEPT ![th.t] = @ + 1]]
      BY <1>2, <2>2 DEF Erred
    <3>2. [c.errs EXCEPT ![th.t] = @ + 1] \in [Tasks -> Nat]
      BY <1>1, <1>3, <1>4
    <3> QED
      BY <1>3, <3>1, <3>2 DEF AssignRec
  <2> QED
    BY <2>1, <2>2
<1>6. AssignOK(shape, n)
  BY <1>5 DEF AssignOK
<1>7. ASSUME NEW u \in Tasks, Claims(th, u) PROVE Claims(n, u)
  <2>1. th.claims[u] \in Nat /\ th.back[u] \in Nat /\ th.errs[u] \in Nat
    BY <1>4
  <2>2. ~th.late /\ (th.claims[u] + th.back[u] + th.errs[u] > 0 \/ th.t = u)
    BY <1>7 DEF Claims
  <2>3. CASE n.back = [th.back EXCEPT ![th.t] = @ + 1] /\ n.errs = th.errs
    <3>1. n.back[u] = IF u = th.t THEN th.back[u] + 1 ELSE th.back[u]
      BY <1>1, <1>4, <2>3
    <3>2. n.claims[u] + n.back[u] + n.errs[u] > 0
      BY <1>5, <2>1, <2>2, <2>3, <3>1
    <3> QED
      BY <1>5, <2>2, <3>2 DEF Claims
  <2>4. CASE n.errs = [th.errs EXCEPT ![th.t] = @ + 1] /\ n.back = th.back
    <3>1. n.errs[u] = IF u = th.t THEN th.errs[u] + 1 ELSE th.errs[u]
      BY <1>1, <1>4, <2>4
    <3>2. n.claims[u] + n.back[u] + n.errs[u] > 0
      BY <1>5, <2>1, <2>2, <2>4, <3>1
    <3> QED
      BY <1>5, <2>2, <3>2 DEF Claims
  <2> QED
    BY <1>5, <2>3, <2>4
<1> QED
  BY <1>5, <1>6, <1>7 DEF HandlerOK, AttemptsFresh, OpenFresh, WillEnqueue, Requeues, WillReopen

LEMMA AssignReadStep ==
    ASSUME Inv, NEW p \in Threads, AssignRead(p)
    PROVE  Inv'
<1> DEFINE th == thread[p]
<1>1. /\ AssignOK(shape, th) /\ th.op = "assign" /\ th.pc = "task" /\ th.t \in Tasks
      /\ UNCHANGED <<shape, job, task, queues, torn, given, cut, failures, reports>>
  BY KindOf DEF AssignRead, At, rest, AssignOK
<1>2. th \in AssignRec /\ AttemptsFresh(th, task) /\ OpenFresh(th, job) /\ th.owes = {}
      /\ task[th.t] \in TaskRec
  BY <1>1, KindOf DEF AssignOK
<1>3. CASE Goto(p, NotReady(p, th.t))
  <2>1. PICK n : n = NotReady(p, th.t)
    OBVIOUS
  <2>2. Goto(p, n)
    BY <1>3, <2>1 DEF Goto
  <2>3. Looks(p, n)
    BY <1>1, <1>2, <2>1, <2>2, NotReadyFacts DEF Looks, WillEnqueue
  <2> QED
    BY <2>3, LooksStep
<1>4. CASE Goto(p, [th EXCEPT !.pc = "chosen", !.base = task[th.t], !.fresh = @ \cup {th.t}])
  <2>1. PICK n : n = [th EXCEPT !.pc = "chosen", !.base = task[th.t], !.fresh = @ \cup {th.t}]
    OBVIOUS
  <2>2. Goto(p, n)
    BY <1>4, <2>1 DEF Goto
  <2>3. /\ n \in AssignRec /\ n.op = "assign" /\ n.pc = "chosen" /\ n.claims = th.claims
        /\ n.back = th.back /\ n.errs = th.errs /\ n.late = th.late /\ n.t = th.t
        /\ n.fresh = th.fresh \cup {th.t} /\ n.owes = {} /\ n.base = task[th.t]
    BY <1>1, <1>2, <2>1 DEF AssignRec, Records
  <2>4. AssignOK(shape, n)
    BY <1>1, <1>2, <2>3 DEF AssignOK
  <2>5. AttemptsFresh(n, task) /\ OpenFresh(n, job)
    BY <1>1, <1>2, <2>3, RecordsApart DEF AttemptsFresh, OpenFresh
  <2>6. Looks(p, n)
    BY <1>1, <1>2, <2>2, <2>3, <2>4, <2>5
       DEF Looks, HandlerOK, Requeues, WillReopen, WillEnqueue, Claims
  <2> QED
    BY <2>6, LooksStep
<1> QED
  BY <1>3, <1>4 DEF AssignRead

LEMMA PreemptReadStep ==
    ASSUME Inv, NEW p \in Threads, PreemptRead(p)
    PROVE  Inv'
<1> DEFINE th == thread[p]
<1>1. /\ AssignOK(shape, th) /\ th.op = "assign" /\ th.pc = "chosen" /\ th.t \in Tasks
      /\ UNCHANGED <<shape, job, task, queues, torn, given, cut, failures, reports>>
  BY KindOf DEF PreemptRead, At, rest, AssignOK
<1>2. th \in AssignRec /\ AttemptsFresh(th, task) /\ OpenFresh(th, job) /\ th.owes = {}
  BY <1>1, KindOf DEF AssignOK
<1>3. PICK v \in Tasks :
        /\ shape.rank[JobOf(v)] < shape.rank[JobOf(th.t)]
        /\ Goto(p, [th EXCEPT !.pc = "victim", !.victim = <<v, task[v]>>, !.fresh = @ \cup {v}])
  BY DEF PreemptRead, Victims
<1>4. task[v] \in TaskRec
  BY KindOf
<1>5. PICK n : n = [th EXCEPT !.pc = "victim", !.victim = <<v, task[v]>>, !.fresh = @ \cup {v}]
  OBVIOUS
<1>6. Goto(p, n)
  BY <1>3, <1>5 DEF Goto
<1>7. /\ n \in AssignRec /\ n.op = "assign" /\ n.pc = "victim" /\ n.claims = th.claims
      /\ n.back = th.back /\ n.errs = th.errs /\ n.late = th.late /\ n.t = th.t
      /\ n.fresh = th.fresh \cup {v} /\ n.owes = {} /\ n.base = th.base
      /\ n.victim = <<v, task[v]>>
  BY <1>1, <1>2, <1>4, <1>5 DEF AssignRec, Records
<1>8. AssignOK(shape, n)
  BY <1>1, <1>2, <1>4, <1>7 DEF AssignOK
<1>9. AttemptsFresh(n, task)
  <2>1. th.t \in th.fresh => th.base.attempt = task[th.t].attempt
    BY <1>1, <1>2 DEF AttemptsFresh
  <2>2. \A k \in Jobs : shape.rank[k] \in Int
    BY KindOf, ShapeFacts DEF ShapeRecords
  <2>3. JobOf(v) \in Jobs
    BY KindOf, ShapeFacts DEF JobOf
  <2>4. v # th.t
    BY <2>2, <2>3, <1>3
  <2> QED
    BY <1>1, <1>7, <2>1, <2>4 DEF AttemptsFresh
<1>10. OpenFresh(n, job)
  BY <1>1, <1>2, <1>7, RecordsApart DEF OpenFresh
<1>11. Looks(p, n)
  BY <1>1, <1>2, <1>6, <1>7, <1>8, <1>9, <1>10
     DEF Looks, HandlerOK, Requeues, WillReopen, WillEnqueue, Claims
<1> QED
  BY <1>11, LooksStep

LEMMA ReportBeginStep ==
    ASSUME Inv, NEW p \in Threads, NEW r \in reports, NEW st \in {"Running", "Completed", "Failed"},
           ReportBegin(p, r, st)
    PROVE  Inv'
<1>1. /\ r \in ReportRec /\ r.of.task \in Tasks
  BY DEF Inv, TypeInv, ReportRec, AssignmentRec
<1>2. PICK j : j = JobOf(r.of.task)
  OBVIOUS
<1>3. j \in Jobs
  BY <1>1, <1>2, KindOf, ShapeFacts DEF JobOf
<1>4. PICK c \in BOOLEAN : c = (job[j] = "Canceled")
  OBVIOUS
<1>5. PICK n : n = [op |-> "report", pc |-> "task", r |-> r, status |-> st, canceled |-> c,
                    base |-> Nobody, refs |-> {}, fresh |-> {j}, owes |-> {}]
  OBVIOUS
<1>6. /\ Goto(p, n) /\ thread[p] = Idle /\ reports' \subseteq reports
      /\ UNCHANGED <<shape, job, task, queues, torn, given, cut, failures>>
  BY <1>2, <1>4, <1>5 DEF ReportBegin, Goto
<1>7. n \in ReportRecs /\ n.op = "report" /\ n.pc = "task" /\ n.owes = {} /\ n.fresh = {j}
      /\ n.canceled = c
  BY <1>1, <1>3, <1>5 DEF ReportRecs, Records
<1>8. ReportOK(shape, n)
  BY <1>7 DEF ReportOK
<1>9. AttemptsFresh(n, task) /\ OpenFresh(n, job)
  BY <1>4, <1>7 DEF AttemptsFresh, OpenFresh
<1>10. Looks(p, n)
  BY <1>6, <1>7, <1>8, <1>9, IdleFacts DEF Looks, HandlerOK, Requeues, WillReopen
<1> QED
  BY <1>10, LooksStep

LEMMA ReportReadStep ==
    ASSUME Inv, NEW p \in Threads, ReportRead(p)
    PROVE  Inv'
<1> DEFINE th == thread[p]
           t == th.r.of.task
           rec == task[t]
<1>1. /\ ReportOK(shape, th) /\ th.op = "report" /\ th.pc = "task"
      /\ UNCHANGED <<shape, job, task, queues, torn, given, cut, failures, reports>>
  BY KindOf DEF ReportRead, At, rest
<1>2. th \in ReportRecs /\ th.owes = {} /\ OpenFresh(th, job) /\ t \in Tasks /\ rec \in TaskRec
  BY <1>1, KindOf DEF ReportOK, ReportRecs, ReportRec, AssignmentRec
<1>3. ~\E u \in Tasks : Claims(th, u) \/ WillEnqueue(shape, th, u)
  BY <1>1 DEF Claims, WillEnqueue
<1>4. CASE Ignored(th.r, th.canceled, rec)
  <2>1. Goto(p, Idle)
    BY <1>4 DEF ReportRead, Goto
  <2>2. Looks(p, Idle)
    BY <1>1, <1>2, <1>3, <2>1, IdleFacts DEF Looks
  <2> QED
    BY <2>2, LooksStep
<1>5. CASE ~Ignored(th.r, th.canceled, rec)
  <2>1. PICK pc : pc = IF Retries(th.status, rec, t) THEN "retry" ELSE "write"
    OBVIOUS
  <2>2. PICK n : n = [th EXCEPT !.base = rec, !.fresh = @ \cup {t}, !.pc = pc]
    OBVIOUS
  <2>3. Goto(p, n)
    BY <1>5, <2>1, <2>2 DEF ReportRead, Goto
  <2>4. /\ n \in ReportRecs /\ n.op = "report" /\ n.pc = pc /\ n.r = th.r /\ n.status = th.status
        /\ n.canceled = th.canceled /\ n.base = rec /\ n.fresh = th.fresh \cup {t} /\ n.owes = {}
    BY <1>1, <1>2, <2>1, <2>2 DEF ReportRecs, Records
  <2>5. ~th.canceled
    BY <1>5 DEF Ignored
  <2>6. pc = "retry" <=> RetriesIn(shape, th.status, rec, t)
    BY <2>1 DEF Retries, RetriesIn
  <2>7. ReportOK(shape, n)
    BY <1>2, <2>1, <2>4, <2>5, <2>6 DEF ReportOK
  <2>8. AttemptsFresh(n, task) /\ OpenFresh(n, job)
    BY <1>1, <1>2, <2>4, <2>5, RecordsApart DEF AttemptsFresh, OpenFresh
  <2>9. \A u \in Tasks : ~Requeues(shape, n, u)
    BY <2>1, <2>4, <2>6 DEF Requeues
  <2>10. Looks(p, n)
    BY <1>1, <1>2, <1>3, <2>1, <2>3, <2>4, <2>7, <2>8, <2>9 DEF Looks, HandlerOK, WillReopen
  <2> QED
    BY <2>10, LooksStep
<1> QED
  BY <1>4, <1>5

LEMMA ReportListStep ==
    ASSUME Inv, NEW p \in Threads, ReportList(p)
    PROVE  Inv'
<1> DEFINE th == thread[p]
<1>1. /\ ReportOK(shape, th) /\ th.op = "report" /\ th.pc = "list"
      /\ UNCHANGED <<shape, job, task, queues, torn, given, cut, failures, reports>>
  BY KindOf DEF ReportList, At, rest
<1>2. th \in ReportRecs /\ OpenFresh(th, job) /\ th.r.of.task \in Tasks /\ ~th.canceled
  BY <1>1, KindOf DEF ReportOK, ReportRecs, ReportRec, AssignmentRec
<1>3. PICK j : j = JobOf(th.r.of.task)
  OBVIOUS
<1>4. j \in Jobs /\ j = shape.jobOf[th.r.of.task]
  BY <1>2, <1>3, KindOf, ShapeFacts DEF JobOf
<1>5. PICK refs : refs = IF th.status = "Completed"
                         THEN {t \in TasksOf(j) : task[t].status = "Queued" /\ dependenciesCompleted(t)}
                         ELSE {}
  OBVIOUS
<1>6. PICK st : st = StatusFromTasks(j)
  OBVIOUS
<1>7. PICK pc : pc = IF refs = {} THEN "job" ELSE "dependents"
  OBVIOUS
<1>8. PICK n : n = [th EXCEPT !.status = st, !.refs = refs, !.owes = {j} \cup refs, !.pc = pc]
  OBVIOUS
<1>9. Goto(p, n)
  BY <1>3, <1>5, <1>6, <1>7, <1>8 DEF ReportList, Goto
<1>10. st \in {"Running", "Completed", "Failed"} /\ refs \subseteq Tasks
  BY <1>5, <1>6, StatusFacts DEF TasksOf
<1>11. /\ n \in ReportRecs /\ n.op = "report" /\ n.pc = pc /\ n.r = th.r /\ n.status = st
       /\ n.canceled = th.canceled /\ n.fresh = th.fresh /\ n.owes = {j} \cup refs
       /\ n.refs = refs
  BY <1>1, <1>2, <1>4, <1>7, <1>8, <1>10 DEF ReportRecs, Records
<1>12. ReportOK(shape, n)
  BY <1>2, <1>4, <1>7, <1>11 DEF ReportOK
<1>13. AttemptsFresh(n, task) /\ OpenFresh(n, job)
  BY <1>1, <1>2, <1>7, <1>11 DEF AttemptsFresh, OpenFresh
<1>14. ASSUME NEW t \in Tasks, WillEnqueue(shape, th, t), Ready(t)
       PROVE  WillEnqueue(shape, n, t)
  <2>1. th.status = "Completed" /\ shape.jobOf[t] = j
    BY <1>1, <1>4, <1>14 DEF WillEnqueue
  <2>2. t \in refs
    BY <2>1, <1>5, <1>14 DEF TasksOf, Ready
  <2> QED
    BY <2>2, <1>7, <1>11 DEF WillEnqueue
<1>15. \A k \in Jobs : k \in th.owes => k \in n.owes
  BY <1>1, <1>4, <1>11, RecordsApart DEF ReportOK
<1>16. \A k \in Jobs : WillReopen(shape, n, k) => k = j /\ st = "Running"
  BY <1>4, <1>11 DEF WillReopen
<1>17. Looks(p, n)
  BY <1>1, <1>6, <1>7, <1>9, <1>11, <1>12, <1>13, <1>14, <1>15, <1>16, StatusFacts
     DEF Looks, HandlerOK, Requeues, Claims
<1> QED
  BY <1>17, LooksStep

LEMMA HeartbeatBeginStep ==
    ASSUME Inv, NEW p \in Threads, NEW w \in Workers, HeartbeatBegin(p, w)
    PROVE  Inv'
<1>1. PICK own : own = {t \in Tasks : /\ task[t].worker = w
                                      /\ task[t].status \in {"Running", "Assigned"}
                                      /\ task[t].lease # Nobody
                                      /\ task[t].expires # "past"}
  OBVIOUS
<1>2. PICK n : n = [op |-> "heartbeat", pc |-> "tasks", todo |-> [t \in own |-> task[t]],
                    fresh |-> own, owes |-> {}]
  OBVIOUS
<1>3. /\ Goto(p, n) /\ thread[p] = Idle
      /\ UNCHANGED <<shape, job, task, queues, torn, given, cut, failures, reports>>
  BY <1>1, <1>2 DEF HeartbeatBegin, Goto, rest
<1>4. own \subseteq Tasks /\ n.todo \in Copies /\ DOMAIN n.todo = own
      /\ \A t \in own : n.todo[t] = task[t] /\ task[t].status \in {"Running", "Assigned"}
  BY <1>1, <1>2, KindOf, NewCopies
<1>5. n \in HeartbeatRec /\ n.op = "heartbeat" /\ n.pc = "tasks" /\ n.fresh = own /\ n.owes = {}
  BY <1>2, <1>4 DEF HeartbeatRec, Records
<1>6. HeartbeatOK(shape, n)
  BY <1>4, <1>5 DEF HeartbeatOK
<1>7. AttemptsFresh(n, task) /\ OpenFresh(n, job)
  BY <1>4, <1>5 DEF AttemptsFresh, OpenFresh
<1>8. Looks(p, n)
  BY <1>3, <1>5, <1>6, <1>7, IdleFacts DEF Looks, HandlerOK, Requeues, WillReopen
<1> QED
  BY <1>8, LooksStep

LEMMA CancelBeginStep ==
    ASSUME Inv, NEW p \in Threads, NEW j \in Jobs, CancelBegin(p, j)
    PROVE  Inv'
<1>1. PICK n : n = [op |-> "cancel", pc |-> "job", j |-> j, todo |-> [t \in {} |-> NewTask],
                    fresh |-> {j}, owes |-> {}]
  OBVIOUS
<1>2. /\ Goto(p, n) /\ thread[p] = Idle
      /\ UNCHANGED <<shape, job, task, queues, torn, given, cut, failures, reports>>
  BY <1>1 DEF CancelBegin, Goto, rest
<1>3. [t \in {} |-> NewTask] \in [{} -> TaskRec]
  OBVIOUS
<1>4. n.todo \in Copies /\ DOMAIN n.todo = {}
  BY <1>1, <1>3 DEF Copies
<1>5. n \in CancelRec /\ n.op = "cancel" /\ n.pc = "job" /\ n.fresh = {j} /\ n.owes = {}
  BY <1>1, <1>4 DEF CancelRec, Records
<1>6. CancelOK(shape, n)
  BY <1>4, <1>5 DEF CancelOK
<1>7. AttemptsFresh(n, task) /\ OpenFresh(n, job)
  BY <1>4, <1>5 DEF AttemptsFresh, OpenFresh
<1>8. Looks(p, n)
  BY <1>2, <1>5, <1>6, <1>7, IdleFacts DEF Looks, HandlerOK, Requeues, WillReopen
<1> QED
  BY <1>8, LooksStep

LEMMA CancelListStep ==
    ASSUME Inv, NEW p \in Threads, CancelList(p)
    PROVE  Inv'
<1> DEFINE th == thread[p]
<1>1. /\ CancelOK(shape, th) /\ th.op = "cancel" /\ th.pc = "list" /\ th \in CancelRec
      /\ th.owes = {}
      /\ UNCHANGED <<shape, job, task, queues, torn, given, cut, failures, reports>>
  BY KindOf DEF CancelList, At, rest, CancelOK
<1>2. PICK open : open = {t \in TasksOf(th.j) : task[t].status \in {"Queued", "Running"}}
  OBVIOUS
<1>3. ~\E u \in Tasks : Claims(th, u) \/ WillEnqueue(shape, th, u)
  BY <1>1 DEF Claims, WillEnqueue
<1>4. CASE open = {}
  <2>1. Goto(p, Idle)
    BY <1>2, <1>4 DEF CancelList, Goto
  <2>2. Looks(p, Idle)
    BY <1>1, <1>3, <2>1, IdleFacts DEF Looks
  <2> QED
    BY <2>2, LooksStep
<1>5. CASE open # {}
  <2>1. PICK n : n = [th EXCEPT !.pc = "tasks", !.fresh = open, !.todo = [t \in open |-> task[t]]]
    OBVIOUS
  <2>2. Goto(p, n)
    BY <1>2, <1>5, <2>1 DEF CancelList, Goto
  <2>3. open \subseteq Tasks /\ \A t \in open : shape.jobOf[t] = th.j
    BY <1>2 DEF TasksOf
  <2>4. [t \in open |-> task[t]] \in Copies
    BY <2>3, KindOf, NewCopies
  <2>5. /\ n \in CancelRec /\ n.op = "cancel" /\ n.pc = "tasks" /\ n.fresh = open /\ n.owes = {}
        /\ n.j = th.j /\ n.todo = [t \in open |-> task[t]]
    BY <1>1, <2>1, <2>3, <2>4 DEF CancelRec, Records
  <2>6. CancelOK(shape, n)
    BY <2>3, <2>5 DEF CancelOK
  <2>7. AttemptsFresh(n, task) /\ OpenFresh(n, job)
    BY <2>5 DEF AttemptsFresh, OpenFresh
  <2>8. Looks(p, n)
    BY <1>1, <1>3, <2>2, <2>5, <2>6, <2>7 DEF Looks, HandlerOK, Requeues, WillReopen
  <2> QED
    BY <2>8, LooksStep
<1> QED
  BY <1>4, <1>5

---------------------------------------------------------------------------
(* Steps that move refs. *)

LEMMA PutFacts ==
    ASSUME TypeInv, NEW copies \in [Tasks -> Nat], Put(copies)
    PROVE  /\ queue' \in [Tasks -> Nat]
           /\ \A t \in Tasks : queue[t] > 0 \/ copies[t] > 0 => queue'[t] > 0
<1>1. queue \in [Tasks -> Nat] /\ MaxRefs \in Nat \ {0}
  BY LimitsAssumption DEF TypeInv
<1> QED
  BY <1>1 DEF Put

LEMMA EnqueueFacts ==
    ASSUME TypeInv, NEW refs \in SUBSET Tasks, EnqueueMany(refs)
    PROVE  /\ queue' \in [Tasks -> Nat]
           /\ \A t \in Tasks : queue[t] > 0 \/ t \in refs => queue'[t] > 0
<1> DEFINE copies == [t \in Tasks |-> IF t \in refs THEN 1 ELSE 0]
<1>1. copies \in [Tasks -> Nat] /\ \A t \in refs : copies[t] > 0
  OBVIOUS
<1>2. Put(copies)
  BY DEF EnqueueMany
<1> HIDE DEF copies
<1> QED
  BY <1>1, <1>2, PutFacts

Shifts(p, n) ==
    /\ Goto(p, n)
    /\ UNCHANGED <<shape, job, task, torn, given>>
    /\ queue' \in [Tasks -> Nat] /\ nacks' \in [Tasks -> 0..(NackLimit - 1)]
    /\ dead' \in [Tasks -> Nat] /\ reports' \subseteq ReportRec
    /\ cut \subseteq cut' /\ cut' \subseteq Records /\ failures' \in Nat
    /\ HandlerOK(shape, n)
    /\ AttemptsFresh(n, task) /\ OpenFresh(n, job)
    /\ n.op = "cancel" => n = thread[p]
    /\ KeepsWork(p, n)
    /\ \A t \in Tasks : Claims(thread[p], t) => Claims(n, t) \/ queue'[t] > 0 \/ dead'[t] > 0
    /\ \A t \in Tasks : Requeues(shape, n, t) => queue'[t] > 0
    /\ \A j \in Jobs : j \in thread[p].owes => j \in n.owes \/ j \in cut'
    /\ \A j \in Jobs : WillReopen(shape, n, j) => WillReopen(shape, thread[p], j)

LEMMA ShiftsStep ==
    ASSUME Inv, NEW p \in Threads, NEW n, Shifts(p, n)
    PROVE  Inv'
<1>1. Moves(p, n, {})
  BY GotoMoves DEF Shifts, Inv
<1>2. TypeInv'
  BY <1>1, QuietTypes DEF Shifts, Inv
<1>3. Quiet(p, n)
  BY <1>1 DEF Shifts, Quiet
<1> QED
  BY <1>2, <1>3, QuietStep DEF Inv

LEMMA SweepEnqueueStep ==
    ASSUME Inv, NEW p \in Threads, SweepEnqueue(p)
    PROVE  Inv'
<1> DEFINE th == thread[p]
<1>1. /\ SweepOK(shape, th) /\ th.op = "sweep" /\ th.pc = "tasks" /\ DOMAIN th.todo = {}
      /\ UNCHANGED <<shape, job, task, torn, given, nacks, dead, cut, failures, reports>>
  BY KindOf DEF SweepEnqueue, Swept, At, rest
<1>2. th \in SweepRec /\ AttemptsFresh(th, task) /\ OpenFresh(th, job) /\ th.refs \in SUBSET Tasks
  BY <1>1, KindOf DEF SweepOK, SweepRec
<1>3. PICK n : n = [th EXCEPT !.refs = {}, !.owes = @ \cap Jobs]
  OBVIOUS
<1>4. Goto(p, n)
  BY <1>3 DEF SweepEnqueue, Goto
<1>5. /\ n \in SweepRec /\ n.op = "sweep" /\ n.pc = "tasks" /\ n.refs = {} /\ n.todo = th.todo
      /\ n.fresh = th.fresh /\ n.owes = th.owes \cap Jobs /\ n.jobs = th.jobs
  BY <1>1, <1>2, <1>3 DEF SweepRec, Records
<1>6. SweepOK(shape, n)
  BY <1>1, <1>5 DEF SweepOK
<1>7. AttemptsFresh(n, task) /\ OpenFresh(n, job)
  BY <1>1, <1>2, <1>5 DEF AttemptsFresh, OpenFresh
<1>8. PICK refs \in SUBSET Tasks : refs = th.refs
  BY <1>2
<1>9. EnqueueMany(refs)
  BY <1>8 DEF SweepEnqueue, EnqueueMany, Put
<1>10. queue' \in [Tasks -> Nat] /\ \A t \in Tasks : queue[t] > 0 \/ t \in th.refs => queue'[t] > 0
  BY <1>8, <1>9, EnqueueFacts DEF Inv
<1>11. KeepsWork(p, n)
  BY <1>1, <1>10 DEF KeepsWork, HasRef, WillEnqueue
<1>12. Shifts(p, n)
  BY <1>1, <1>4, <1>5, <1>6, <1>7, <1>10, <1>11
     DEF Shifts, HandlerOK, Claims, Requeues, WillReopen, Inv, TypeInv
<1> QED
  BY <1>12, ShiftsStep

LEMMA ClaimStep ==
    ASSUME Inv, NEW p \in Threads, NEW w \in Workers, Claim(p, w)
    PROVE  Inv'
<1> DEFINE th == thread[p]
<1>1. /\ UNCHANGED <<shape, job, task, torn, given, nacks, dead, cut, failures, reports>>
      /\ queue' = NoRefs /\ queue \in [Tasks -> Nat]
      /\ NoRefs \in [Tasks -> Nat] /\ \A t \in Tasks : NoRefs[t] = 0
  BY DEF Claim, rest, NoRefs, Inv, TypeInv
<1>2. /\ \A t \in Tasks : ~Claims(th, t) /\ ~WillEnqueue(shape, th, t)
      /\ \A j \in Jobs : j \notin th.owes
  <2>1. CASE th = Idle
    BY <2>1, IdleFacts
  <2>2. CASE Swept(p) /\ th.refs = {} /\ th.jobs = {}
    <3>1. SweepOK(shape, th) /\ th.op = "sweep"
      BY <2>2, KindOf DEF Swept, At
    <3> QED
      BY <2>2, <3>1 DEF SweepOK, Claims, WillEnqueue
  <2> QED
    BY <2>1, <2>2 DEF Claim
<1>3. CASE queue = NoRefs
  <2>1. Goto(p, Idle)
    BY <1>3 DEF Claim, Goto
  <2>2. KeepsWork(p, Idle)
    BY <1>1, <1>2, <1>3 DEF KeepsWork, HasRef
  <2>3. Shifts(p, Idle)
    BY <1>1, <1>2, <2>1, <2>2, IdleFacts DEF Shifts, Inv, TypeInv
  <2> QED
    BY <2>3, ShiftsStep
<1>4. CASE queue # NoRefs
  <2>1. PICK n : n = Assigning(w, queue)
    OBVIOUS
  <2>2. Goto(p, n)
    BY <1>4, <2>1 DEF Claim, Goto
  <2>3. /\ n \in AssignRec /\ n.op = "assign" /\ n.pc = "next" /\ n.claims = queue
        /\ n.back = NoRefs /\ n.errs = NoRefs /\ n.late = FALSE /\ n.fresh = {} /\ n.owes = {}
    BY <1>1, <2>1 DEF Assigning, AssignRec
  <2>4. AssignOK(shape, n)
    BY <2>3 DEF AssignOK
  <2>5. AttemptsFresh(n, task) /\ OpenFresh(n, job)
    BY <2>3 DEF AttemptsFresh, OpenFresh
  <2>6. \A t \in Tasks : queue[t] > 0 => Claims(n, t)
    BY <1>1, <2>3 DEF Claims
  <2>7. KeepsWork(p, n)
    BY <1>1, <1>2, <2>6 DEF KeepsWork, HasRef
  <2>8. Shifts(p, n)
    BY <1>1, <1>2, <2>2, <2>3, <2>4, <2>5, <2>7
       DEF Shifts, HandlerOK, Requeues, WillReopen, Inv, TypeInv
  <2> QED
    BY <2>8, ShiftsStep
<1> QED
  BY <1>3, <1>4

LEMMA ClaimsOfFacts ==
    ASSUME Inv, NEW p \in Threads
    PROVE  /\ ClaimsOf(p) \in [Tasks -> Nat]
           /\ \A t \in Tasks : Claims(thread[p], t) => ClaimsOf(p)[t] > 0
           /\ ClaimsOf(p) # NoRefs => thread[p].op = "assign"
<1> DEFINE th == thread[p]
<1>1. NoRefs \in [Tasks -> Nat]
  BY DEF NoRefs
<1>2. CASE th.op # "assign" \/ th.late
  <2>1. ClaimsOf(p) = NoRefs
    BY <1>2 DEF ClaimsOf
  <2>2. \A t \in Tasks : ~Claims(th, t)
    BY <1>2 DEF Claims
  <2> QED
    BY <1>1, <2>1, <2>2
<1>3. CASE th.op = "assign" /\ ~th.late
  <2>1. th.claims \in [Tasks -> Nat] /\ th.back \in [Tasks -> Nat] /\ th.errs \in [Tasks -> Nat]
    BY <1>3, KindOf DEF AssignOK, AssignRec
  <2>2. ClaimsOf(p) = [t \in Tasks |-> th.claims[t] + th.back[t] + th.errs[t]
                                       + IF th.pc # "next" /\ th.t = t THEN 1 ELSE 0]
    BY <1>3 DEF ClaimsOf
  <2>3. \A t \in Tasks : th.claims[t] \in Nat /\ th.back[t] \in Nat /\ th.errs[t] \in Nat
    BY <2>1
  <2>4. ASSUME NEW t \in Tasks, Claims(th, t) PROVE ClaimsOf(p)[t] > 0
    BY <2>2, <2>3, <2>4 DEF Claims
  <2> QED
    BY <1>3, <2>2, <2>3, <2>4
<1> QED
  BY <1>2, <1>3

\* Of some errors that are counted from a on, at most as many make a letter.
LEMMA LettersFacts ==
    ASSUME NEW a \in 0..(NackLimit - 1), NEW e \in Nat
    PROVE  /\ (a + e) % NackLimit \in 0..(NackLimit - 1)
           /\ (a + e) \div NackLimit \in Nat
           /\ (a + e) \div NackLimit <= e
<1>1. NackLimit \in Nat \ {0}
  BY LimitsAssumption
<1> QED
  BY <1>1

LEMMA VisibilityLapsesStep ==
    ASSUME Inv, NEW p \in Threads, VisibilityLapses(p)
    PROVE  Inv'
<1> DEFINE th == thread[p]
<1>1. /\ UNCHANGED <<shape, job, task, torn, given, nacks, dead, cut, reports>>
      /\ failures' = failures + 1 /\ Put(ClaimsOf(p)) /\ th.op = "assign" /\ failures \in Nat
  BY ClaimsOfFacts DEF VisibilityLapses, Inv, TypeInv
<1>2. AssignOK(shape, th) /\ th \in AssignRec /\ AttemptsFresh(th, task) /\ OpenFresh(th, job)
  BY <1>1, KindOf DEF AssignOK
<1>3. PICK n : n = [th EXCEPT !.late = TRUE]
  OBVIOUS
<1>4. Goto(p, n)
  BY <1>3 DEF VisibilityLapses, Goto
<1>5. /\ n \in AssignRec /\ n.op = "assign" /\ n.pc = th.pc /\ n.t = th.t /\ n.base = th.base
      /\ n.victim = th.victim /\ n.fresh = th.fresh /\ n.owes = th.owes
  BY <1>1, <1>2, <1>3 DEF AssignRec
<1>6. AssignOK(shape, n)
  BY <1>2, <1>5 DEF AssignOK
<1>7. AttemptsFresh(n, task) /\ OpenFresh(n, job)
  BY <1>1, <1>2, <1>5 DEF AttemptsFresh, OpenFresh
<1>8. PICK c \in [Tasks -> Nat] : c = ClaimsOf(p)
  BY ClaimsOfFacts
<1>9. Put(c)
  BY <1>1, <1>8 DEF Put
<1>10. /\ queue' \in [Tasks -> Nat]
       /\ \A t \in Tasks : queue[t] > 0 \/ Claims(th, t) => queue'[t] > 0
  BY <1>8, <1>9, PutFacts, ClaimsOfFacts DEF Inv
<1>11. KeepsWork(p, n)
  BY <1>1, <1>5, <1>10 DEF KeepsWork, HasRef, WillEnqueue
<1>12. Shifts(p, n)
  BY <1>1, <1>4, <1>5, <1>6, <1>7, <1>10, <1>11
     DEF Shifts, HandlerOK, Requeues, WillReopen, Inv, TypeInv
<1> QED
  BY <1>12, ShiftsStep

LEMMA PreemptEnqueueStep ==
    ASSUME Inv, NEW p \in Threads, PreemptEnqueue(p)
    PROVE  Inv'
<1> DEFINE th == thread[p]
<1>1. /\ UNCHANGED <<shape, job, task, torn, given, nacks, dead, cut, failures, reports>>
      /\ th.op = "assign" /\ th.pc = "requeue"
  BY DEF PreemptEnqueue, At, rest
<1>2. /\ AssignOK(shape, th) /\ th \in AssignRec /\ AttemptsFresh(th, task) /\ OpenFresh(th, job)
      /\ th.victim[1] \in Tasks /\ th.owes = {th.victim[1]}
  BY <1>1, KindOf DEF AssignOK
<1>3. PICK n : n = [th EXCEPT !.pc = "preempted", !.victim = Nobody, !.owes = {}]
  OBVIOUS
<1>4. Goto(p, n)
  BY <1>3 DEF PreemptEnqueue, Goto
<1>5. /\ n \in AssignRec /\ n.op = "assign" /\ n.pc = "preempted" /\ n.t = th.t /\ n.base = th.base
      /\ n.fresh = th.fresh /\ n.owes = {} /\ n.claims = th.claims /\ n.back = th.back
      /\ n.errs = th.errs /\ n.late = th.late
  BY <1>1, <1>2, <1>3 DEF AssignRec
<1>6. AssignOK(shape, n)
  BY <1>1, <1>2, <1>5 DEF AssignOK
<1>7. AttemptsFresh(n, task) /\ OpenFresh(n, job)
  BY <1>1, <1>2, <1>5 DEF AttemptsFresh, OpenFresh
<1>8. PICK refs \in SUBSET Tasks : refs = {th.victim[1]}
  BY <1>2
<1>9. EnqueueMany(refs)
  BY <1>8 DEF PreemptEnqueue, EnqueueMany, Put
<1>10. /\ queue' \in [Tasks -> Nat]
       /\ \A t \in Tasks : queue[t] > 0 \/ t = th.victim[1] => queue'[t] > 0
  BY <1>8, <1>9, EnqueueFacts DEF Inv
<1>11. KeepsWork(p, n)
  BY <1>1, <1>10 DEF KeepsWork, HasRef, WillEnqueue
<1>12. \A t \in Tasks : Claims(th, t) => Claims(n, t)
  BY <1>1, <1>5 DEF Claims
<1>13. Shifts(p, n)
  BY <1>1, <1>2, <1>4, <1>5, <1>6, <1>7, <1>10, <1>11, <1>12, RecordsApart
     DEF Shifts, HandlerOK, Requeues, WillReopen, Inv, TypeInv
<1> QED
  BY <1>13, ShiftsStep

LEMMA AssignFailsStep ==
    ASSUME Inv, NEW p \in Threads, AssignFails(p)
    PROVE  Inv'
<1> DEFINE th == thread[p]
<1>1. /\ UNCHANGED <<shape, job, task, queues, torn, given, reports>>
      /\ failures' = failures + 1 /\ failures \in Nat /\ cut' = cut \cup th.owes
      /\ th.op = "assign" /\ th.pc # "next" /\ cut \subseteq Records
  BY DEF AssignFails, Inv, TypeInv
<1>2. th.owes \subseteq Records /\ AssignOK(shape, th)
  BY <1>1, KindOf
<1>3. PICK n : n = Erred(p, th.t)
  OBVIOUS
<1>4. Goto(p, n)
  BY <1>3 DEF AssignFails, Goto
<1>5. KeepsWork(p, n)
  <2>1. \A t \in Tasks : WillEnqueue(shape, th, t) => t \in th.owes
    BY <1>1, <1>2 DEF WillEnqueue, AssignOK
  <2> QED
    BY <2>1, <1>1 DEF KeepsWork, HasRef, queues
<1>6. /\ HandlerOK(shape, n) /\ n.op = "assign" /\ AttemptsFresh(n, task) /\ OpenFresh(n, job)
      /\ \A u \in Tasks : Claims(th, u) => Claims(n, u)
      /\ \A u : ~Requeues(shape, n, u)
      /\ \A j : ~WillReopen(shape, n, j)
  BY <1>1, <1>3, NotReadyFacts
<1>7. /\ queue' \in [Tasks -> Nat] /\ nacks' \in [Tasks -> 0..(NackLimit - 1)]
      /\ dead' \in [Tasks -> Nat] /\ reports' \subseteq ReportRec
      /\ cut \subseteq cut' /\ cut' \subseteq Records /\ failures' \in Nat
  BY <1>1, <1>2 DEF Inv, TypeInv, queues
<1>8. Shifts(p, n)
  BY <1>1, <1>4, <1>5, <1>6, <1>7 DEF Shifts
<1> QED
  BY <1>8, ShiftsStep

LEMMA HandlerStopsStep ==
    ASSUME Inv, NEW p \in Threads, HandlerStops(p)
    PROVE  Inv'
<1> DEFINE th == thread[p]
<1>1. /\ UNCHANGED <<shape, job, task, nacks, dead, torn, given, reports>>
      /\ failures' = failures + 1 /\ failures \in Nat /\ cut' = cut \cup th.owes
      /\ cut \subseteq Records /\ Put(ClaimsOf(p)) /\ Goto(p, Idle)
  BY DEF HandlerStops, Done, Inv, TypeInv
<1>2. th.owes \subseteq Records
  BY KindOf
<1>3. PICK c \in [Tasks -> Nat] : c = ClaimsOf(p)
  BY ClaimsOfFacts
<1>4. Put(c)
  BY <1>1, <1>3 DEF Put
<1>5. /\ queue' \in [Tasks -> Nat]
      /\ \A t \in Tasks : queue[t] > 0 \/ Claims(th, t) => queue'[t] > 0
  BY <1>3, <1>4, PutFacts, ClaimsOfFacts DEF Inv
<1>6. ASSUME NEW t \in Tasks, WillEnqueue(shape, th, t) PROVE t \in th.owes
  <2>1. CASE th.op = "sweep"
    BY <1>6, <2>1, KindOf DEF WillEnqueue, SweepOK
  <2>2. CASE th.op = "assign"
    BY <1>6, <2>2, KindOf DEF WillEnqueue, AssignOK
  <2>3. CASE th.op = "report"
    BY <1>6, <2>3, KindOf DEF WillEnqueue, ReportOK
  <2> QED
    BY <1>6, <2>1, <2>2, <2>3 DEF WillEnqueue
<1>7. KeepsWork(p, Idle)
  BY <1>1, <1>5, <1>6 DEF KeepsWork, HasRef
<1>8. Shifts(p, Idle)
  BY <1>1, <1>2, <1>5, <1>7, IdleFacts DEF Shifts, Inv, TypeInv
<1> QED
  BY <1>8, ShiftsStep

LEMMA ReportRetryStep ==
    ASSUME Inv, NEW p \in Threads, ReportRetry(p)
    PROVE  Inv'
<1> DEFINE th == thread[p]
<1>1. /\ UNCHANGED <<shape, job, task, torn, given, nacks, dead, cut, failures, reports>>
      /\ th.op = "report" /\ th.pc = "retry"
  BY DEF ReportRetry, At, rest
<1>2. /\ ReportOK(shape, th) /\ th \in ReportRecs /\ AttemptsFresh(th, task) /\ OpenFresh(th, job)
      /\ th.r.of.task \in Tasks
  BY <1>1, KindOf DEF ReportOK, ReportRecs, ReportRec, AssignmentRec
<1>3. PICK n : n = [th EXCEPT !.pc = "write"]
  OBVIOUS
<1>4. Goto(p, n)
  BY <1>3 DEF ReportRetry, Goto
<1>5. /\ n \in ReportRecs /\ n.op = "report" /\ n.pc = "write" /\ n.r = th.r /\ n.base = th.base
      /\ n.fresh = th.fresh /\ n.owes = th.owes /\ n.canceled = th.canceled /\ n.status = th.status
  BY <1>1, <1>2, <1>3 DEF ReportRecs
<1>6. ReportOK(shape, n)
  BY <1>1, <1>2, <1>5 DEF ReportOK
<1>7. AttemptsFresh(n, task) /\ OpenFresh(n, job)
  BY <1>1, <1>2, <1>5 DEF AttemptsFresh, OpenFresh
<1>8. PICK refs \in SUBSET Tasks : refs = {th.r.of.task}
  BY <1>2
<1>9. EnqueueMany(refs)
  BY <1>8 DEF ReportRetry, EnqueueMany, Put
<1>10. /\ queue' \in [Tasks -> Nat]
       /\ \A t \in Tasks : queue[t] > 0 \/ t = th.r.of.task => queue'[t] > 0
  BY <1>8, <1>9, EnqueueFacts DEF Inv
<1>11. KeepsWork(p, n)
  BY <1>1, <1>10 DEF KeepsWork, HasRef, WillEnqueue
<1>12. Shifts(p, n)
  BY <1>1, <1>4, <1>5, <1>6, <1>7, <1>10, <1>11
     DEF Shifts, HandlerOK, Claims, Requeues, WillReopen, Inv, TypeInv
<1> QED
  BY <1>12, ShiftsStep

LEMMA ReportDependentsStep ==
    ASSUME Inv, NEW p \in Threads, ReportDependents(p)
    PROVE  Inv'
<1> DEFINE th == thread[p]
           j == shape.jobOf[th.r.of.task]
<1>1. /\ UNCHANGED <<shape, job, task, torn, given, nacks, dead, cut, failures, reports>>
      /\ th.op = "report" /\ th.pc = "dependents"
  BY DEF ReportDependents, At, rest
<1>2. /\ ReportOK(shape, th) /\ th \in ReportRecs /\ OpenFresh(th, job)
      /\ th.r.of.task \in Tasks /\ th.refs \in SUBSET Tasks
  BY <1>1, KindOf DEF ReportOK, ReportRecs, ReportRec, AssignmentRec
<1>3. th.owes = {j} \cup th.refs /\ j \in Jobs
  BY <1>1, <1>2, KindOf, ShapeFacts DEF ReportOK
<1>4. th.owes \ Tasks = {j}
  BY <1>2, <1>3, RecordsApart
<1>5. PICK n : n = [th EXCEPT !.pc = "job", !.refs = {}, !.owes = @ \ Tasks]
  OBVIOUS
<1>6. Goto(p, n)
  BY <1>5 DEF ReportDependents, Goto
<1>7. /\ n \in ReportRecs /\ n.op = "report" /\ n.pc = "job" /\ n.r = th.r
      /\ n.fresh = th.fresh /\ n.owes = {j} /\ n.canceled = th.canceled /\ n.status = th.status
  BY <1>1, <1>2, <1>3, <1>4, <1>5 DEF ReportRecs, Records
<1>8. ReportOK(shape, n)
  BY <1>1, <1>2, <1>7 DEF ReportOK
<1>9. AttemptsFresh(n, task) /\ OpenFresh(n, job)
  BY <1>1, <1>2, <1>7 DEF AttemptsFresh, OpenFresh
<1>10. PICK refs \in SUBSET Tasks : refs = th.refs
  BY <1>2
<1>11. EnqueueMany(refs)
  BY <1>10 DEF ReportDependents, EnqueueMany, Put
<1>12. /\ queue' \in [Tasks -> Nat]
       /\ \A t \in Tasks : queue[t] > 0 \/ t \in th.refs => queue'[t] > 0
  BY <1>10, <1>11, EnqueueFacts DEF Inv
<1>13. KeepsWork(p, n)
  BY <1>1, <1>12 DEF KeepsWork, HasRef, WillEnqueue
<1>14. Shifts(p, n)
  BY <1>1, <1>2, <1>3, <1>6, <1>7, <1>8, <1>9, <1>12, <1>13, RecordsApart
     DEF Shifts, HandlerOK, Claims, Requeues, WillReopen, Inv, TypeInv
<1> QED
  BY <1>14, ShiftsStep

LEMMA PollEndStep ==
    ASSUME Inv, NEW p \in Threads, PollEnd(p)
    PROVE  Inv'
<1> DEFINE th == thread[p]
           errs == IF th.late THEN NoRefs ELSE th.errs
           Errors(t) == (IF t \in Acked(p) THEN 0 ELSE nacks[t]) + errs[t]
           Letters(t) == Errors(t) \div NackLimit
           Returns(t) == IF t \in Acked(p) THEN ClaimsOf(p)[t] - 1 ELSE ClaimsOf(p)[t]
           copies == [t \in Tasks |-> IF th.late THEN 0 ELSE Returns(t) - Letters(t)]
<1>1. /\ UNCHANGED <<shape, job, task, given, torn, cut, failures>>
      /\ th.op = "assign" /\ th.pc \in {"next", "settle"} /\ Goto(p, Idle)
      /\ nacks' = [t \in Tasks |-> Errors(t) % NackLimit]
      /\ dead' = [t \in Tasks |-> dead[t] + Letters(t)]
      /\ Put(copies)
      /\ reports' = reports \cup
            {[of |-> Assignment(t, th.base), final |-> f] : t \in Acked(p), f \in BOOLEAN}
  BY DEF PollEnd, Done
<1>2. AssignOK(shape, th) /\ th \in AssignRec /\ th.owes = {}
  BY <1>1, KindOf DEF AssignOK
<1>3. \A t \in Tasks : th.claims[t] \in Nat /\ th.back[t] \in Nat /\ th.errs[t] \in Nat
  BY <1>2 DEF AssignRec
<1>4. /\ Acked(p) \subseteq Tasks
      /\ \A t \in Acked(p) : th.pc = "settle" /\ th.t = t /\ th.base \in TaskRec
  BY <1>2 DEF Acked, AssignOK
<1>5. \A t \in Tasks : NoRefs[t] = 0 /\ nacks[t] \in 0..(NackLimit - 1) /\ dead[t] \in Nat
  BY DEF NoRefs, Inv, TypeInv
<1>6. \A t \in Tasks : errs[t] = IF th.late THEN 0 ELSE th.errs[t]
  BY <1>5
<1>7. ASSUME NEW t \in Tasks
      PROVE  /\ Errors(t) % NackLimit \in 0..(NackLimit - 1)
             /\ Letters(t) \in Nat
             /\ Letters(t) <= errs[t]
             /\ errs[t] \in Nat
  <2>1. PICK a : a = IF t \in Acked(p) THEN 0 ELSE nacks[t]
    OBVIOUS
  <2>2. a \in 0..(NackLimit - 1) /\ errs[t] \in Nat
    BY <2>1, <1>3, <1>5, <1>6, LimitsAssumption
  <2>3. PICK e \in Nat : e = errs[t]
    BY <2>2
  <2>4. Errors(t) = a + e
    BY <2>1, <2>3
  <2> HIDE DEF Errors
  <2> QED
    BY <2>2, <2>3, <2>4, LettersFacts
<1>8. ASSUME NEW t \in Tasks, ~th.late
      PROVE  /\ Returns(t) \in Nat
             /\ Returns(t) = th.claims[t] + th.back[t] + th.errs[t]
  <2>1. ClaimsOf(p)[t] = th.claims[t] + th.back[t] + th.errs[t]
                         + IF th.pc # "next" /\ th.t = t THEN 1 ELSE 0
    BY <1>1, <1>8 DEF ClaimsOf
  <2>2. t \in Acked(p) <=> th.pc # "next" /\ th.t = t
    BY <1>1 DEF Acked
  <2>3. Returns(t) = th.claims[t] + th.back[t] + th.errs[t]
    BY <1>3, <2>1, <2>2
  <2> QED
    BY <1>3, <2>3
<1> HIDE DEF Errors, Letters, Returns
<1>9. copies \in [Tasks -> Nat]
  <2> SUFFICES ASSUME NEW t \in Tasks, ~th.late PROVE Returns(t) - Letters(t) \in Nat
    OBVIOUS
  <2> QED
    BY <1>3, <1>6, <1>7, <1>8
<1>10. \A t \in Tasks : copies[t] = IF th.late THEN 0 ELSE Returns(t) - Letters(t)
  OBVIOUS
<1> HIDE DEF copies
<1>11. PICK c \in [Tasks -> Nat] : c = copies
  BY <1>9
<1>12. Put(c)
  BY <1>1, <1>11 DEF Put
<1>13. /\ queue' \in [Tasks -> Nat]
       /\ \A t \in Tasks : queue[t] > 0 \/ copies[t] > 0 => queue'[t] > 0
  BY <1>11, <1>12, PutFacts DEF Inv
<1>14. /\ nacks' \in [Tasks -> 0..(NackLimit - 1)]
       /\ dead' \in [Tasks -> Nat]
       /\ \A t \in Tasks : dead[t] > 0 \/ Letters(t) > 0 => dead'[t] > 0
  BY <1>1, <1>5, <1>7
<1>15. ASSUME NEW t \in Tasks, Claims(th, t) PROVE queue'[t] > 0 \/ dead'[t] > 0
  <2>1. ~th.late /\ th.claims[t] + th.back[t] + th.errs[t] > 0
    BY <1>1, <1>15 DEF Claims
  <2>2. Returns(t) \in Nat /\ Returns(t) > 0 /\ Letters(t) \in Nat
    BY <2>1, <1>7, <1>8
  <2>3. copies[t] > 0 \/ Letters(t) > 0
    BY <2>1, <2>2, <1>10
  <2> QED
    BY <2>3, <1>13, <1>14
<1>16. reports' \subseteq ReportRec
  <2>1. ASSUME NEW t \in Acked(p), NEW f \in BOOLEAN
        PROVE  [of |-> Assignment(t, th.base), final |-> f] \in ReportRec
    <3>1. Assignment(t, th.base) \in AssignmentRec
      BY <1>4 DEF Assignment, AssignmentRec, TaskRec
    <3> QED
      BY <3>1 DEF ReportRec
  <2>2. reports \subseteq ReportRec
    BY DEF Inv, TypeInv
  <2> QED
    BY <2>1, <2>2, <1>1
<1>17. KeepsWork(p, Idle)
  BY <1>1, <1>2, <1>13, <1>14 DEF KeepsWork, HasRef, WillEnqueue
<1>18. Shifts(p, Idle)
  BY <1>1, <1>2, <1>13, <1>14, <1>15, <1>16, <1>17, IdleFacts DEF Shifts, Inv, TypeInv
<1> QED
  BY <1>18, ShiftsStep

---------------------------------------------------------------------------
(* Steps that write a task. *)

LEMMA WriteTaskInv ==
    ASSUME Inv, NEW p \in Threads, NEW n, NEW x \in Tasks, NEW rec \in TaskRec,
           WritesTask(p, n, x, rec), HandlerOK(shape, n),
           UNCHANGED <<reports, failures>>, given' \subseteq AssignmentRec, IsFiniteSet(given')
    PROVE  Inv'
<1>1. /\ task' = [task EXCEPT ![x] = rec] /\ Tears(p, x)
      /\ \E X \in {{}, {x}} : Moves(p, n, X)
  BY TaskMoves DEF WritesTask, Inv
<1>2. PICK X : Moves(p, n, X)
  BY <1>1
<1>3. /\ \A q \in Threads : HandlerOK(shape, thread'[q])
      /\ DOMAIN thread' = Threads /\ thread' = [q \in Threads |-> thread'[q]]
  BY <1>2 DEF Moves, OthersKeep
<1>4. torn' \subseteq Records /\ task' \in [Tasks -> TaskRec]
  BY <1>1 DEF Tears, Records, Inv, TypeInv
<1>5. TypeInv'
  BY <1>3, <1>4 DEF TypeInv, Inv, WritesTask, queues
<1> QED
  BY <1>5, WriteTaskStep DEF Inv

LEMMA WriteTaskKeeps ==
    ASSUME Inv, NEW p \in Threads, NEW n, NEW x \in Tasks, NEW rec \in TaskRec,
           WritesTask(p, n, x, rec), HandlerOK(shape, n), UNCHANGED rest
    PROVE  Inv'
<1>1. UNCHANGED <<reports, failures>> /\ given' \subseteq AssignmentRec /\ IsFiniteSet(given')
  BY DEF rest, Inv, TypeInv
<1> QED
  BY <1>1, WriteTaskInv

LEMMA SweepTaskStep ==
    ASSUME Inv, NEW p \in Threads, NEW t \in Tasks, SweepTask(p, t)
    PROVE  Inv'
<1> DEFINE th == thread[p]
<1>1. /\ SweepOK(shape, th) /\ th.op = "sweep" /\ th.pc = "tasks" /\ t \in DOMAIN th.todo
      /\ UNCHANGED <<job, queues, rest>>
  BY KindOf DEF SweepTask, At
<1>2. /\ th \in SweepRec /\ AttemptsFresh(th, task) /\ OpenFresh(th, job) /\ th.todo \in Copies
      /\ task[t] \in TaskRec /\ shape \in Shapes
  BY <1>1, KindOf DEF SweepOK, SweepRec
<1>3. PICK timedOut \in {FALSE, (t \in shape.timeout)} :
        LET rec == Requeued(th.todo[t], timedOut, t)
        IN  UpdateTask(p, t, rec, [th EXCEPT
                !.todo = Without(@, t),
                !.refs = IF rec.status = "Queued" THEN @ \cup {t} ELSE @,
                !.owes = @ \cup {t, JobOf(t)}])
  BY DEF SweepTask
<1>4. PICK old : old = th.todo[t]
  OBVIOUS
<1>5. old \in TaskRec /\ (t \in th.fresh => old.attempt = task[t].attempt)
  BY <1>1, <1>2, <1>4, CopiesFacts DEF AttemptsFresh
<1>6. PICK rec : rec = Requeued(old, timedOut, t)
  OBVIOUS
<1>7. rec \in TaskRec /\ rec.status \in {"Failed", "Queued"} /\ rec.attempt = old.attempt
  BY <1>5, <1>6 DEF Requeued, TaskRec, TaskStatus, Holder, Lease
<1>8. PICK left : left = Without(th.todo, t)
  OBVIOUS
<1>9. /\ left \in Copies /\ DOMAIN left = DOMAIN th.todo \ {t}
      /\ \A u \in DOMAIN left : left[u] = th.todo[u]
  BY <1>2, <1>8, CopiesFacts
<1>10. PICK j : j = JobOf(t)
  OBVIOUS
<1>11. j \in Jobs /\ j \in th.jobs /\ j = shape.jobOf[t]
  BY <1>1, <1>2, <1>10, ShapeFacts DEF JobOf, SweepOK
<1>12. PICK refs : refs = IF rec.status = "Queued" THEN th.refs \cup {t} ELSE th.refs
  OBVIOUS
<1>13. PICK n : n = [th EXCEPT !.todo = left, !.refs = refs, !.owes = @ \cup {t, j}]
  OBVIOUS
<1>14. UpdateTask(p, t, rec, n)
  BY <1>3, <1>4, <1>6, <1>8, <1>10, <1>12, <1>13 DEF UpdateTask, Overwrite
<1>15. /\ n \in SweepRec /\ n.op = "sweep" /\ n.pc = "tasks" /\ n.refs = refs /\ n.todo = left
       /\ n.fresh = th.fresh /\ n.owes = th.owes \cup {t, j} /\ n.jobs = th.jobs
  BY <1>1, <1>2, <1>9, <1>11, <1>12, <1>13 DEF SweepRec, Records
<1>16. SweepOK(shape, n)
  BY <1>1, <1>9, <1>11, <1>12, <1>15, RecordsApart DEF SweepOK
<1>17. PICK tk : tk = [task EXCEPT ![t] = rec]
  OBVIOUS
<1>18. \A u \in Tasks \ {t} : tk[u] = task[u]
  BY <1>17, KindOf
<1>19. DOMAIN left \subseteq Tasks \ {t}
  BY <1>2, <1>9, CopiesFacts
<1>20. AttemptsFresh(n, tk) /\ OpenFresh(n, job)
  BY <1>1, <1>2, <1>9, <1>15, <1>18, <1>19 DEF AttemptsFresh, OpenFresh
<1>21. rec.attempt \in Nat /\ task[t].attempt \in Nat
  BY <1>2, <1>7 DEF TaskRec
<1>22. WritesTask(p, n, t, rec)
  BY <1>1, <1>5, <1>7, <1>10, <1>11, <1>12, <1>14, <1>15, <1>17, <1>20, <1>21
     DEF WritesTask, rest, Claims, WillEnqueue, Requeues, WillReopen
<1> QED
  BY <1>1, <1>7, <1>16, <1>22, WriteTaskKeeps DEF HandlerOK

LEMMA PreemptWriteStep ==
    ASSUME Inv, NEW p \in Threads, PreemptWrite(p)
    PROVE  Inv'
<1> DEFINE th == thread[p]
<1>1. /\ AssignOK(shape, th) /\ th.op = "assign" /\ th.pc = "victim"
      /\ UNCHANGED <<job, queues, rest>>
  BY KindOf DEF PreemptWrite, At
<1>2. /\ th \in AssignRec /\ AttemptsFresh(th, task) /\ OpenFresh(th, job)
      /\ th.victim \in Tasks \X TaskRec /\ th.t \in Tasks /\ th.base \in TaskRec
      /\ task \in [Tasks -> TaskRec]
  BY <1>1, KindOf DEF AssignOK
<1>3. PICK v \in Tasks, old \in TaskRec : th.victim = <<v, old>>
  BY <1>2
<1>4. v \in th.fresh => old.attempt = task[v].attempt
  BY <1>1, <1>2, <1>3 DEF AttemptsFresh
<1>5. PICK rec : rec = [old EXCEPT !.status = "Queued", !.worker = Nobody,
                                   !.lease = Nobody, !.expires = "zero"]
  OBVIOUS
<1>6. rec \in TaskRec /\ rec.status = "Queued" /\ rec.attempt = old.attempt
  BY <1>3, <1>5 DEF TaskRec, TaskStatus, Holder, Lease
<1>7. PICK n : n = [th EXCEPT !.pc = "requeue", !.owes = {v}]
  OBVIOUS
<1>8. UpdateTask(p, v, rec, n)
  BY <1>3, <1>5, <1>7 DEF PreemptWrite, UpdateTask, Overwrite
<1>9. /\ n \in AssignRec /\ n.op = "assign" /\ n.pc = "requeue" /\ n.t = th.t /\ n.base = th.base
      /\ n.fresh = th.fresh /\ n.owes = {v} /\ n.claims = th.claims /\ n.back = th.back
      /\ n.errs = th.errs /\ n.late = th.late /\ n.victim = <<v, old>>
  BY <1>1, <1>2, <1>3, <1>7 DEF AssignRec, Records
<1>10. AssignOK(shape, n)
  BY <1>2, <1>9 DEF AssignOK
<1>11. PICK tk : tk = [task EXCEPT ![v] = rec]
  OBVIOUS
<1>12. \A u \in Tasks : u \in th.fresh => tk[u].attempt = task[u].attempt
  BY <1>2, <1>4, <1>6, <1>11
<1>13. AttemptsFresh(n, tk) /\ OpenFresh(n, job)
  BY <1>1, <1>2, <1>9, <1>12 DEF AttemptsFresh, OpenFresh
<1>14. rec.attempt \in Nat /\ task[v].attempt \in Nat
  BY <1>2, <1>6 DEF TaskRec
<1>15. \A u \in Tasks : Claims(th, u) => Claims(n, u)
  BY <1>1, <1>9 DEF Claims
<1>16. WritesTask(p, n, v, rec)
  BY <1>1, <1>4, <1>6, <1>8, <1>9, <1>11, <1>13, <1>14, <1>15, RecordsApart
     DEF WritesTask, rest, WillEnqueue, Requeues, WillReopen, AssignOK
<1> QED
  BY <1>1, <1>6, <1>10, <1>16, WriteTaskKeeps DEF HandlerOK

LEMMA AssignWriteStep ==
    ASSUME Inv, NEW p \in Threads, AssignWrite(p)
    PROVE  Inv'
<1> DEFINE th == thread[p]
<1>1. /\ AssignOK(shape, th) /\ th.op = "assign" /\ th.pc \in {"chosen", "preempted"}
      /\ UNCHANGED <<shape, job, queues, reports, cut, failures>>
  BY KindOf DEF AssignWrite, Placed, At
<1>2. /\ th \in AssignRec /\ AttemptsFresh(th, task) /\ OpenFresh(th, job)
      /\ th.t \in Tasks /\ th.base \in TaskRec /\ th.owes = {} /\ th.w \in Workers
      /\ task \in [Tasks -> TaskRec]
  BY <1>1, KindOf DEF AssignOK, AssignRec
<1>3. PICK t \in Tasks : t = th.t
  BY <1>2
<1>4. PICK old \in TaskRec : old = th.base
  BY <1>2
<1>5. t \in th.fresh => old.attempt = task[t].attempt
  BY <1>1, <1>2, <1>3, <1>4 DEF AttemptsFresh
<1>6. Cardinality(given) + 1 \in Nat
  BY FS_CardinalityType DEF Inv, TypeInv
<1>7. PICK rec : rec = Leased(th.w, old)
  OBVIOUS
<1>8. rec \in TaskRec /\ rec.status = "Assigned" /\ rec.attempt = old.attempt + 1
  <2>1. PICK l \in Nat : l = Cardinality(given) + 1
    BY <1>6
  <2>2. PICK a \in Nat : a = old.attempt + 1
    BY <1>4 DEF TaskRec
  <2>3. rec = [old EXCEPT !.status = "Assigned", !.worker = th.w, !.attempt = a,
                          !.lease = l, !.expires = "future"]
    BY <1>7, <2>1, <2>2 DEF Leased
  <2> QED
    BY <1>2, <1>4, <2>2, <2>3 DEF TaskRec, TaskStatus, Holder, Lease
<1>9. PICK n : n = [th EXCEPT !.pc = "assigned", !.base = rec]
  OBVIOUS
<1>10. UpdateTask(p, t, rec, n) /\ given' = given \cup {Assignment(t, rec)}
  BY <1>3, <1>4, <1>7, <1>9 DEF AssignWrite, UpdateTask, Overwrite
<1>11. /\ n \in AssignRec /\ n.op = "assign" /\ n.pc = "assigned" /\ n.t = t /\ n.base = rec
       /\ n.fresh = th.fresh /\ n.owes = {} /\ n.claims = th.claims /\ n.back = th.back
       /\ n.errs = th.errs /\ n.late = th.late
  BY <1>1, <1>2, <1>3, <1>8, <1>9 DEF AssignRec
<1>12. AssignOK(shape, n)
  BY <1>3, <1>8, <1>11 DEF AssignOK
<1>13. PICK tk : tk = [task EXCEPT ![t] = rec]
  OBVIOUS
<1>14. AttemptsFresh(n, tk) /\ OpenFresh(n, job)
  <2>1. tk[t] = rec
    BY <1>2, <1>3, <1>13
  <2> QED
    BY <2>1, <1>1, <1>2, <1>11 DEF AttemptsFresh, OpenFresh
<1>15. rec.attempt \in Nat /\ task[t].attempt \in Nat /\ old.attempt \in Nat
  BY <1>2, <1>3, <1>4, <1>8 DEF TaskRec
<1>16. t \in th.fresh => rec.attempt >= task[t].attempt /\ rec.attempt # task[t].attempt
  BY <1>5, <1>8, <1>15
<1>17. \A u \in Tasks : Claims(th, u) => Claims(n, u) \/ u = t
  BY <1>1, <1>3, <1>11 DEF Claims
<1>18. /\ Assignment(t, rec) \in AssignmentRec
       /\ Assignment(t, rec).task = t /\ Assignment(t, rec).attempt = rec.attempt
  BY <1>3, <1>8 DEF Assignment, AssignmentRec, TaskRec
<1>19. given' \subseteq AssignmentRec /\ IsFiniteSet(given')
  <2>1. given \subseteq AssignmentRec /\ IsFiniteSet(given)
    BY DEF Inv, TypeInv
  <2> QED
    BY <2>1, <1>10, <1>18, FS_AddElement
<1>20. \A a \in given' : a \in given \/ (a.task = t /\ a.attempt = rec.attempt)
  BY <1>10, <1>18
<1>21. WritesTask(p, n, t, rec)
  BY <1>1, <1>2, <1>8, <1>10, <1>11, <1>13, <1>14, <1>16, <1>17, <1>20
     DEF WritesTask, WillEnqueue, Requeues, WillReopen
<1> QED
  BY <1>1, <1>3, <1>8, <1>12, <1>19, <1>21, WriteTaskInv DEF HandlerOK

LEMMA DenyWriteStep ==
    ASSUME Inv, NEW p \in Threads, DenyWrite(p)
    PROVE  Inv'
<1> DEFINE th == thread[p]
<1>1. /\ AssignOK(shape, th) /\ th.op = "assign" /\ th.pc \in {"chosen", "preempted"}
      /\ UNCHANGED <<job, queues, rest>>
  BY KindOf DEF DenyWrite, Placed, At
<1>2. /\ th \in AssignRec /\ AttemptsFresh(th, task) /\ OpenFresh(th, job)
      /\ th.t \in Tasks /\ th.base \in TaskRec /\ th.owes = {} /\ shape \in Shapes
      /\ task \in [Tasks -> TaskRec]
  BY <1>1, KindOf DEF AssignOK, AssignRec
<1>3. PICK t \in Tasks : t = th.t
  BY <1>2
<1>4. PICK old \in TaskRec : old = th.base
  BY <1>2
<1>5. t \in th.fresh => old.attempt = task[t].attempt
  BY <1>1, <1>2, <1>3, <1>4 DEF AttemptsFresh
<1>6. PICK rec : rec = [old EXCEPT !.status = "Failed"]
  OBVIOUS
<1>7. rec \in TaskRec /\ rec.status = "Failed" /\ rec.attempt = old.attempt
  BY <1>4, <1>6 DEF TaskRec, TaskStatus
<1>8. PICK j \in Jobs : j = JobOf(t) /\ j = shape.jobOf[t]
  BY <1>2, <1>3, ShapeFacts DEF JobOf
<1>9. PICK n : n = [th EXCEPT !.pc = "denied", !.owes = {j}]
  OBVIOUS
<1>10. UpdateTask(p, t, rec, n)
  BY <1>3, <1>4, <1>6, <1>8, <1>9 DEF DenyWrite, UpdateTask, Overwrite
<1>11. /\ n \in AssignRec /\ n.op = "assign" /\ n.pc = "denied" /\ n.t = t /\ n.base = old
       /\ n.fresh = th.fresh /\ n.owes = {j} /\ n.claims = th.claims /\ n.back = th.back
       /\ n.errs = th.errs /\ n.late = th.late
  BY <1>1, <1>2, <1>3, <1>4, <1>8, <1>9 DEF AssignRec, Records
<1>12. AssignOK(shape, n)
  BY <1>3, <1>4, <1>8, <1>11 DEF AssignOK
<1>13. PICK tk : tk = [task EXCEPT ![t] = rec]
  OBVIOUS
<1>14. AttemptsFresh(n, tk) /\ OpenFresh(n, job)
  <2>1. tk[t] = rec
    BY <1>2, <1>3, <1>13
  <2> QED
    BY <2>1, <1>1, <1>2, <1>5, <1>7, <1>11 DEF AttemptsFresh, OpenFresh
<1>15. rec.attempt \in Nat /\ task[t].attempt \in Nat /\ old.attempt \in Nat
  BY <1>2, <1>3, <1>4, <1>7 DEF TaskRec
<1>16. \A u \in Tasks : Claims(th, u) => Claims(n, u)
  BY <1>1, <1>3, <1>11 DEF Claims
<1>17. WritesTask(p, n, t, rec)
  BY <1>1, <1>2, <1>5, <1>7, <1>8, <1>10, <1>11, <1>13, <1>14, <1>15, <1>16
     DEF WritesTask, rest, WillEnqueue, Requeues, WillReopen
<1> QED
  BY <1>1, <1>3, <1>7, <1>12, <1>17, WriteTaskKeeps DEF HandlerOK

LEMMA ReportedFacts ==
    ASSUME NEW r \in ReportRec, NEW status \in {"Running", "Completed", "Failed"},
           NEW old \in TaskRec
    PROVE  /\ Reported(r, status, old) \in TaskRec
           /\ Reported(r, status, old).attempt = old.attempt
           /\ Reported(r, status, old).status =
                 IF Retries(status, old, r.of.task) THEN "Queued" ELSE status
<1>1. KeyOf(r) \in Holder \X Nat \X BOOLEAN /\ r.of.worker \in Holder
  BY DEF KeyOf, ReportRec, AssignmentRec
<1>2. PICK settled : settled = [old EXCEPT !.key = KeyOf(r), !.lease = Nobody, !.expires = "zero"]
  OBVIOUS
<1>3. settled \in TaskRec /\ settled.attempt = old.attempt
  BY <1>1, <1>2 DEF TaskRec, Lease
<1>4. CASE status = "Running"
  <2>1. Reported(r, status, old) = [settled EXCEPT !.status = "Running", !.worker = r.of.worker]
    BY <1>2, <1>4 DEF Reported, Retries
  <2> QED
    BY <2>1, <1>1, <1>3, <1>4 DEF TaskRec, TaskStatus, Retries
<1>5. CASE status = "Completed"
  <2>1. Reported(r, status, old) = [settled EXCEPT !.status = "Completed"]
    BY <1>2, <1>5 DEF Reported, Retries
  <2> QED
    BY <2>1, <1>1, <1>3, <1>5 DEF TaskRec, TaskStatus, Retries
<1>6. CASE Retries(status, old, r.of.task)
  <2>1. Reported(r, status, old) =
          [settled EXCEPT !.status = "Queued", !.worker = Nobody, !.expires = "future"]
    BY <1>2, <1>6 DEF Reported, Retries
  <2> QED
    BY <2>1, <1>1, <1>3, <1>6 DEF TaskRec, TaskStatus, Holder
<1>7. CASE status = "Failed" /\ ~Retries(status, old, r.of.task)
  <2>1. Reported(r, status, old) = [settled EXCEPT !.status = "Failed"]
    BY <1>2, <1>7 DEF Reported
  <2> QED
    BY <2>1, <1>1, <1>3, <1>7 DEF TaskRec, TaskStatus
<1> QED
  BY <1>4, <1>5, <1>6, <1>7 DEF Retries

LEMMA ReportWriteStep ==
    ASSUME Inv, NEW p \in Threads, ReportWrite(p)
    PROVE  Inv'
<1> DEFINE th == thread[p]
<1>1. /\ ReportOK(shape, th) /\ th.op = "report" /\ th.pc = "write"
      /\ UNCHANGED <<job, queues, rest>>
  BY KindOf DEF ReportWrite, At
<1>2. /\ th \in ReportRecs /\ AttemptsFresh(th, task) /\ OpenFresh(th, job) /\ ~th.canceled
      /\ th.r.of.task \in Tasks /\ th.base \in TaskRec /\ th.owes = {} /\ shape \in Shapes
      /\ th.r \in ReportRec /\ th.status \in {"Running", "Completed", "Failed"}
      /\ task \in [Tasks -> TaskRec]
  BY <1>1, KindOf DEF ReportOK, ReportRecs, ReportRec, AssignmentRec
<1>3. PICK t \in Tasks : t = th.r.of.task
  BY <1>2
<1>4. PICK old \in TaskRec : old = th.base
  BY <1>2
<1>5. t \in th.fresh => old.attempt = task[t].attempt
  BY <1>1, <1>2, <1>3, <1>4 DEF AttemptsFresh
<1>6. PICK rec : rec = Reported(th.r, th.status, old)
  OBVIOUS
<1>7. /\ rec \in TaskRec /\ rec.attempt = old.attempt
      /\ rec.status = IF RetriesIn(shape, th.status, old, t) THEN "Queued" ELSE th.status
  BY <1>2, <1>3, <1>4, <1>6, ReportedFacts DEF Retries, RetriesIn
<1>8. PICK j \in Jobs : j = JobOf(t) /\ j = shape.jobOf[t]
  BY <1>2, <1>3, ShapeFacts DEF JobOf
<1>9. rec.attempt \in Nat /\ task[t].attempt \in Nat
  BY <1>2, <1>3, <1>7 DEF TaskRec
<1>10. \A u \in Tasks : ~Claims(th, u) /\ ~WillEnqueue(shape, th, u)
  BY <1>1 DEF Claims, WillEnqueue
<1>11. rec.status = "Queued" => Requeues(shape, th, t) \/ t \notin th.fresh
  BY <1>1, <1>2, <1>3, <1>4, <1>7 DEF Requeues
<1>12. CASE th.status = "Running"
  <2>1. UpdateTask(p, t, rec, Idle)
    BY <1>3, <1>4, <1>6, <1>12 DEF ReportWrite, UpdateTask, Overwrite
  <2>2. rec.status = "Running"
    BY <1>7, <1>12 DEF RetriesIn
  <2>3. WritesTask(p, Idle, t, rec)
    BY <1>1, <1>2, <1>5, <1>7, <1>9, <1>10, <2>1, <2>2, IdleFacts DEF WritesTask, rest
  <2> QED
    BY <1>1, <1>7, <2>3, IdleFacts, WriteTaskKeeps
<1>13. CASE th.status # "Running"
  <2>1. PICK owes : owes = {j} \cup IF th.status = "Completed" THEN TasksOf(j) ELSE {}
    OBVIOUS
  <2>2. PICK n : n = [th EXCEPT !.pc = "list", !.base = Nobody, !.owes = owes]
    OBVIOUS
  <2>3. UpdateTask(p, t, rec, n)
    BY <1>3, <1>4, <1>6, <1>8, <1>13, <2>1, <2>2 DEF ReportWrite, UpdateTask, Overwrite
  <2>4. owes \subseteq Records
    BY <2>1 DEF TasksOf, Records
  <2>5. /\ n \in ReportRecs /\ n.op = "report" /\ n.pc = "list" /\ n.r = th.r
        /\ n.status = th.status /\ n.canceled = th.canceled /\ n.fresh = th.fresh
        /\ n.owes = owes
    BY <1>1, <1>2, <2>2, <2>4 DEF ReportRecs
  <2>6. ReportOK(shape, n)
    BY <1>2, <1>3, <1>8, <2>1, <2>5 DEF ReportOK, TasksOf
  <2>7. PICK tk : tk = [task EXCEPT ![t] = rec]
    OBVIOUS
  <2>8. AttemptsFresh(n, tk) /\ OpenFresh(n, job)
    BY <1>1, <1>2, <2>5 DEF AttemptsFresh, OpenFresh
  <2>9. rec.status = "Completed" => \A u \in Tasks : JobOf(u) = j => WillEnqueue(shape, n, u)
    BY <1>3, <1>7, <1>8, <2>5 DEF WillEnqueue, JobOf
  <2>10. WritesTask(p, n, t, rec)
    BY <1>1, <1>2, <1>5, <1>7, <1>8, <1>9, <1>10, <1>11, <2>1, <2>3, <2>5, <2>7, <2>8, <2>9
       DEF WritesTask, rest, Requeues, WillReopen
  <2> QED
    BY <1>1, <1>7, <2>6, <2>10, WriteTaskKeeps DEF HandlerOK
<1> QED
  BY <1>12, <1>13

LEMMA WriteNextFacts ==
    ASSUME Inv, NEW p \in Threads, thread[p].op \in {"heartbeat", "cancel"},
           NEW t \in DOMAIN thread[p].todo, NEW rec \in TaskRec, WriteNext(p, t, rec),
           rec.attempt = thread[p].todo[t].attempt,
           \/ rec.status = "Canceled" /\ thread[p].op = "cancel" /\ thread[p].pc = "tasks"
           \/ rec.status \in {"Running", "Assigned"}
    PROVE  Inv'
<1> DEFINE th == thread[p]
<1>1. HandlerOK(shape, th) /\ AttemptsFresh(th, task) /\ task \in [Tasks -> TaskRec]
      /\ th.fresh \subseteq Records
  BY KindOf
<1>2. th.todo \in Copies /\ th.owes = {} /\ UNCHANGED <<job, queues, rest>>
  BY KindOf DEF HeartbeatOK, HeartbeatRec, CancelOK, CancelRec, WriteNext
<1>3. t \in Tasks /\ (t \in th.fresh => rec.attempt = task[t].attempt)
  BY <1>1, <1>2, CopiesFacts DEF AttemptsFresh
<1>4. rec.attempt \in Nat /\ task[t].attempt \in Nat
  BY <1>1, <1>3 DEF TaskRec
<1>5. \A u \in Tasks : ~Claims(th, u) /\ ~WillEnqueue(shape, th, u)
  BY DEF Claims, WillEnqueue
<1>6. th.op = "cancel" => th.j = JobOf(t)
  BY KindOf DEF CancelOK, JobOf
<1>7. CASE DOMAIN th.todo = {t}
  <2>1. UpdateTask(p, t, rec, Idle)
    BY <1>7 DEF WriteNext, UpdateTask, Overwrite
  <2>2. PICK n : n = Idle
    OBVIOUS
  <2>3. /\ AttemptsFresh(n, [task EXCEPT ![t] = rec]) /\ OpenFresh(n, job)
        /\ n.op = "idle" /\ HandlerOK(shape, n) /\ UpdateTask(p, t, rec, n)
    BY <2>1, <2>2, IdleFacts DEF UpdateTask, Overwrite
  <2>4. WritesTask(p, n, t, rec)
    BY <1>2, <1>3, <1>4, <1>5, <1>6, <2>3 DEF WritesTask, rest, Requeues, WillReopen
  <2> QED
    BY <1>2, <1>3, <2>3, <2>4, WriteTaskKeeps
<1>8. CASE DOMAIN th.todo # {t}
  <2>1. PICK left : left = Without(th.todo, t)
    OBVIOUS
  <2>2. /\ left \in Copies /\ DOMAIN left = DOMAIN th.todo \ {t} /\ DOMAIN th.todo \subseteq Tasks
        /\ \A u \in DOMAIN left : left[u] = th.todo[u]
    BY <1>2, <2>1, CopiesFacts
  <2>3. PICK n : n = [th EXCEPT !.todo = left]
    OBVIOUS
  <2>4. UpdateTask(p, t, rec, n)
    BY <1>8, <2>1, <2>3 DEF WriteNext, UpdateTask, Overwrite
  <2>5. /\ n.op = th.op /\ n.pc = th.pc /\ n.fresh = th.fresh /\ n.owes = {} /\ n.todo = left
        /\ n.op = "cancel" => n.j = th.j
        /\ HandlerOK(shape, n)
    <3>1. CASE th.op = "heartbeat"
      <4>1. HeartbeatOK(shape, th) /\ th \in HeartbeatRec
        BY <3>1, KindOf DEF HeartbeatOK
      <4>2. /\ n \in HeartbeatRec /\ n.op = th.op /\ n.pc = th.pc /\ n.fresh = th.fresh
            /\ n.owes = {} /\ n.todo = left
        BY <1>2, <2>2, <2>3, <4>1 DEF HeartbeatRec
      <4>3. HeartbeatOK(shape, n)
        BY <2>2, <4>1, <4>2 DEF HeartbeatOK
      <4> QED
        BY <3>1, <4>2, <4>3 DEF HandlerOK
    <3>2. CASE th.op = "cancel"
      <4>1. CancelOK(shape, th) /\ th \in CancelRec
        BY <3>2, KindOf DEF CancelOK
      <4>2. /\ n \in CancelRec /\ n.op = th.op /\ n.pc = th.pc /\ n.fresh = th.fresh
            /\ n.owes = {} /\ n.todo = left /\ n.j = th.j
        BY <1>2, <2>2, <2>3, <4>1 DEF CancelRec
      <4>3. CancelOK(shape, n)
        BY <2>2, <4>1, <4>2 DEF CancelOK
      <4> QED
        BY <3>2, <4>2, <4>3 DEF HandlerOK
    <3> QED
      BY <3>1, <3>2
  <2>6. PICK tk : tk = [task EXCEPT ![t] = rec]
    OBVIOUS
  <2>7. \A u \in Tasks \ {t} : tk[u] = task[u]
    BY <1>1, <2>6
  <2>8. AttemptsFresh(n, tk) /\ OpenFresh(n, job)
    BY <1>1, <2>2, <2>5, <2>7 DEF AttemptsFresh, OpenFresh
  <2>9. WritesTask(p, n, t, rec)
    BY <1>2, <1>3, <1>4, <1>5, <1>6, <2>4, <2>5, <2>6, <2>8
       DEF WritesTask, rest, Requeues, WillReopen
  <2> QED
    BY <1>2, <1>3, <2>5, <2>9, WriteTaskKeeps
<1> QED
  BY <1>7, <1>8

LEMMA HeartbeatTaskStep ==
    ASSUME Inv, NEW p \in Threads, NEW t \in Tasks, HeartbeatTask(p, t)
    PROVE  Inv'
<1> DEFINE th == thread[p]
<1>1. HeartbeatOK(shape, th) /\ th.op = "heartbeat" /\ t \in DOMAIN th.todo
  BY KindOf DEF HeartbeatTask, At
<1>2. PICK old : old = th.todo[t]
  OBVIOUS
<1>3. old \in TaskRec /\ old.status \in {"Running", "Assigned"}
  BY <1>1, <1>2, CopiesFacts DEF HeartbeatOK, HeartbeatRec
<1>4. PICK rec : rec = [old EXCEPT !.expires = "future"]
  OBVIOUS
<1>5. rec \in TaskRec /\ rec.attempt = old.attempt /\ rec.status = old.status
  BY <1>3, <1>4 DEF TaskRec
<1>6. WriteNext(p, t, rec)
  BY <1>2, <1>4 DEF HeartbeatTask, WriteNext, UpdateTask, Overwrite
<1> QED
  BY <1>1, <1>2, <1>3, <1>5, <1>6, WriteNextFacts

LEMMA CancelTaskStep ==
    ASSUME Inv, NEW p \in Threads, NEW t \in Tasks, CancelTask(p, t)
    PROVE  Inv'
<1> DEFINE th == thread[p]
<1>1. CancelOK(shape, th) /\ th.op = "cancel" /\ t \in DOMAIN th.todo /\ th.pc = "tasks"
  BY KindOf DEF CancelTask, At
<1>2. PICK old : old = th.todo[t]
  OBVIOUS
<1>3. old \in TaskRec
  BY <1>1, <1>2, CopiesFacts DEF CancelOK, CancelRec
<1>4. PICK rec : rec = [old EXCEPT !.status = "Canceled", !.worker = Nobody,
                                   !.lease = Nobody, !.expires = "zero"]
  OBVIOUS
<1>5. rec \in TaskRec /\ rec.attempt = old.attempt /\ rec.status = "Canceled"
  BY <1>3, <1>4 DEF TaskRec, TaskStatus, Holder, Lease
<1>6. WriteNext(p, t, rec)
  BY <1>2, <1>4 DEF CancelTask, WriteNext, UpdateTask, Overwrite
<1> QED
  BY <1>1, <1>2, <1>3, <1>5, <1>6, WriteNextFacts

\* Time that passes leaves everything but the expiry of a lease.
LEMMA LapseStep ==
    ASSUME Inv, NEW x \in Tasks, Lapse(x)
    PROVE  Inv'
<1>1. /\ UNCHANGED <<shape, job, queue, nacks, dead, thread, reports, given, torn, cut, failures>>
      /\ task' = [task EXCEPT ![x].expires = "past"] /\ task \in [Tasks -> TaskRec]
  BY DEF Lapse, queues, rest, Inv, TypeInv
<1>2. PICK rec : rec = [task[x] EXCEPT !.expires = "past"]
  OBVIOUS
<1>3. rec \in TaskRec /\ rec.attempt = task[x].attempt /\ rec.status = task[x].status
  BY <1>1, <1>2 DEF TaskRec
<1>4. task' = [task EXCEPT ![x] = rec]
  BY <1>1, <1>2
<1>5. /\ task' \in [Tasks -> TaskRec]
      /\ \A t \in Tasks : task'[t].attempt = task[t].attempt /\ task'[t].status = task[t].status
  BY <1>1, <1>3, <1>4
<1>6. TypeInv'
  BY <1>1, <1>5 DEF Inv, TypeInv
<1>7. CopiesCurrent'
  <2> SUFFICES ASSUME NEW q \in Threads PROVE AttemptsFresh(thread[q], task')
    BY <1>1 DEF CopiesCurrent
  <2>1. AttemptsFresh(thread[q], task) /\ HandlerOK(shape, thread[q])
    BY KindOf
  <2>2. AttemptsFresh(thread[q], [task EXCEPT ![x] = rec])
    BY <2>1, <1>1, <1>3, AttemptsAfterWrite
  <2> QED
    BY <2>2, <1>4
<1>8. AttemptsCounted'
  BY <1>1, <1>5 DEF AttemptsCounted, Inv, TypeInv, Promises, AssignmentRec
<1>9. JobsOpen' /\ CancelsJobFirst'
  BY <1>1, <1>5 DEF JobsOpen, CancelsJobFirst, Closed, JobOf, Inv, Promises
<1>10. \A t \in Tasks : Tracked(t)' <=> Tracked(t)
  BY <1>1 DEF Tracked, HasRef
<1>11. ASSUME NEW t \in Tasks PROVE Ready(t)' <=> Ready(t)
  BY <1>1, <1>5, ShapeFacts DEF Ready, dependenciesCompleted, Inv, TypeInv
<1>12. ReadyTracked' /\ RetriesTracked'
  BY <1>1, <1>10, <1>11 DEF ReadyTracked, RetriesTracked, Excused, Inv, Promises
<1>13. ASSUME NEW j PROVE (Settled(j)' <=> Settled(j)) /\ (Clean(j)' <=> Clean(j))
  BY <1>1, <1>5 DEF Settled, Clean, TasksOf, Excused
<1>14. SettledOwed' /\ ReopenedOwed'
  BY <1>1, <1>13 DEF SettledOwed, ReopenedOwed, Inv, Promises
<1> QED
  BY <1>6, <1>7, <1>8, <1>9, <1>12, <1>14 DEF Inv, Promises

---------------------------------------------------------------------------
(* Steps that write a job. *)

\* A canceled job that a step opens is torn.
Reopens == \A j \in Jobs : job[j] = "Canceled" /\ job'[j] # "Canceled" => j \in torn'

LEMMA WriteJobInv ==
    ASSUME Inv, NEW p \in Threads, NEW n, NEW j \in Jobs, NEW status \in JobStatus,
           WritesJob(p, n, j, status), HandlerOK(shape, n), UNCHANGED rest
    PROVE  Inv' /\ Reopens
<1>1. /\ job' = [job EXCEPT ![j] = status] /\ Tears(p, j) /\ Moves(p, n, {j})
  BY JobMoves DEF WritesJob, Inv
<1>2. /\ \A q \in Threads : HandlerOK(shape, thread'[q])
      /\ DOMAIN thread' = Threads /\ thread' = [q \in Threads |-> thread'[q]]
  BY <1>1 DEF Moves, OthersKeep
<1>3. torn' \subseteq Records /\ job' \in [Jobs -> JobStatus]
  BY <1>1 DEF Tears, Records, Inv, TypeInv
<1>4. TypeInv'
  BY <1>2, <1>3 DEF TypeInv, Inv, WritesJob, queues, rest
<1> QED
  BY <1>4, WriteJobStep DEF Inv, Reopens

LEMMA ReconcileWriteStep ==
    ASSUME Inv, NEW p \in Threads, ReconcileWrite(p)
    PROVE  Inv' /\ Reopens
<1> DEFINE th == thread[p]
<1>1. /\ SweepOK(shape, th) /\ th.op = "sweep" /\ th.pc = "write"
      /\ UNCHANGED <<task, queues, rest>>
  BY KindOf DEF ReconcileWrite, At
<1>2. /\ th \in SweepRec /\ AttemptsFresh(th, task) /\ OpenFresh(th, job) /\ th.refs = {}
      /\ th.j \in Jobs /\ th.status \in {"Running", "Completed", "Failed"}
      /\ job \in [Jobs -> JobStatus]
  BY <1>1, KindOf DEF SweepOK
<1>3. PICK j \in Jobs : j = th.j
  BY <1>2
<1>4. PICK st \in {"Running", "Completed", "Failed"} : st = th.status
  BY <1>2
<1>5. PICK n : n = [th EXCEPT !.pc = "tasks", !.jobs = @ \ {j}, !.owes = @ \ {j},
                              !.j = Nobody, !.status = Nobody]
  OBVIOUS
<1>6. UpdateJob(p, j, st, n)
  BY <1>3, <1>4, <1>5 DEF ReconcileWrite, UpdateJob, Overwrite
<1>7. /\ n \in SweepRec /\ n.op = "sweep" /\ n.pc = "tasks" /\ n.refs = {} /\ n.todo = th.todo
      /\ n.fresh = th.fresh /\ n.owes = th.owes \ {j} /\ n.jobs = th.jobs \ {j}
  BY <1>1, <1>2, <1>5 DEF SweepRec
<1>8. SweepOK(shape, n)
  BY <1>1, <1>7 DEF SweepOK
<1>9. PICK jb : jb = [job EXCEPT ![j] = st]
  OBVIOUS
<1>10. \A k \in Jobs : jb[k] = IF k = j THEN st ELSE job[k]
  BY <1>2, <1>9
<1>11. AttemptsFresh(n, task) /\ OpenFresh(n, jb)
  BY <1>1, <1>2, <1>7, <1>10 DEF AttemptsFresh, OpenFresh
<1>12. /\ j \in th.fresh => job[j] # "Canceled"
       /\ st = "Running" /\ j \in th.fresh => WillReopen(shape, th, j)
  BY <1>1, <1>2, <1>3, <1>4 DEF OpenFresh, WillReopen
<1>13. WritesJob(p, n, j, st)
  BY <1>1, <1>2, <1>6, <1>7, <1>9, <1>11, <1>12
     DEF WritesJob, rest, Claims, WillEnqueue, Requeues, WillReopen
<1> QED
  BY <1>1, <1>8, <1>13, WriteJobInv DEF HandlerOK, JobStatus

LEMMA AssignJobStep ==
    ASSUME Inv, NEW p \in Threads, AssignJob(p)
    PROVE  Inv' /\ Reopens
<1> DEFINE th == thread[p]
<1>1. /\ AssignOK(shape, th) /\ th.op = "assign" /\ th.pc = "assigned"
      /\ UNCHANGED <<task, queues, rest>>
  BY KindOf DEF AssignJob, At
<1>2. /\ th \in AssignRec /\ AttemptsFresh(th, task) /\ OpenFresh(th, job) /\ th.owes = {}
      /\ th.t \in Tasks /\ job \in [Jobs -> JobStatus] /\ shape \in Shapes
  BY <1>1, KindOf DEF AssignOK
<1>3. PICK j \in Jobs : j = JobOf(th.t)
  BY <1>2, ShapeFacts DEF JobOf
<1>4. PICK n : n = [th EXCEPT !.pc = "settle"]
  OBVIOUS
<1>5. UpdateJob(p, j, "Running", n)
  BY <1>3, <1>4 DEF AssignJob, UpdateJob, Overwrite
<1>6. /\ n \in AssignRec /\ n.op = "assign" /\ n.pc = "settle" /\ n.t = th.t /\ n.base = th.base
      /\ n.fresh = th.fresh /\ n.owes = {} /\ n.claims = th.claims /\ n.back = th.back
      /\ n.errs = th.errs /\ n.late = th.late
  BY <1>1, <1>2, <1>4 DEF AssignRec
<1>7. AssignOK(shape, n)
  BY <1>1, <1>6 DEF AssignOK
<1>8. PICK jb : jb = [job EXCEPT ![j] = "Running"]
  OBVIOUS
<1>9. \A k \in Jobs : jb[k] = IF k = j THEN "Running" ELSE job[k]
  BY <1>2, <1>8
<1>10. AttemptsFresh(n, task) /\ OpenFresh(n, jb)
  BY <1>1, <1>2, <1>6, <1>9 DEF AttemptsFresh, OpenFresh
<1>11. j \in th.fresh => job[j] = "Running"
  BY <1>1, <1>2 DEF OpenFresh
<1>12. \A u \in Tasks : Claims(th, u) => Claims(n, u)
  BY <1>1, <1>6 DEF Claims
<1>13. WritesJob(p, n, j, "Running")
  BY <1>1, <1>2, <1>5, <1>6, <1>8, <1>10, <1>11, <1>12
     DEF WritesJob, rest, WillEnqueue, Requeues, WillReopen
<1> QED
  BY <1>1, <1>7, <1>13, WriteJobInv DEF HandlerOK, JobStatus

LEMMA DenyJobStep ==
    ASSUME Inv, NEW p \in Threads, DenyJob(p)
    PROVE  Inv' /\ Reopens
<1> DEFINE th == thread[p]
<1>1. /\ AssignOK(shape, th) /\ th.op = "assign" /\ th.pc = "denied"
      /\ UNCHANGED <<task, queues, rest>>
  BY KindOf DEF DenyJob, At
<1>2. /\ OpenFresh(th, job) /\ th.t \in Tasks /\ shape \in Shapes /\ th.owes = {shape.jobOf[th.t]}
  BY <1>1, KindOf DEF AssignOK
<1>3. PICK j \in Jobs : j = JobOf(th.t) /\ th.owes = {j}
  BY <1>2, ShapeFacts DEF JobOf
<1>4. PICK n : n = NotReady(p, th.t)
  OBVIOUS
<1>5. UpdateJob(p, j, "Failed", n)
  BY <1>3, <1>4 DEF DenyJob, UpdateJob, Overwrite
<1>6. /\ HandlerOK(shape, n) /\ n.op = "assign" /\ AttemptsFresh(n, task)
      /\ OpenFresh(n, [job EXCEPT ![j] = "Failed"])
      /\ \A u \in Tasks : Claims(th, u) => Claims(n, u)
      /\ \A u : ~Requeues(shape, n, u)
      /\ \A k : ~WillReopen(shape, n, k)
  BY <1>1, <1>4, NotReadyFacts
<1>7. j \in th.fresh => job[j] # "Canceled"
  BY <1>1, <1>2 DEF OpenFresh
<1>8. WritesJob(p, n, j, "Failed")
  BY <1>1, <1>3, <1>5, <1>6, <1>7 DEF WritesJob, rest, WillEnqueue
<1> QED
  BY <1>1, <1>6, <1>8, WriteJobInv DEF JobStatus

LEMMA ReportJobStep ==
    ASSUME Inv, NEW p \in Threads, ReportJob(p)
    PROVE  Inv' /\ Reopens
<1> DEFINE th == thread[p]
<1>1. /\ ReportOK(shape, th) /\ th.op = "report" /\ th.pc = "job"
      /\ UNCHANGED <<task, queues, rest>>
  BY KindOf DEF ReportJob, At
<1>2. /\ th \in ReportRecs /\ OpenFresh(th, job) /\ ~th.canceled /\ th.r.of.task \in Tasks
      /\ th.status \in {"Running", "Completed", "Failed"} /\ shape \in Shapes
  BY <1>1, KindOf DEF ReportOK, ReportRecs, ReportRec, AssignmentRec
<1>3. PICK j \in Jobs : j = JobOf(th.r.of.task) /\ j = shape.jobOf[th.r.of.task]
  BY <1>2, ShapeFacts DEF JobOf
<1>4. th.owes = {j}
  BY <1>1, <1>3 DEF ReportOK
<1>5. PICK st \in {"Running", "Completed", "Failed"} : st = th.status
  BY <1>2
<1>6. PICK n : n = Idle
  OBVIOUS
<1>7. UpdateJob(p, j, st, n)
  BY <1>3, <1>5, <1>6 DEF ReportJob, UpdateJob, Overwrite
<1>8. /\ HandlerOK(shape, n) /\ n.op = "idle" /\ AttemptsFresh(n, task)
      /\ OpenFresh(n, [job EXCEPT ![j] = st])
  BY <1>6, IdleFacts
<1>9. /\ j \in th.fresh => job[j] # "Canceled"
      /\ st = "Running" /\ j \in th.fresh => WillReopen(shape, th, j)
  BY <1>1, <1>2, <1>3, <1>5 DEF OpenFresh, WillReopen
<1>10. WritesJob(p, n, j, st)
  BY <1>1, <1>4, <1>7, <1>8, <1>9
     DEF WritesJob, rest, Claims, WillEnqueue, Requeues, WillReopen
<1> QED
  BY <1>1, <1>8, <1>10, WriteJobInv DEF JobStatus

LEMMA CancelJobStep ==
    ASSUME Inv, NEW p \in Threads, CancelJob(p)
    PROVE  Inv' /\ Reopens
<1> DEFINE th == thread[p]
<1>1. /\ CancelOK(shape, th) /\ th.op = "cancel" /\ th.pc = "job" /\ th \in CancelRec
      /\ th.owes = {} /\ AttemptsFresh(th, task) /\ th.j \in Jobs
      /\ UNCHANGED <<task, queues, rest>>
  BY KindOf DEF CancelJob, At, CancelOK, CancelRec
<1>2. PICK j \in Jobs : j = th.j
  BY <1>1
<1>3. PICK n : n = [th EXCEPT !.pc = "list"]
  OBVIOUS
<1>4. UpdateJob(p, j, "Canceled", n)
  BY <1>2, <1>3 DEF CancelJob, UpdateJob, Overwrite
<1>5. /\ n \in CancelRec /\ n.op = "cancel" /\ n.pc = "list" /\ n.j = j /\ n.todo = th.todo
      /\ n.fresh = th.fresh /\ n.owes = {}
  BY <1>1, <1>2, <1>3 DEF CancelRec
<1>6. CancelOK(shape, n)
  BY <1>1, <1>2, <1>5 DEF CancelOK
<1>7. AttemptsFresh(n, task) /\ OpenFresh(n, [job EXCEPT ![j] = "Canceled"])
  BY <1>1, <1>5 DEF AttemptsFresh, OpenFresh
<1>8. WritesJob(p, n, j, "Canceled")
  BY <1>1, <1>4, <1>5, <1>7 DEF WritesJob, rest, Claims, WillEnqueue, Requeues, WillReopen
<1> QED
  BY <1>1, <1>6, <1>8, WriteJobInv DEF HandlerOK, JobStatus

---------------------------------------------------------------------------
(* All steps, and the theorems. *)

LEMMA InitInv == Init => Inv
<1> SUFFICES ASSUME Init PROVE Inv
  OBVIOUS
<1>1. /\ shape \in Shapes /\ \A t \in Tasks : task[t] = NewTask
      /\ \A j \in Jobs : job[j] = "Running"
      /\ torn = {} /\ cut = {} /\ given = {}
      /\ \A p \in Threads : thread[p] = Idle
  BY DEF Init
<1>2. NewTask \in TaskRec /\ NewTask.status = "Queued"
  BY DEF NewTask, TaskRec, TaskStatus, Holder, Lease
<1>3. TypeInv
  <2>1. \A p \in Threads : HandlerOK(shape, thread[p])
    BY <1>1, IdleFacts
  <2>2. /\ queue \in [Tasks -> Nat] /\ dead \in [Tasks -> Nat]
        /\ nacks \in [Tasks -> 0..(NackLimit - 1)]
    BY LimitsAssumption DEF Init, NoRefs
  <2>3. IsFiniteSet(given)
    BY <1>1, FS_EmptySet
  <2> QED
    BY <1>1, <1>2, <2>1, <2>2, <2>3 DEF Init, TypeInv, JobStatus
<1>4. CopiesCurrent /\ JobsOpen /\ AttemptsCounted
  BY <1>1, IdleFacts DEF CopiesCurrent, JobsOpen, AttemptsCounted
<1>5. CancelsJobFirst
  BY <1>1, <1>2, IdleFacts DEF CancelsJobFirst
<1>6. ReadyTracked
  <2> SUFFICES ASSUME NEW t \in Tasks, Ready(t) PROVE Tracked(t)
    BY DEF ReadyTracked
  <2>1. shape.deps[t] = {}
    BY <1>1, <1>2, ShapeFacts DEF Ready, dependenciesCompleted
  <2> QED
    BY <2>1 DEF Tracked, HasRef, Init
<1>7. RetriesTracked /\ ReopenedOwed
  BY <1>1, IdleFacts DEF RetriesTracked, ReopenedOwed
<1>8. SettledOwed
  <2> SUFFICES ASSUME NEW j \in Jobs, Clean(j) PROVE ~Settled(j)
    BY DEF SettledOwed
  <2>1. PICK t \in Tasks : t \in TasksOf(j)
    BY DEF Clean, TasksOf
  <2> QED
    BY <2>1, <1>1, <1>2 DEF Settled, TasksOf
<1> QED
  BY <1>3, <1>4, <1>5, <1>6, <1>7, <1>8 DEF Inv, Promises

\* What every step does to the history: torn grows, and only AssignWrite adds to
\* given.
History ==
    /\ torn \subseteq torn'
    /\ given' = given \/ \E p \in Threads : AssignWrite(p)

LEMMA HandlerStep ==
    ASSUME Inv, NEW p \in Threads,
           \/ PollNext(p)
           \/ ReportNext(p)
           \/ \E w \in Workers : HeartbeatBegin(p, w)
           \/ \E t \in Tasks : HeartbeatTask(p, t) \/ CancelTask(p, t)
           \/ \E j \in Jobs : CancelBegin(p, j)
           \/ CancelJob(p) \/ CancelList(p)
           \/ HandlerStops(p)
    PROVE  Inv' /\ Reopens /\ History
<1>1. ASSUME NEW w \in Workers, PollBegin(p, w) PROVE Inv' /\ Reopens /\ History
  BY <1>1, PollBeginStep DEF History, Reopens, PollBegin, rest
<1>2. ASSUME NEW w \in Workers, Claim(p, w) PROVE Inv' /\ Reopens /\ History
  BY <1>2, ClaimStep DEF History, Reopens, Claim, rest
<1>3. ASSUME NEW j \in Jobs, ReconcileRead(p, j) PROVE Inv' /\ Reopens /\ History
  BY <1>3, ReconcileReadStep DEF History, Reopens, ReconcileRead, rest
<1>4. ASSUME ReconcileList(p) PROVE Inv' /\ Reopens /\ History
  BY <1>4, ReconcileListStep DEF History, Reopens, ReconcileList, rest
<1>5. ASSUME NEW t \in Tasks, AssignBegin(p, t) PROVE Inv' /\ Reopens /\ History
  BY <1>5, AssignBeginStep DEF History, Reopens, AssignBegin, rest
<1>6. ASSUME SweepEnqueue(p) PROVE Inv' /\ Reopens /\ History
  BY <1>6, SweepEnqueueStep DEF History, Reopens, SweepEnqueue, rest
<1>7. ASSUME AssignRead(p) PROVE Inv' /\ Reopens /\ History
  BY <1>7, AssignReadStep DEF History, Reopens, AssignRead, rest
<1>8. ASSUME PreemptRead(p) PROVE Inv' /\ Reopens /\ History
  BY <1>8, PreemptReadStep DEF History, Reopens, PreemptRead, rest
<1>9. ASSUME PreemptEnqueue(p) PROVE Inv' /\ Reopens /\ History
  BY <1>9, PreemptEnqueueStep DEF History, Reopens, PreemptEnqueue, rest
<1>10. ASSUME AssignFails(p) PROVE Inv' /\ Reopens /\ History
  BY <1>10, AssignFailsStep DEF History, Reopens, AssignFails
<1>11. ASSUME VisibilityLapses(p) PROVE Inv' /\ Reopens /\ History
  BY <1>11, VisibilityLapsesStep DEF History, Reopens, VisibilityLapses
<1>12. ASSUME PollEnd(p) PROVE Inv' /\ Reopens /\ History
  BY <1>12, PollEndStep DEF History, Reopens, PollEnd
<1>13. ASSUME NEW r \in reports, NEW s \in {"Running", "Completed", "Failed"}, ReportBegin(p, r, s) PROVE Inv' /\ Reopens /\ History
  BY <1>13, ReportBeginStep DEF History, Reopens, ReportBegin
<1>14. ASSUME ReportRead(p) PROVE Inv' /\ Reopens /\ History
  BY <1>14, ReportReadStep DEF History, Reopens, ReportRead, rest
<1>15. ASSUME ReportRetry(p) PROVE Inv' /\ Reopens /\ History
  BY <1>15, ReportRetryStep DEF History, Reopens, ReportRetry, rest
<1>16. ASSUME ReportList(p) PROVE Inv' /\ Reopens /\ History
  BY <1>16, ReportListStep DEF History, Reopens, ReportList, rest
<1>17. ASSUME ReportDependents(p) PROVE Inv' /\ Reopens /\ History
  BY <1>17, ReportDependentsStep DEF History, Reopens, ReportDependents, rest
<1>18. ASSUME NEW w \in Workers, HeartbeatBegin(p, w) PROVE Inv' /\ Reopens /\ History
  BY <1>18, HeartbeatBeginStep DEF History, Reopens, HeartbeatBegin, rest
<1>19. ASSUME NEW j \in Jobs, CancelBegin(p, j) PROVE Inv' /\ Reopens /\ History
  BY <1>19, CancelBeginStep DEF History, Reopens, CancelBegin, rest
<1>20. ASSUME CancelList(p) PROVE Inv' /\ Reopens /\ History
  BY <1>20, CancelListStep DEF History, Reopens, CancelList, rest
<1>21. ASSUME HandlerStops(p) PROVE Inv' /\ Reopens /\ History
  BY <1>21, HandlerStopsStep DEF History, Reopens, HandlerStops
<1>22. ASSUME NEW t \in Tasks, SweepTask(p, t) PROVE Inv' /\ Reopens /\ History
  BY <1>22, SweepTaskStep DEF History, Reopens, SweepTask, UpdateTask, Overwrite, rest
<1>23. ASSUME PreemptWrite(p) PROVE Inv' /\ Reopens /\ History
  BY <1>23, PreemptWriteStep DEF History, Reopens, PreemptWrite, UpdateTask, Overwrite, rest
<1>24. ASSUME AssignWrite(p) PROVE Inv' /\ Reopens /\ History
  BY <1>24, AssignWriteStep DEF History, Reopens, AssignWrite, UpdateTask, Overwrite
<1>25. ASSUME DenyWrite(p) PROVE Inv' /\ Reopens /\ History
  BY <1>25, DenyWriteStep DEF History, Reopens, DenyWrite, UpdateTask, Overwrite, rest
<1>26. ASSUME ReportWrite(p) PROVE Inv' /\ Reopens /\ History
  BY <1>26, ReportWriteStep DEF History, Reopens, ReportWrite, UpdateTask, Overwrite, rest
<1>27. ASSUME NEW t \in Tasks, HeartbeatTask(p, t) PROVE Inv' /\ Reopens /\ History
  BY <1>27, HeartbeatTaskStep DEF History, Reopens, HeartbeatTask, WriteNext, UpdateTask, Overwrite, rest
<1>28. ASSUME NEW t \in Tasks, CancelTask(p, t) PROVE Inv' /\ Reopens /\ History
  BY <1>28, CancelTaskStep DEF History, Reopens, CancelTask, WriteNext, UpdateTask, Overwrite, rest
<1>29. ASSUME ReconcileWrite(p) PROVE Inv' /\ Reopens /\ History
  BY <1>29, ReconcileWriteStep DEF History, ReconcileWrite, UpdateJob, Overwrite, rest
<1>30. ASSUME AssignJob(p) PROVE Inv' /\ Reopens /\ History
  BY <1>30, AssignJobStep DEF History, AssignJob, UpdateJob, Overwrite, rest
<1>31. ASSUME DenyJob(p) PROVE Inv' /\ Reopens /\ History
  BY <1>31, DenyJobStep DEF History, DenyJob, UpdateJob, Overwrite, rest
<1>32. ASSUME ReportJob(p) PROVE Inv' /\ Reopens /\ History
  BY <1>32, ReportJobStep DEF History, ReportJob, UpdateJob, Overwrite, rest
<1>33. ASSUME CancelJob(p) PROVE Inv' /\ Reopens /\ History
  BY <1>33, CancelJobStep DEF History, CancelJob, UpdateJob, Overwrite, rest
<1> QED
  BY <1>1, <1>2, <1>3, <1>4, <1>5, <1>6, <1>7, <1>8, <1>9, <1>10, <1>11, <1>12, <1>13, <1>14,
     <1>15, <1>16, <1>17, <1>18, <1>19, <1>20, <1>21, <1>22, <1>23, <1>24, <1>25, <1>26, <1>27,
     <1>28, <1>29, <1>30, <1>31, <1>32, <1>33 DEF PollNext, ReportNext

LEMMA NextStep ==
    ASSUME Inv, [Next]_vars
    PROVE  Inv' /\ Reopens /\ History
<1>1. CASE Next
  <2>1. ASSUME NEW t \in Tasks, Lapse(t) PROVE Inv' /\ Reopens /\ History
    BY <2>1, LapseStep DEF Lapse, Reopens, History, rest
  <2> QED
    BY <1>1, <2>1, HandlerStep DEF Next
<1>2. CASE UNCHANGED vars
  <2>1. TypeInv'
    BY <1>2 DEF vars, Inv, TypeInv
  <2>2. \A t : Tracked(t)' <=> Tracked(t)
    BY <1>2 DEF vars, Tracked, HasRef
  <2>3. \A t : Ready(t)' <=> Ready(t)
    BY <1>2 DEF vars, Ready, dependenciesCompleted
  <2>4. ReadyTracked' /\ RetriesTracked'
    BY <1>2, <2>2, <2>3 DEF vars, ReadyTracked, RetriesTracked, Excused, Inv, Promises
  <2>5. \A j : (Settled(j)' <=> Settled(j)) /\ (Clean(j)' <=> Clean(j))
    BY <1>2 DEF vars, Settled, Clean, TasksOf, Excused
  <2>6. SettledOwed' /\ ReopenedOwed'
    BY <1>2, <2>5 DEF vars, SettledOwed, ReopenedOwed, Inv, Promises
  <2>7. CopiesCurrent' /\ AttemptsCounted' /\ JobsOpen'
    BY <1>2 DEF vars, CopiesCurrent, AttemptsCounted, JobsOpen, Inv, Promises
  <2>8. CancelsJobFirst'
    BY <1>2 DEF vars, CancelsJobFirst, Closed, JobOf, Inv, Promises
  <2>9. Reopens /\ History
    BY <1>2 DEF vars, Reopens, History
  <2> QED
    BY <2>1, <2>4, <2>6, <2>7, <2>8, <2>9 DEF Inv, Promises
<1> QED
  BY <1>1, <1>2

\* The invariant holds in every reachable state.
LEMMA InvHolds == Spec => []Inv
<1>1. Inv /\ [Next]_vars => Inv'
  BY NextStep
<1> QED
  BY <1>1, InitInv, PTL DEF Spec

\* A canceled job is opened again only by a handler that read it before it was
\* canceled: however polls, reports, heartbeats and cancels interleave and stop,
\* UpdateJob of tryAssign, ReportTaskResult and reconcileJobStatus writes over
\* Canceled with an outdated copy or not at all.
THEOREM ReopenedByOldCopies == Spec => OnlyOldCopiesReopen
<1>1. Inv /\ [Next]_vars =>
        [\A j \in Jobs : job[j] = "Canceled" /\ job'[j] # "Canceled" => j \in torn']_vars
  BY NextStep DEF Reopens
<1> QED
  BY <1>1, InvHolds, PTL DEF Spec, OnlyOldCopiesReopen

LEMMA OneHolderStep ==
    ASSUME Inv, OneHolderPerAttempt, [Next]_vars
    PROVE  OneHolderPerAttempt'
<1>1. torn \subseteq torn' /\ (given' = given \/ \E p \in Threads : AssignWrite(p))
  BY NextStep DEF History
<1>2. CASE given' = given
  BY <1>1, <1>2 DEF OneHolderPerAttempt
<1>3. CASE \E p \in Threads : AssignWrite(p)
  <2>1. PICK p \in Threads : AssignWrite(p)
    BY <1>3
  <2> DEFINE th == thread[p]
  <2>2. /\ AssignOK(shape, th) /\ th.op = "assign" /\ th.pc \in {"chosen", "preempted"}
    BY <2>1, KindOf DEF AssignWrite, Placed, At
  <2>3. /\ AttemptsFresh(th, task) /\ th.t \in Tasks /\ th.base \in TaskRec
        /\ task \in [Tasks -> TaskRec]
    BY <2>2, KindOf DEF AssignOK
  <2>4. PICK t \in Tasks : t = th.t
    BY <2>3
  <2>5. PICK a : a = Assignment(t, Leased(th.w, th.base))
    OBVIOUS
  <2>6. /\ given' = given \cup {a} /\ (t \notin torn' => t \in th.fresh)
    BY <2>1, <2>4, <2>5 DEF AssignWrite, UpdateTask, Overwrite
  <2>7. a.task = t /\ a.attempt = th.base.attempt + 1
    BY <2>3, <2>5 DEF Assignment, Leased, TaskRec
  <2>8. t \in th.fresh => th.base.attempt = task[t].attempt
    BY <2>2, <2>3, <2>4 DEF AttemptsFresh
  <2>9. \A b \in given : b.task \notin torn => b.attempt <= task[b.task].attempt /\ b.attempt \in Nat
    BY DEF AttemptsCounted, Inv, TypeInv, Promises, AssignmentRec
  <2>10. task[t].attempt \in Nat
    BY <2>3, <2>4 DEF TaskRec
  <2>11. ASSUME NEW b \in given, b.task = t, t \notin torn' PROVE b.attempt # a.attempt
    BY <2>6, <2>7, <2>8, <2>9, <2>10, <2>11, <1>1
  <2> QED
    BY <2>6, <2>7, <2>11, <1>1 DEF OneHolderPerAttempt
<1> QED
  BY <1>1, <1>2, <1>3

\* One attempt of a task is given to one worker, however many polls hold refs of
\* it, unless a tryAssign wrote the task over a change it had not seen.
THEOREM AttemptsHaveOneHolder == Spec => []OneHolderPerAttempt
<1>1. Init => OneHolderPerAttempt
  BY DEF Init, OneHolderPerAttempt
<1>2. Inv /\ OneHolderPerAttempt /\ [Next]_vars => OneHolderPerAttempt'
  BY OneHolderStep
<1> QED
  BY <1>1, <1>2, InvHolds, PTL DEF Spec

LEMMA RestFacts ==
    ASSUME Inv, AtRest
    PROVE  /\ \A t \in Tasks : Tracked(t) => HasRef(t)
           /\ \A t \in Tasks : Ready(t) /\ t \notin Excused => HasRef(t)
           /\ \A j \in Jobs : job[j] = "Running" /\ Clean(j) => ~Settled(j)
<1>1. \A p \in Threads : thread[p] = Idle
  BY DEF AtRest
<1>2. \A t \in Tasks : Tracked(t) => HasRef(t)
  BY <1>1, IdleFacts DEF Tracked
<1>3. \A t \in Tasks : Ready(t) /\ t \notin Excused => HasRef(t)
  BY <1>1, <1>2, IdleFacts DEF ReadyTracked, Inv, Promises
<1>4. \A j \in Jobs : job[j] = "Running" /\ Clean(j) => ~Settled(j)
  BY <1>1, IdleFacts DEF SettledOwed, Inv, Promises
<1> QED
  BY <1>2, <1>3, <1>4

\* When no handler is in the middle of anything, a task that is ready has a ref in
\* the queue or a dead letter, unless an outdated copy of it was written or a
\* handler stopped between writing it and enqueueing it: requeueExpiredLeases,
\* tryPreemptLowerPriority, the retries and the dependents of ReportTaskResult,
\* and the claims of polls, in any interleaving.
THEOREM ReadyTasksKeepRefs == Spec => []ReadyTasksHaveRefs
<1>1. Inv => ReadyTasksHaveRefs
  BY RestFacts DEF ReadyTasksHaveRefs
<1> QED
  BY <1>1, InvHolds, PTL

LEMMA ProgressFacts ==
    ASSUME Inv, AtRest, NEW j \in Jobs, job[j] = "Running", Clean(j)
    PROVE  \E t \in TasksOf(j) :
              \/ task[t].status \in {"Assigned", "Running"}
              \/ Ready(t) /\ HasRef(t)
<1>1. ~Settled(j)
  BY RestFacts
<1> DEFINE S == {t \in TasksOf(j) : task[t].status # "Completed"}
<1>2. S \subseteq Tasks /\ S # {} /\ shape \in Shapes
  BY <1>1 DEF Settled, TasksOf, Inv, TypeInv
<1>3. PICK t \in S : shape.deps[t] \cap S = {}
  BY <1>2, ShapesAssumption
<1>4. /\ t \in Tasks /\ t \in TasksOf(j) /\ task[t].status # "Completed"
      /\ JobOf(t) = j /\ t \notin Excused
  BY <1>2, <1>3 DEF TasksOf, JobOf, Clean
<1>5. task[t].status # "Failed"
  BY <1>1, <1>4 DEF Settled
<1>6. task[t].status # "Canceled"
  <2>1. j \notin torn
    BY DEF Clean, Excused
  <2> QED
    BY <2>1, <1>4 DEF CancelsJobFirst, Closed, Inv, Promises
<1>7. task[t].status \in TaskStatus
  BY <1>4 DEF Inv, TypeInv, TaskRec
<1>8. CASE task[t].status = "Queued"
  <2>1. dependenciesCompleted(t)
    <3> SUFFICES ASSUME NEW d \in shape.deps[t] PROVE task[d].status = "Completed"
      BY DEF dependenciesCompleted
    <3>1. d \in Tasks /\ shape.jobOf[d] = shape.jobOf[t] /\ d \notin S
      BY <1>2, <1>3, <1>4, ShapeFacts
    <3> QED
      BY <3>1, <1>4 DEF TasksOf
  <2>2. Ready(t)
    BY <1>8, <2>1 DEF Ready
  <2>3. HasRef(t)
    BY <2>2, <1>4, RestFacts
  <2> QED
    BY <2>2, <2>3, <1>4
<1> QED
  BY <1>4, <1>5, <1>6, <1>7, <1>8 DEF TaskStatus

\* When no handler is in the middle of anything, a Running job has a task at work
\* or a ready one with a ref, unless its record or a task's was overwritten by an
\* outdated copy or a handler stopped before it updated the job.  It rests on the
\* dependencies having no cycle.
THEOREM RunningJobsKeepGoing == Spec => []RunningJobsCanProgress
<1>1. Inv => RunningJobsCanProgress
  BY ProgressFacts DEF RunningJobsCanProgress, Clean
<1> QED
  BY <1>1, InvHolds, PTL
=============================================================================
