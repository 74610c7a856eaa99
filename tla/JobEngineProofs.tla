-------------------------- MODULE JobEngineProofs --------------------------
(***************************************************************************)
(* Proofs about JobEngine and JobStream, for every set of jobs, tasks,     *)
(* workers and streams, every acyclic dependency relation and every        *)
(* combination of faults.                                                  *)
(***************************************************************************)
EXTENDS JobStream, TLAPS

\* Adding refs to the queue keeps it a bag of refs.
LEMMA EnqueueType ==
    ASSUME NEW q \in [Tasks -> Nat], NEW refs
    PROVE  Enqueue(q, refs) \in [Tasks -> Nat]
BY DEF Enqueue

LEMMA AddBagsType ==
    ASSUME NEW p \in [Tasks -> Nat], NEW q \in [Tasks -> Nat]
    PROVE  AddBags(p, q) \in [Tasks -> Nat]
BY DEF AddBags

LEMMA NoRefsType == NoRefs \in [Tasks -> Nat]
BY DEF NoRefs

LEMMA StatusFromTasksType ==
    ASSUME NEW j, NEW tk PROVE StatusFromTasks(j, tk) \in {"Failed", "Completed", "Running"}
BY DEF StatusFromTasks

\* The records a sweep, a report and a preemption write are task records.
LEMMA RequeuedType ==
    ASSUME TypeOK, NEW t \in Tasks
    PROVE  /\ Requeued(t) \in TaskRecords
           /\ Requeued(t).status \in {"Queued", "Failed"}
           /\ Requeued(t).lease = 0
           /\ Requeued(t).attempt = task[t].attempt
           /\ Requeued(t).key = task[t].key
<1>1. task[t] \in TaskRecords
  BY DEF TypeOK
<1> QED
  BY <1>1 DEF Requeued, TaskRecords, TaskStates, Expiries, Leases

LEMMA ReportedType ==
    ASSUME TypeOK, NEW r \in net
    PROVE  /\ Reported(r) \in TaskRecords
           /\ Reported(r).lease = 0
           /\ Reported(r).attempt = task[r.task].attempt
           /\ Reported(r).status \in {"Running", "Completed", "Queued", "Failed"}
           /\ r.status = "Running" => Reported(r).status = "Running"
<1>1. r \in Reports /\ task[r.task] \in TaskRecords
  BY DEF TypeOK, Reports
<1>2. KeyOf(r) \in Keys
  BY <1>1 DEF KeyOf, Keys, Reports
<1>3. /\ Settled(r) \in TaskRecords
      /\ Settled(r).lease = 0
      /\ Settled(r).attempt = task[r.task].attempt
  BY <1>1, <1>2 DEF Settled, TaskRecords, Leases, Expiries
<1>4. r.worker \in Workers
  BY <1>1 DEF Reports
<1> QED
  BY <1>3, <1>4 DEF Reported, TaskRecords, TaskStates, Expiries

LEMMA AfterPreemptType ==
    ASSUME TypeOK, NEW V
    PROVE  AfterPreempt(V) \in [Tasks -> TaskRecords]
<1> SUFFICES ASSUME NEW t \in Tasks PROVE AfterPreempt(V)[t] \in TaskRecords
  BY DEF AfterPreempt
<1>1. task[t] \in TaskRecords
  BY DEF TypeOK
<1> QED
  BY <1>1 DEF AfterPreempt, TaskRecords, TaskStates, Expiries, Leases

LEMMA LeasedType ==
    ASSUME NEW w \in Workers, NEW rec \in TaskRecords
    PROVE  /\ Leased(w, rec) \in TaskRecords
           /\ Leased(w, rec).status = "Assigned"
           /\ Leased(w, rec).worker = w
           /\ Leased(w, rec).attempt = rec.attempt + 1
           /\ Leased(w, rec).lease = rec.attempt + 1
           /\ Leased(w, rec).expires = "future"
<1>1. rec.attempt + 1 \in Nat
  BY DEF TaskRecords
<1>2. Leased(w, rec) \in TaskRecords
  BY <1>1 DEF Leased, TaskRecords, TaskStates, Expiries, Leases
<1> QED
  BY <1>1, <1>2 DEF Leased, TaskRecords

\* What the bookkeeping of a poll does to the counts of a handler.
LEMMA NackClaimType ==
    ASSUME NEW p \in PollRecords, NEW t \in Tasks, p.claims[t] > 0
    PROVE  /\ NackClaim(p, t) \in PollRecords
           /\ NackClaim(p, t).on = p.on
           /\ NackClaim(p, t).got = p.got
           /\ NackClaim(p, t).rest[t] > 0
           /\ \A u \in Tasks \ {t} : /\ NackClaim(p, t).claims[u] = p.claims[u]
                                    /\ NackClaim(p, t).rest[u] = p.rest[u]
<1> DEFINE q == NackClaim(p, t)
<1>1. [p.claims EXCEPT ![t] = @ - 1] \in [Tasks -> Nat]
  BY DEF PollRecords
<1>2. [p.rest EXCEPT ![t] = @ + 1] \in [Tasks -> Nat]
  BY DEF PollRecords
<1>3. /\ q.claims = [p.claims EXCEPT ![t] = @ - 1]
      /\ q.rest = [p.rest EXCEPT ![t] = @ + 1]
      /\ q.got = p.got
      /\ q.on = p.on
  BY DEF NackClaim, PollRecords
<1>4. q \in PollRecords
  BY <1>1, <1>2 DEF NackClaim, PollRecords
<1> QED
  BY <1>3, <1>4 DEF PollRecords

LEMMA AckClaimType ==
    ASSUME NEW p \in PollRecords, NEW t \in Tasks, p.claims[t] > 0, NEW a \in Assignments
    PROVE  /\ AckClaim(p, t, a) \in PollRecords
           /\ AckClaim(p, t, a).on = p.on
           /\ AckClaim(p, t, a).got = Append(p.got, a)
           /\ AckClaim(p, t, a).rest = p.rest
           /\ \A u \in Tasks \ {t} : AckClaim(p, t, a).claims[u] = p.claims[u]
<1> DEFINE q == AckClaim(p, t, a)
<1>1. Append(p.got, a) \in Seq(Assignments)
  BY DEF PollRecords
<1>2. [p.claims EXCEPT ![t] = @ - 1] \in [Tasks -> Nat]
  BY DEF PollRecords
<1>3. [p.acks EXCEPT ![t] = @ + 1] \in [Tasks -> Nat]
  BY DEF PollRecords
<1>4. /\ q.claims = [p.claims EXCEPT ![t] = @ - 1]
      /\ q.acks = [p.acks EXCEPT ![t] = @ + 1]
      /\ q.got = Append(p.got, a)
      /\ q.rest = p.rest
      /\ q.on = p.on
  BY DEF AckClaim, PollRecords
<1>5. q \in PollRecords
  BY <1>1, <1>2, <1>3 DEF AckClaim, PollRecords
<1> QED
  BY <1>4, <1>5 DEF PollRecords

LEMMA PollOffType ==
    /\ PollOff \in PollRecords
    /\ PollOff.on = FALSE
    /\ PollOff.got = <<>>
    /\ PollOff.claims = NoRefs
    /\ PollOff.rest = NoRefs
BY NoRefsType DEF PollOff, PollRecords

\* The handler PollBegin starts.
LEMMA PollOnType ==
    ASSUME NEW c \in [Tasks -> Nat]
    PROVE  LET p == [PollOff EXCEPT !.on = TRUE, !.claims = c]
           IN  p \in PollRecords /\ p.on = TRUE /\ p.claims = c /\ p.got = <<>>
<1> DEFINE q == PollOff
<1>1. q \in PollRecords /\ q.got = <<>>
  BY PollOffType
<1> HIDE DEF q
<1>2. LET p == [q EXCEPT !.on = TRUE, !.claims = c]
      IN  p \in PollRecords /\ p.on = TRUE /\ p.claims = c /\ p.got = <<>>
  BY <1>1 DEF PollRecords
<1> QED
  BY <1>2 DEF q

LEMMA AgentDownType ==
    AgentDown \in AgentRecords /\ AgentDown.stage = "idle" /\ AgentDown.queue = <<>>
BY DEF AgentDown, AgentRecords, Stages

---------------------------------------------------------------------------
\* A worker process that is starting, executing or reporting a task has that
\* task at the head of its list; without it the reports it sends would not be
\* reports, so the type invariant is proved together with it.
BusyAgentsHaveWork == \A w \in Workers : Busy(w) => agent[w].queue # <<>>

TypeInv == TypeOK /\ BusyAgentsHaveWork

\* The report of a worker that has work is a report.
LEMMA ReportOfType ==
    ASSUME TypeOK, NEW w \in Workers, agent[w].queue # <<>>,
           NEW s \in {"Running", "Completed", "Failed"}
    PROVE  /\ ReportOf(w, s) \in Reports
           /\ ReportOf(w, s).worker = w
           /\ ReportOf(w, s).task = agent[w].queue[1].task
           /\ ReportOf(w, s).attempt = agent[w].queue[1].attempt
<1>1. agent[w].queue \in Seq(Assignments)
  BY DEF TypeOK, AgentRecords
<1>2. Head(agent[w].queue) = agent[w].queue[1] /\ agent[w].queue[1] \in Assignments
  BY <1>1
<1> QED
  BY <1>2 DEF ReportOf, Current, Reports, Assignments

LEMMA RecordTypes ==
    ASSUME TypeOK
    PROVE  /\ \A t \in Tasks : task[t] \in TaskRecords
           /\ \A w \in Workers : agent[w] \in AgentRecords /\ poll[w] \in PollRecords
BY DEF TypeOK

\* A step that replaces the process of one worker.
LEMMA AgentUpdate ==
    ASSUME TypeOK, BusyAgentsHaveWork, NEW w \in Workers, NEW rec \in AgentRecords,
           agent' = [agent EXCEPT ![w] = rec],
           rec.stage \in {"starting", "executing", "reporting"} => rec.queue # <<>>
    PROVE  agent' \in [Workers -> AgentRecords] /\ BusyAgentsHaveWork'
<1>1. agent \in [Workers -> AgentRecords]
  BY DEF TypeOK
<1>2. \A v \in Workers : agent'[v] = IF v = w THEN rec ELSE agent[v]
  BY <1>1
<1>3. agent' \in [Workers -> AgentRecords]
  BY <1>1
<1> QED
  BY <1>2, <1>3 DEF BusyAgentsHaveWork, Busy

LEMMA InitType == Init => TypeInv
<1> SUFFICES ASSUME Init PROVE TypeInv
  OBVIOUS
<1>1. NewTask \in TaskRecords
  BY DEF NewTask, TaskRecords, TaskStates, Expiries, Leases
<1>2. TypeOK
  BY <1>1, NoRefsType, PollOffType, AgentDownType DEF Init, TypeOK, JobStates
<1>3. BusyAgentsHaveWork
  BY DEF Init, BusyAgentsHaveWork, Busy, AgentDown
<1> QED
  BY <1>2, <1>3 DEF TypeInv

\* Every action keeps the types.
LEMMA NextType == TypeInv /\ [Next]_vars => TypeInv'
<1> SUFFICES ASSUME TypeInv, [Next]_vars PROVE TypeInv'
  OBVIOUS
<1> USE JobsAssumption, TasksAssumption
<1>0. TypeOK /\ BusyAgentsHaveWork
  BY DEF TypeInv
<1>1. ASSUME NEW j \in Jobs, AddJob(j) PROVE TypeInv'
  BY <1>0, <1>1, EnqueueType DEF AddJob, TypeInv, TypeOK, JobStates, BusyAgentsHaveWork, Busy
<1>2. ASSUME NEW j \in Jobs, CancelJob(j) PROVE TypeInv'
  <2>1. task' \in [Tasks -> TaskRecords]
    <3> SUFFICES ASSUME NEW t \in Tasks PROVE task'[t] \in TaskRecords
      BY <1>2 DEF CancelJob
    <3>1. task[t] \in TaskRecords
      BY <1>0 DEF TypeOK
    <3> QED
      BY <1>2, <3>1 DEF CancelJob, TaskRecords, TaskStates, Expiries, Leases
  <2> QED
    BY <1>0, <1>2, <2>1 DEF CancelJob, TypeInv, TypeOK, JobStates, BusyAgentsHaveWork, Busy
<1>3. ASSUME NEW j \in Jobs, ArchiveJob(j) PROVE TypeInv'
  BY <1>0, <1>3 DEF ArchiveJob, TypeInv, TypeOK, JobStates, BusyAgentsHaveWork, Busy
<1>4. ASSUME NEW w \in Workers, RegisterWorker(w) PROVE TypeInv'
  <2> DEFINE rec == [AgentDown EXCEPT !.up = TRUE]
  <2>1. rec \in AgentRecords /\ rec.stage = "idle"
    BY AgentDownType DEF AgentRecords, Stages
  <2>a. agent' = [agent EXCEPT ![w] = rec]
    BY <1>4 DEF RegisterWorker
  <2> HIDE DEF rec
  <2>2. agent' \in [Workers -> AgentRecords] /\ BusyAgentsHaveWork'
    BY <1>0, <2>1, <2>a, AgentUpdate
  <2> QED
    BY <1>0, <1>4, <2>2 DEF RegisterWorker, TypeInv, TypeOK
<1>5. ASSUME NEW w \in Workers, Heartbeat(w) PROVE TypeInv'
  <2>1. task' \in [Tasks -> TaskRecords]
    <3> SUFFICES ASSUME NEW t \in Tasks PROVE Extended(w, t) \in TaskRecords
      BY <1>5 DEF Heartbeat
    <3>1. task[t] \in TaskRecords
      BY <1>0 DEF TypeOK
    <3> QED
      BY <3>1 DEF Extended, TaskRecords, Expiries
  <2> QED
    BY <1>0, <1>5, <2>1 DEF Heartbeat, TypeInv, TypeOK, BusyAgentsHaveWork, Busy
<1>6. ASSUME NEW w \in Workers, PollBegin(w) PROVE TypeInv'
  <2>1. task' \in [Tasks -> TaskRecords]
    BY <1>0, <1>6, RequeuedType DEF PollBegin, Swept, TypeOK
  <2>2. job' \in [Jobs -> JobStates]
    BY <1>0, <1>6, StatusFromTasksType DEF PollBegin, SweptJob, TypeOK, JobStates
  <2>3. Enqueue(pending, SweptRefs) \in [Tasks -> Nat]
    BY <1>0, EnqueueType DEF TypeOK
  <2>4. poll' \in [Workers -> PollRecords]
    BY <1>0, <1>6, <2>3, PollOnType DEF PollBegin, TypeOK
  <2> DEFINE rec == [agent[w] EXCEPT !.stage = "polling"]
  <2>5. rec \in AgentRecords /\ rec.stage = "polling"
    BY <1>0, RecordTypes DEF AgentRecords, Stages
  <2>a. agent' = [agent EXCEPT ![w] = rec]
    BY <1>6 DEF PollBegin
  <2> HIDE DEF rec
  <2>6. agent' \in [Workers -> AgentRecords] /\ BusyAgentsHaveWork'
    BY <1>0, <2>5, <2>a, AgentUpdate
  <2> QED
    BY <1>0, <1>6, <2>1, <2>2, <2>4, <2>6, NoRefsType DEF PollBegin, TypeInv, TypeOK
<1>7. ASSUME NEW w \in Workers, NEW t \in Tasks, TryAssignSkips(w, t) PROVE TypeInv'
  <2>1. NackClaim(poll[w], t) \in PollRecords
    BY <1>0, <1>7, RecordTypes, NackClaimType DEF TryAssignSkips, NextClaim
  <2> QED
    BY <1>0, <1>7, <2>1 DEF TryAssignSkips, TypeInv, TypeOK, BusyAgentsHaveWork, Busy
<1>8. ASSUME NEW w \in Workers, NEW t \in Tasks, NEW V, TryAssignSucceeds(w, t, V)
      PROVE TypeInv'
  <2>1. task' \in [Tasks -> TaskRecords]
    BY <1>0, <1>8, AfterPreemptType, LeasedType DEF TryAssignSucceeds
  <2>2. [task |-> t, attempt |-> task[t].attempt + 1] \in Assignments
    BY <1>0, RecordTypes DEF TaskRecords, Assignments
  <2>3. AckClaim(poll[w], t, [task |-> t, attempt |-> task[t].attempt + 1]) \in PollRecords
    BY <1>0, <1>8, <2>2, RecordTypes, AckClaimType DEF TryAssignSucceeds, NextClaim
  <2>4. poll' \in [Workers -> PollRecords]
    BY <1>0, <1>8, <2>3 DEF TryAssignSucceeds, TypeOK
  <2>5. pending' \in [Tasks -> Nat]
    BY <1>0, <1>8, EnqueueType DEF TryAssignSucceeds, TypeOK
  <2> QED
    BY <1>0, <1>8, <2>1, <2>4, <2>5
    DEF TryAssignSucceeds, TypeInv, TypeOK, BusyAgentsHaveWork, Busy
<1>9. ASSUME NEW w \in Workers, NEW t \in Tasks, NEW V, TryAssignDenied(w, t, V)
      PROVE TypeInv'
  <2>1. \A rec \in TaskRecords : [rec EXCEPT !.status = "Failed"] \in TaskRecords
    BY DEF TaskRecords, TaskStates
  <2>2. task' \in [Tasks -> TaskRecords]
    BY <1>0, <1>9, <2>1, AfterPreemptType DEF TryAssignDenied
  <2>3. NackClaim(poll[w], t) \in PollRecords
    BY <1>0, <1>9, RecordTypes, NackClaimType DEF TryAssignDenied, NextClaim
  <2>4. pending' \in [Tasks -> Nat]
    BY <1>0, <1>9, EnqueueType DEF TryAssignDenied, TypeOK
  <2>5. job' \in [Jobs -> JobStates]
    BY <1>0, <1>9 DEF TryAssignDenied, TypeOK, JobStates
  <2> QED
    BY <1>0, <1>9, <2>2, <2>3, <2>4, <2>5
    DEF TryAssignDenied, TypeInv, TypeOK, BusyAgentsHaveWork, Busy
<1>10. ASSUME NEW w \in Workers, PollEnd(w) PROVE TypeInv'
  <2>1. poll[w] \in PollRecords /\ agent[w] \in AgentRecords
    BY <1>0, RecordTypes
  <2>2. AddBags(poll[w].claims, poll[w].rest) \in [Tasks -> Nat]
    BY <2>1, AddBagsType DEF PollRecords
  <2>3. pending' \in [Tasks -> Nat]
    BY <1>0, <1>10, <2>2, AddBagsType DEF PollEnd, TypeOK
  <2>4. poll' \in [Workers -> PollRecords]
    BY <1>0, <1>10, PollOffType DEF PollEnd, TypeOK
  <2>5. agent' \in [Workers -> AgentRecords] /\ BusyAgentsHaveWork'
    <3> DEFINE rec == [agent[w] EXCEPT !.stage = "idle", !.queue = poll[w].got]
    <3>1. rec \in AgentRecords /\ rec.stage = "idle"
      BY <2>1 DEF AgentRecords, PollRecords, Stages
    <3>2. CASE agent[w].stage = "polling"
      <4>1. agent' = [agent EXCEPT ![w] = rec]
        BY <1>0, <1>10, <3>2 DEF PollEnd, TypeOK
      <4> QED
        BY <1>0, <3>1, <4>1, AgentUpdate
    <3>3. CASE agent[w].stage # "polling"
      BY <1>0, <1>10, <3>3 DEF PollEnd, TypeOK, BusyAgentsHaveWork, Busy
    <3> QED
      BY <3>2, <3>3
  <2> QED
    BY <1>0, <1>10, <2>3, <2>4, <2>5 DEF PollEnd, TypeInv, TypeOK
<1>11. ASSUME NEW w \in Workers, PollAborts(w) PROVE TypeInv'
  <2>1. poll[w] \in PollRecords /\ agent[w] \in AgentRecords
    BY <1>0, RecordTypes
  <2>2. AddBags(poll[w].claims, poll[w].rest) \in [Tasks -> Nat]
    BY <2>1, AddBagsType DEF PollRecords
  <2>3. AddBags(poll[w].acks, AddBags(poll[w].claims, poll[w].rest)) \in [Tasks -> Nat]
    BY <2>1, <2>2, AddBagsType DEF PollRecords
  <2>4. pending' \in [Tasks -> Nat]
    BY <1>0, <1>11, <2>3, AddBagsType DEF PollAborts, TypeOK
  <2>5. poll' \in [Workers -> PollRecords]
    BY <1>0, <1>11, PollOffType DEF PollAborts, TypeOK
  <2>6. agent' \in [Workers -> AgentRecords] /\ BusyAgentsHaveWork'
    <3> DEFINE rec == [agent[w] EXCEPT !.stage = "idle"]
    <3>1. rec \in AgentRecords /\ rec.stage = "idle"
      BY <2>1 DEF AgentRecords, Stages
    <3>2. CASE agent[w].stage = "polling"
      <4>1. agent' = [agent EXCEPT ![w] = rec]
        BY <1>0, <1>11, <3>2 DEF PollAborts, TypeOK
      <4> HIDE DEF rec
      <4> QED
        BY <1>0, <3>1, <4>1, AgentUpdate
    <3>3. CASE agent[w].stage # "polling"
      BY <1>0, <1>11, <3>3 DEF PollAborts, TypeOK, BusyAgentsHaveWork, Busy
    <3> QED
      BY <3>2, <3>3
  <2> QED
    BY <1>0, <1>11, <2>4, <2>5, <2>6 DEF PollAborts, TypeInv, TypeOK
<1>12. ASSUME NEW w \in Workers, PollTimesOut(w) PROVE TypeInv'
  <2> DEFINE rec == [agent[w] EXCEPT !.stage = "idle"]
  <2>1. rec \in AgentRecords /\ rec.stage = "idle"
    BY <1>0, RecordTypes DEF AgentRecords, Stages
  <2>2. agent' = [agent EXCEPT ![w] = rec]
    BY <1>12 DEF PollTimesOut
  <2> HIDE DEF rec
  <2>3. agent' \in [Workers -> AgentRecords] /\ BusyAgentsHaveWork'
    BY <1>0, <2>1, <2>2, AgentUpdate
  <2> QED
    BY <1>0, <1>12, <2>3 DEF PollTimesOut, TypeInv, TypeOK
<1>13. ASSUME NEW w \in Workers, StartTask(w) PROVE TypeInv'
  <2> DEFINE rec == [agent[w] EXCEPT !.stage = "starting"]
  <2>1. rec \in AgentRecords /\ rec.queue # <<>>
    BY <1>0, <1>13, RecordTypes DEF StartTask, AgentRecords, Stages
  <2>2. agent' = [agent EXCEPT ![w] = rec]
    BY <1>13 DEF StartTask
  <2> HIDE DEF rec
  <2>3. agent' \in [Workers -> AgentRecords] /\ BusyAgentsHaveWork'
    BY <1>0, <2>1, <2>2, AgentUpdate
  <2>4. ReportOf(w, "Running") \in Reports
    BY <1>0, <1>13, ReportOfType DEF StartTask
  <2> QED
    BY <1>0, <1>13, <2>3, <2>4 DEF StartTask, TypeInv, TypeOK
<1>14. ASSUME NEW w \in Workers, Execute(w) PROVE TypeInv'
  <2> DEFINE rec == [agent[w] EXCEPT !.stage = "executing"]
  <2>1. rec \in AgentRecords /\ rec.queue # <<>>
    BY <1>0, <1>14, RecordTypes DEF Execute, AgentRecords, Stages, BusyAgentsHaveWork, Busy
  <2>2. agent' = [agent EXCEPT ![w] = rec]
    BY <1>14 DEF Execute
  <2> HIDE DEF rec
  <2>3. agent' \in [Workers -> AgentRecords] /\ BusyAgentsHaveWork'
    BY <1>0, <2>1, <2>2, AgentUpdate
  <2> QED
    BY <1>0, <1>14, <2>3 DEF Execute, TypeInv, TypeOK
<1>15. ASSUME NEW w \in Workers, NEW s \in {"Completed", "Failed"}, FinishTask(w, s)
       PROVE TypeInv'
  <2> DEFINE rec == [agent[w] EXCEPT !.stage = "reporting"]
  <2>0. agent[w].queue # <<>>
    BY <1>0, <1>15 DEF FinishTask, BusyAgentsHaveWork, Busy
  <2>1. rec \in AgentRecords /\ rec.queue # <<>>
    BY <1>0, <2>0, RecordTypes DEF AgentRecords, Stages
  <2>2. agent' = [agent EXCEPT ![w] = rec]
    BY <1>15 DEF FinishTask
  <2> HIDE DEF rec
  <2>3. agent' \in [Workers -> AgentRecords] /\ BusyAgentsHaveWork'
    BY <1>0, <2>1, <2>2, AgentUpdate
  <2>4. ReportOf(w, s) \in Reports
    BY <1>0, <2>0, ReportOfType
  <2> QED
    BY <1>0, <1>15, <2>3, <2>4 DEF FinishTask, TypeInv, TypeOK
<1>16. ASSUME NEW w \in Workers, NextAssignment(w) PROVE TypeInv'
  <2> DEFINE rec == [agent[w] EXCEPT !.stage = "idle", !.queue = Tail(@)]
  <2>0. agent[w].queue # <<>> /\ agent[w] \in AgentRecords
    BY <1>0, <1>16, RecordTypes DEF NextAssignment, BusyAgentsHaveWork, Busy
  <2>a. Tail(agent[w].queue) \in Seq(Assignments)
    BY <2>0 DEF AgentRecords
  <2>1. rec \in AgentRecords /\ rec.stage = "idle"
    BY <2>0, <2>a DEF AgentRecords, Stages
  <2>2. agent' = [agent EXCEPT ![w] = rec]
    BY <1>16 DEF NextAssignment
  <2> HIDE DEF rec
  <2>3. agent' \in [Workers -> AgentRecords] /\ BusyAgentsHaveWork'
    BY <1>0, <2>1, <2>2, AgentUpdate
  <2> QED
    BY <1>0, <1>16, <2>3 DEF NextAssignment, TypeInv, TypeOK
<1>17. ASSUME NEW w \in Workers, Crash(w) PROVE TypeInv'
  <2>1. agent' = [agent EXCEPT ![w] = AgentDown] /\ AgentDown.stage = "idle"
    BY <1>17 DEF Crash, AgentDown
  <2>2. agent' \in [Workers -> AgentRecords] /\ BusyAgentsHaveWork'
    BY <1>0, <2>1, AgentDownType, AgentUpdate
  <2> QED
    BY <1>0, <1>17, <2>2 DEF Crash, TypeInv, TypeOK
<1>18. ASSUME NEW t \in Tasks, LeaseLapses(t) \/ DeadlinePasses(t) PROVE TypeInv'
  <2>1. \A e \in Expiries : [task[t] EXCEPT !.expires = e] \in TaskRecords
    BY <1>0, RecordTypes DEF TaskRecords
  <2>2. PICK e \in Expiries : task' = [task EXCEPT ![t] = [task[t] EXCEPT !.expires = e]]
    BY <1>18 DEF LeaseLapses, DeadlinePasses, Expiries
  <2>3. task' \in [Tasks -> TaskRecords]
    BY <1>0, <2>1, <2>2 DEF TypeOK
  <2> QED
    BY <1>0, <1>18, <2>3
    DEF LeaseLapses, DeadlinePasses, TypeInv, TypeOK, BusyAgentsHaveWork, Busy
<1>19. ASSUME NEW r \in net, ReportIgnored(r) \/ ReportLost(r) PROVE TypeInv'
  BY <1>0, <1>19 DEF ReportIgnored, ReportLost, TypeInv, TypeOK, BusyAgentsHaveWork, Busy
<1>20. ASSUME NEW r \in net, ReportTaskResult(r) PROVE TypeInv'
  <2>1. task' \in [Tasks -> TaskRecords]
    BY <1>0, <1>20, ReportedType DEF ReportTaskResult, TypeOK
  <2>2. job' \in [Jobs -> JobStates]
    BY <1>0, <1>20, StatusFromTasksType DEF ReportTaskResult, TypeOK, JobStates
  <2>3. pending' \in [Tasks -> Nat]
    BY <1>0, <1>20, EnqueueType DEF ReportTaskResult, TypeOK
  <2> QED
    BY <1>0, <1>20, <2>1, <2>2, <2>3
    DEF ReportTaskResult, TypeInv, TypeOK, BusyAgentsHaveWork, Busy
<1>21. CASE UNCHANGED vars
  BY <1>0, <1>21 DEF vars, TypeInv, TypeOK, BusyAgentsHaveWork, Busy
<1> QED
  BY <1>1, <1>2, <1>3, <1>4, <1>5, <1>6, <1>7, <1>8, <1>9, <1>10, <1>11, <1>12, <1>13,
     <1>14, <1>15, <1>16, <1>17, <1>18, <1>19, <1>20, <1>21
  DEF Next, UserNext, WorkerNext, PollNext, AgentNext, TimeNext, ReportNext

\* The type invariant of the engine, the queue, the workers and the network.
THEOREM TypeCorrect == Spec => []TypeOK
<1>1. TypeInv => TypeOK
  BY DEF TypeInv
<1> QED
  BY <1>1, InitType, NextType, PTL DEF Spec

---------------------------------------------------------------------------
\* The inductive invariant.  Besides the properties to be proved it says:
\* a handler that has ended holds no claims, and handlers belong to workers
\* with a record;
IdlePollsAreEmpty ==
    \A w \in Workers : IF poll[w].on THEN w \in registered ELSE poll[w] = PollOff

\* the tasks of a job that is not stored yet are as AddJob will store them;
NewTasksUntouched ==
    \A t \in Tasks : job[JobOf[t]] = "none" => task[t].status = "Queued" /\ task[t].attempt = 0

\* tasks are Canceled in closed jobs only;
CanceledInClosedJobs ==
    \A t \in Tasks : task[t].status = "Canceled" => job[JobOf[t]] \in {"Canceled", "Archived"}

\* a job is Running only while no task of it failed and not all completed.
RunningJobsAreOpen ==
    \A j \in Jobs : job[j] = "Running" =>
        /\ \A t \in TasksOf(j) : task[t].status # "Failed"
        /\ \E t \in TasksOf(j) : task[t].status # "Completed"

IInv ==
    /\ TypeInv
    /\ IdlePollsAreEmpty
    /\ NewTasksUntouched
    /\ CanceledInClosedJobs
    /\ RunningJobsAreOpen
    /\ AssignedIffLeased
    /\ OneHolderPerAttempt
    /\ ReadyTasksHaveRefs

---------------------------------------------------------------------------
\* What the steps that write task records leave in them.
LEMMA CancelEffect ==
    ASSUME TypeOK, NEW j \in Jobs, CancelJob(j), NEW u \in Tasks
    PROVE  \/ task'[u] = task[u] /\ ~(JobOf[u] = j /\ task[u].status \in {"Queued", "Running"})
           \/ /\ JobOf[u] = j /\ task[u].status \in {"Queued", "Running"}
              /\ task'[u].status = "Canceled"
              /\ task'[u].lease = 0
              /\ task'[u].attempt = task[u].attempt
<1>1. task[u] \in TaskRecords
  BY RecordTypes
<1> QED
  BY <1>1 DEF CancelJob, TaskRecords

\* Time and heartbeats change expiries only.
LEMMA ClockEffect ==
    ASSUME TypeOK, NEW u \in Tasks,
           \/ \E w \in Workers : Heartbeat(w)
           \/ \E t \in Tasks : LeaseLapses(t) \/ DeadlinePasses(t)
    PROVE  /\ task'[u].status = task[u].status
           /\ task'[u].lease = task[u].lease
           /\ task'[u].worker = task[u].worker
           /\ task'[u].attempt = task[u].attempt
           /\ task[u].expires # "zero" => task'[u].expires # "zero"
<1>1. task[u] \in TaskRecords
  BY RecordTypes
<1>2. CASE \E w \in Workers : Heartbeat(w)
  BY <1>1, <1>2 DEF Heartbeat, Extended, TaskRecords
<1>3. CASE \E t \in Tasks : LeaseLapses(t) \/ DeadlinePasses(t)
  <2>1. task \in [Tasks -> TaskRecords]
    BY DEF TypeOK
  <2>2. PICK t \in Tasks, e \in {"past", "overdue"} : task' = [task EXCEPT ![t].expires = e]
    BY <1>3 DEF LeaseLapses, DeadlinePasses
  <2>3. task'[u] = IF u = t THEN [task[u] EXCEPT !.expires = e] ELSE task[u]
    BY <2>1, <2>2
  <2> QED
    BY <1>1, <2>3 DEF TaskRecords
<1> QED
  BY <1>2, <1>3

LEMMA SweepEffect ==
    ASSUME TypeOK, NEW w \in Workers, PollBegin(w), NEW u \in Tasks
    PROVE  /\ task'[u] = IF Expired(u) THEN Requeued(u) ELSE task[u]
           /\ task'[u].attempt = task[u].attempt
           /\ Expired(u) => task'[u].status \in {"Queued", "Failed"} /\ task'[u].lease = 0
BY RequeuedType DEF PollBegin, Swept

LEMMA VictimsBusy ==
    ASSUME NEW w \in Workers, NEW t \in Tasks, NEW V \in VictimSets(w, t), NEW v \in V
    PROVE  v \in Tasks /\ task[v].status \in {"Running", "Assigned"}
BY DEF VictimSets, Victims

LEMMA PreemptEffect ==
    ASSUME TypeOK, NEW V, NEW u \in Tasks
    PROVE  IF u \in V
           THEN /\ AfterPreempt(V)[u].status = "Queued"
                /\ AfterPreempt(V)[u].lease = 0
                /\ AfterPreempt(V)[u].attempt = task[u].attempt
           ELSE AfterPreempt(V)[u] = task[u]
<1>1. task[u] \in TaskRecords
  BY RecordTypes
<1> QED
  BY <1>1 DEF AfterPreempt, TaskRecords

LEMMA SucceedsEffect ==
    ASSUME TypeOK, NEW w \in Workers, NEW t \in Tasks, NEW V \in VictimSets(w, t),
           TryAssignSucceeds(w, t, V), NEW u \in Tasks
    PROVE  IF u = t
           THEN /\ task[u].status = "Queued" /\ job[JobOf[u]] = "Running"
                /\ task'[u] = Leased(w, task[u])
           ELSE IF u \in V
                THEN /\ task[u].status \in {"Running", "Assigned"}
                     /\ task'[u].status = "Queued"
                     /\ task'[u].lease = 0
                     /\ task'[u].attempt = task[u].attempt
                ELSE task'[u] = task[u]
<1>1. task[t].status = "Queued" /\ job[JobOf[t]] = "Running"
  BY DEF TryAssignSucceeds, Assignable
<1>2. t \notin V
  BY <1>1, VictimsBusy
<1>3. AfterPreempt(V) \in [Tasks -> TaskRecords]
  BY AfterPreemptType
<1>4. task'[u] = IF u = t THEN Leased(w, AfterPreempt(V)[u]) ELSE AfterPreempt(V)[u]
  BY <1>3 DEF TryAssignSucceeds
<1> QED
  BY <1>1, <1>2, <1>4, PreemptEffect, VictimsBusy

LEMMA FailedRecord ==
    ASSUME NEW rec \in TaskRecords
    PROVE  LET f == [rec EXCEPT !.status = "Failed"]
           IN  f.status = "Failed" /\ f.lease = rec.lease /\ f.attempt = rec.attempt
BY DEF TaskRecords

LEMMA DeniedEffect ==
    ASSUME TypeOK, NEW w \in Workers, NEW t \in Tasks, NEW V \in VictimSets(w, t),
           TryAssignDenied(w, t, V), NEW u \in Tasks
    PROVE  IF u = t
           THEN /\ task[u].status = "Queued" /\ job[JobOf[u]] = "Running"
                /\ task'[u].status = "Failed"
                /\ task'[u].lease = task[u].lease
                /\ task'[u].attempt = task[u].attempt
           ELSE IF u \in V
                THEN /\ task[u].status \in {"Running", "Assigned"}
                     /\ task'[u].status = "Queued"
                     /\ task'[u].lease = 0
                     /\ task'[u].attempt = task[u].attempt
                ELSE task'[u] = task[u]
<1>1. task[t].status = "Queued" /\ job[JobOf[t]] = "Running"
  BY DEF TryAssignDenied, Assignable
<1>2. t \notin V
  BY <1>1, VictimsBusy
<1>3. AfterPreempt(V) \in [Tasks -> TaskRecords]
  BY AfterPreemptType
<1>4. CASE u = t
  <2>1. AfterPreempt(V)[t] = task[t] /\ task[t] \in TaskRecords
    BY <1>2, PreemptEffect, RecordTypes
  <2>2. task'[t] = [task[t] EXCEPT !.status = "Failed"]
    BY <1>3, <2>1 DEF TryAssignDenied
  <2> QED
    BY <1>1, <1>4, <2>1, <2>2, FailedRecord
<1>5. CASE u # t
  <2>1. task'[u] = AfterPreempt(V)[u]
    BY <1>3, <1>5 DEF TryAssignDenied
  <2> QED
    BY <1>5, <2>1, PreemptEffect, VictimsBusy
<1> QED
  BY <1>4, <1>5

LEMMA ReportEffect ==
    ASSUME TypeOK, NEW r \in net, ReportTaskResult(r), NEW u \in Tasks
    PROVE  /\ r \in Reports /\ r.task \in Tasks
           /\ job[JobOf[r.task]] \notin {"Canceled", "Archived"}
           /\ task'[u] = IF u = r.task THEN Reported(r) ELSE task[u]
BY DEF ReportTaskResult, Ignored, TypeOK, Reports

---------------------------------------------------------------------------
\* Handlers that have ended hold nothing.
LEMMA IdlePollsInductive == IInv /\ [Next]_vars => IdlePollsAreEmpty'
<1> SUFFICES ASSUME IInv, [Next]_vars PROVE IdlePollsAreEmpty'
  OBVIOUS
<1>0. TypeOK /\ IdlePollsAreEmpty
  BY DEF IInv, TypeInv
<1>a. poll \in [Workers -> PollRecords]
  BY <1>0 DEF TypeOK
<1>1. ASSUME NEW w \in Workers, PollBegin(w) PROVE IdlePollsAreEmpty'
  <2>1. Enqueue(pending, SweptRefs) \in [Tasks -> Nat]
    BY <1>0, EnqueueType DEF TypeOK
  <2>2. poll'[w].on /\ w \in registered'
    BY <1>a, <1>1, <2>1, PollOnType DEF PollBegin
  <2>3. \A v \in Workers \ {w} : poll'[v] = poll[v] /\ registered' = registered
    BY <1>a, <1>1 DEF PollBegin
  <2> QED
    BY <1>0, <2>2, <2>3 DEF IdlePollsAreEmpty
<1>2. ASSUME NEW w \in Workers, NEW t \in Tasks, NEW V,
             TryAssignSkips(w, t) \/ TryAssignDenied(w, t, V)
      PROVE IdlePollsAreEmpty'
  <2>1. poll[w].on /\ poll[w].claims[t] > 0 /\ poll' = [poll EXCEPT ![w] = NackClaim(poll[w], t)]
    BY <1>2 DEF TryAssignSkips, TryAssignDenied, NextClaim
  <2>2. poll'[w].on /\ registered' = registered
    BY <1>a, <1>2, <2>1, NackClaimType DEF TryAssignSkips, TryAssignDenied
  <2>3. \A v \in Workers \ {w} : poll'[v] = poll[v]
    BY <1>a, <2>1
  <2> QED
    BY <1>0, <2>1, <2>2, <2>3 DEF IdlePollsAreEmpty
<1>3. ASSUME NEW w \in Workers, NEW t \in Tasks, NEW V, TryAssignSucceeds(w, t, V)
      PROVE IdlePollsAreEmpty'
  <2> DEFINE a == [task |-> t, attempt |-> task[t].attempt + 1]
  <2>0. a \in Assignments
    BY <1>0, RecordTypes DEF TaskRecords, Assignments
  <2>1. poll[w].on /\ poll[w].claims[t] > 0 /\ poll' = [poll EXCEPT ![w] = AckClaim(poll[w], t, a)]
    BY <1>3 DEF TryAssignSucceeds, NextClaim
  <2> HIDE DEF a
  <2>2. poll'[w].on /\ registered' = registered
    BY <1>a, <1>3, <2>0, <2>1, AckClaimType DEF TryAssignSucceeds
  <2>3. \A v \in Workers \ {w} : poll'[v] = poll[v]
    BY <1>a, <2>1
  <2> QED
    BY <1>0, <2>1, <2>2, <2>3 DEF IdlePollsAreEmpty
<1>4. ASSUME NEW w \in Workers, PollEnd(w) \/ PollAborts(w) PROVE IdlePollsAreEmpty'
  BY <1>0, <1>a, <1>4, PollOffType DEF PollEnd, PollAborts, IdlePollsAreEmpty
<1>5. ASSUME UNCHANGED poll, registered \subseteq registered' PROVE IdlePollsAreEmpty'
  BY <1>0, <1>5 DEF IdlePollsAreEmpty
<1>6. ASSUME NEW j \in Jobs, AddJob(j) \/ CancelJob(j) \/ ArchiveJob(j)
      PROVE IdlePollsAreEmpty'
  BY <1>5, <1>6 DEF AddJob, CancelJob, ArchiveJob
<1>7. ASSUME NEW w \in Workers,
             RegisterWorker(w) \/ Heartbeat(w) \/ PollTimesOut(w) \/ AgentNext(w) \/ Crash(w)
      PROVE IdlePollsAreEmpty'
  BY <1>5, <1>7 DEF RegisterWorker, Heartbeat, PollTimesOut, AgentNext, StartTask, Execute,
     FinishTask, NextAssignment, Crash
<1>8. ASSUME TimeNext \/ ReportNext PROVE IdlePollsAreEmpty'
  BY <1>5, <1>8 DEF TimeNext, LeaseLapses, DeadlinePasses, ReportNext, ReportIgnored,
     ReportLost, ReportTaskResult
<1>9. CASE UNCHANGED vars
  BY <1>5, <1>9 DEF vars
<1> QED
  BY <1>1, <1>2, <1>3, <1>4, <1>6, <1>7, <1>8, <1>9 DEF Next, UserNext, WorkerNext, PollNext

\* The steps that write no task record and no job.
LEMMA FrameSteps ==
    ASSUME \/ \E w \in Workers : \/ RegisterWorker(w)
                                 \/ \E t \in Tasks : TryAssignSkips(w, t)
                                 \/ PollEnd(w)
                                 \/ PollAborts(w)
                                 \/ PollTimesOut(w)
                                 \/ AgentNext(w)
                                 \/ Crash(w)
           \/ \E r \in net : ReportIgnored(r) \/ ReportLost(r)
           \/ UNCHANGED vars
    PROVE  task' = task /\ job' = job /\ registered \subseteq registered'
BY DEF RegisterWorker, TryAssignSkips, PollEnd, PollAborts, PollTimesOut, AgentNext, StartTask,
   Execute, FinishTask, NextAssignment, Crash, ReportIgnored, ReportLost, vars

\* Assigned and leased go together.
LEMMA AssignedIffLeasedInductive == IInv /\ [Next]_vars => AssignedIffLeased'
<1> SUFFICES ASSUME IInv, [Next]_vars PROVE AssignedIffLeased'
  OBVIOUS
<1>0. TypeOK /\ IdlePollsAreEmpty /\ AssignedIffLeased
  BY DEF IInv, TypeInv
<1>1. ASSUME task' = task, registered \subseteq registered' PROVE AssignedIffLeased'
  BY <1>0, <1>1 DEF AssignedIffLeased
<1>2. ASSUME NEW j \in Jobs, AddJob(j) \/ ArchiveJob(j) PROVE AssignedIffLeased'
  BY <1>1, <1>2 DEF AddJob, ArchiveJob
<1>3. ASSUME NEW j \in Jobs, CancelJob(j) PROVE AssignedIffLeased'
  <2>1. registered' = registered
    BY <1>3 DEF CancelJob
  <2> QED
    BY <1>0, <1>3, <2>1, CancelEffect DEF AssignedIffLeased
<1>4. ASSUME (\E w \in Workers : Heartbeat(w)) \/ TimeNext PROVE AssignedIffLeased'
  <2>1. registered' = registered
    BY <1>4 DEF Heartbeat, TimeNext, LeaseLapses, DeadlinePasses
  <2> QED
    BY <1>0, <1>4, <2>1, ClockEffect DEF AssignedIffLeased, TimeNext
<1>5. ASSUME NEW w \in Workers, PollBegin(w) PROVE AssignedIffLeased'
  <2>1. registered' = registered
    BY <1>5 DEF PollBegin
  <2> QED
    BY <1>0, <1>5, <2>1, SweepEffect DEF AssignedIffLeased
<1>6. ASSUME NEW w \in Workers, NEW t \in Tasks, NEW V \in VictimSets(w, t),
             TryAssignSucceeds(w, t, V)
      PROVE AssignedIffLeased'
  <2>1. registered' = registered /\ w \in registered
    BY <1>0, <1>6 DEF TryAssignSucceeds, NextClaim, IdlePollsAreEmpty
  <2>2. task[t] \in TaskRecords /\ task[t].attempt \in Nat
    BY <1>0, RecordTypes DEF TaskRecords
  <2>3. task'[t] = Leased(w, task[t])
    BY <1>0, <1>6, SucceedsEffect
  <2>4. /\ task'[t].status = "Assigned" /\ task'[t].lease # 0
        /\ task'[t].lease = task'[t].attempt
        /\ task'[t].worker \in registered' /\ task'[t].expires # "zero"
    BY <2>1, <2>2, <2>3, LeasedType
  <2> QED
    BY <1>0, <1>6, <2>1, <2>4, SucceedsEffect DEF AssignedIffLeased
<1>7. ASSUME NEW w \in Workers, NEW t \in Tasks, NEW V \in VictimSets(w, t),
             TryAssignDenied(w, t, V)
      PROVE AssignedIffLeased'
  <2>1. registered' = registered
    BY <1>7 DEF TryAssignDenied
  <2>3. task'[t].status = "Failed" /\ task'[t].lease = 0
    BY <1>0, <1>7, DeniedEffect DEF AssignedIffLeased
  <2> QED
    BY <1>0, <1>7, <2>1, <2>3, DeniedEffect DEF AssignedIffLeased
<1>8. ASSUME NEW r \in net, ReportTaskResult(r) PROVE AssignedIffLeased'
  <2>1. registered' = registered
    BY <1>8 DEF ReportTaskResult
  <2> QED
    BY <1>0, <1>8, <2>1, ReportEffect, ReportedType DEF AssignedIffLeased
<1> QED
  BY <1>1, <1>2, <1>3, <1>4, <1>5, <1>6, <1>7, <1>8, FrameSteps
  DEF Next, UserNext, WorkerNext, PollNext, ReportNext

\* An accepted report is about a job that is stored: its attempt was handed out.
LEMMA ReportedJobExists ==
    ASSUME IInv, NEW r \in net
    PROVE  job[JobOf[r.task]] # "none"
<1>1. TypeOK /\ OneHolderPerAttempt /\ NewTasksUntouched
  BY DEF IInv, TypeInv
<1>2. r \in Reports /\ r.task \in Tasks /\ r.worker \in Workers
  BY <1>1 DEF TypeOK, Reports
<1> DEFINE a == [task |-> r.task, attempt |-> r.attempt]
<1>3. a \in Held(r.worker)
  BY <1>2 DEF Held
<1>4. a.attempt \in 1..task[a.task].attempt
  BY <1>1, <1>2, <1>3 DEF OneHolderPerAttempt
<1>5. task[r.task].attempt # 0
  BY <1>4
<1> QED
  BY <1>1, <1>2, <1>5 DEF NewTasksUntouched

\* Tasks of jobs that are not stored stay as they are.
LEMMA NewTasksInductive == IInv /\ [Next]_vars => NewTasksUntouched'
<1> SUFFICES ASSUME IInv, [Next]_vars PROVE NewTasksUntouched'
  OBVIOUS
<1> USE JobsAssumption
<1>0. TypeOK /\ NewTasksUntouched
  BY DEF IInv, TypeInv
<1>a. job \in [Jobs -> JobStates]
  BY <1>0 DEF TypeOK
<1>1. ASSUME task' = task, job' = job PROVE NewTasksUntouched'
  BY <1>0, <1>1 DEF NewTasksUntouched
<1>2. ASSUME NEW j \in Jobs, AddJob(j) \/ ArchiveJob(j) PROVE NewTasksUntouched'
  <2>1. task' = task /\ \A k \in Jobs : job'[k] = "none" => job[k] = "none"
    BY <1>a, <1>2 DEF AddJob, ArchiveJob
  <2> QED
    BY <1>0, <2>1 DEF NewTasksUntouched
<1>3. ASSUME NEW j \in Jobs, CancelJob(j) PROVE NewTasksUntouched'
  <2>1. /\ job[j] # "none"
        /\ \A k \in Jobs : job'[k] = "none" => job[k] = "none"
    BY <1>a, <1>3 DEF CancelJob
  <2> QED
    BY <1>0, <1>3, <2>1, CancelEffect DEF NewTasksUntouched
<1>4. ASSUME (\E w \in Workers : Heartbeat(w)) \/ TimeNext PROVE NewTasksUntouched'
  <2>1. job' = job
    BY <1>4 DEF Heartbeat, TimeNext, LeaseLapses, DeadlinePasses
  <2> QED
    BY <1>0, <1>4, <2>1, ClockEffect DEF NewTasksUntouched, TimeNext
<1>5. ASSUME NEW w \in Workers, PollBegin(w) PROVE NewTasksUntouched'
  <2>1. \A k \in Jobs : job'[k] = "none" => job[k] = "none"
    BY <1>5, StatusFromTasksType DEF PollBegin, SweptJob
  <2>2. \A u \in Tasks : Expired(u) => task[u].status # "Queued"
    BY DEF Expired
  <2> QED
    BY <1>0, <1>5, <2>1, <2>2, SweepEffect DEF NewTasksUntouched
<1>6. ASSUME NEW w \in Workers, NEW t \in Tasks, NEW V \in VictimSets(w, t),
             TryAssignSucceeds(w, t, V)
      PROVE NewTasksUntouched'
  <2>1. job' = job
    BY <1>6 DEF TryAssignSucceeds
  <2> QED
    BY <1>0, <1>6, <2>1, SucceedsEffect DEF NewTasksUntouched
<1>7. ASSUME NEW w \in Workers, NEW t \in Tasks, NEW V \in VictimSets(w, t),
             TryAssignDenied(w, t, V)
      PROVE NewTasksUntouched'
  <2>1. /\ \A k \in Jobs : job'[k] = "none" => job[k] = "none"
        /\ job'[JobOf[t]] = "Failed"
    BY <1>a, <1>7 DEF TryAssignDenied
  <2> QED
    BY <1>0, <1>7, <2>1, DeniedEffect DEF NewTasksUntouched
<1>8. ASSUME NEW r \in net, ReportTaskResult(r) PROVE NewTasksUntouched'
  <2>0. r.task \in Tasks
    BY <1>0 DEF TypeOK, Reports
  <2>1. /\ job[JobOf[r.task]] # "none"
        /\ \A u \in Tasks : u # r.task => task'[u] = task[u]
    BY <1>0, <1>8, ReportEffect, ReportedJobExists
  <2>2. \A k \in Jobs : job'[k] = "none" => job[k] = "none" /\ k # JobOf[r.task]
    BY <1>a, <1>8, <2>0, <2>1, StatusFromTasksType DEF ReportTaskResult
  <2> QED
    BY <1>0, <2>0, <2>1, <2>2 DEF NewTasksUntouched
<1> QED
  BY <1>1, <1>2, <1>3, <1>4, <1>5, <1>6, <1>7, <1>8, FrameSteps
  DEF Next, UserNext, WorkerNext, PollNext, ReportNext

\* Only CancelJob cancels tasks, and no job leaves Canceled or Archived.
LEMMA CanceledInductive == IInv /\ [Next]_vars => CanceledInClosedJobs'
<1> SUFFICES ASSUME IInv, [Next]_vars PROVE CanceledInClosedJobs'
  OBVIOUS
<1> USE JobsAssumption
<1>0. TypeOK /\ CanceledInClosedJobs
  BY DEF IInv, TypeInv
<1>a. job \in [Jobs -> JobStates]
  BY <1>0 DEF TypeOK
<1>1. ASSUME task' = task, job' = job PROVE CanceledInClosedJobs'
  BY <1>0, <1>1 DEF CanceledInClosedJobs
<1>2. ASSUME NEW j \in Jobs, AddJob(j) \/ ArchiveJob(j) PROVE CanceledInClosedJobs'
  <2>1. task' = task /\ \A k \in Jobs : job[k] \in {"Canceled", "Archived"}
                                          => job'[k] \in {"Canceled", "Archived"}
    BY <1>a, <1>2 DEF AddJob, ArchiveJob
  <2> QED
    BY <1>0, <2>1 DEF CanceledInClosedJobs
<1>3. ASSUME NEW j \in Jobs, CancelJob(j) PROVE CanceledInClosedJobs'
  <2>1. \A k \in Jobs : job'[k] = IF k = j THEN "Canceled" ELSE job[k]
    BY <1>a, <1>3 DEF CancelJob
  <2> QED
    BY <1>0, <1>3, <2>1, CancelEffect DEF CanceledInClosedJobs
<1>4. ASSUME (\E w \in Workers : Heartbeat(w)) \/ TimeNext PROVE CanceledInClosedJobs'
  <2>1. job' = job
    BY <1>4 DEF Heartbeat, TimeNext, LeaseLapses, DeadlinePasses
  <2> QED
    BY <1>0, <1>4, <2>1, ClockEffect DEF CanceledInClosedJobs, TimeNext
<1>5. ASSUME NEW w \in Workers, PollBegin(w) PROVE CanceledInClosedJobs'
  <2>1. \A k \in Jobs : job[k] \in {"Canceled", "Archived"} => job'[k] = job[k]
    BY <1>5 DEF PollBegin, SweptJob
  <2> QED
    BY <1>0, <1>5, <2>1, SweepEffect DEF CanceledInClosedJobs
<1>6. ASSUME NEW w \in Workers, NEW t \in Tasks, NEW V \in VictimSets(w, t),
             TryAssignSucceeds(w, t, V)
      PROVE CanceledInClosedJobs'
  <2>1. job' = job
    BY <1>6 DEF TryAssignSucceeds
  <2>2. task'[t].status = "Assigned"
    BY <1>0, <1>6, SucceedsEffect, LeasedType, RecordTypes
  <2> QED
    BY <1>0, <1>6, <2>1, <2>2, SucceedsEffect DEF CanceledInClosedJobs
<1>7. ASSUME NEW w \in Workers, NEW t \in Tasks, NEW V \in VictimSets(w, t),
             TryAssignDenied(w, t, V)
      PROVE CanceledInClosedJobs'
  <2>1. \A k \in Jobs : job[k] \in {"Canceled", "Archived"} => job'[k] = job[k]
    BY <1>a, <1>7 DEF TryAssignDenied, Assignable
  <2> QED
    BY <1>0, <1>7, <2>1, DeniedEffect DEF CanceledInClosedJobs
<1>8. ASSUME NEW r \in net, ReportTaskResult(r) PROVE CanceledInClosedJobs'
  <2>1. r.task \in Tasks
    BY <1>0 DEF TypeOK, Reports
  <2>2. \A k \in Jobs : job[k] \in {"Canceled", "Archived"} => job'[k] = job[k]
    BY <1>a, <1>8, <2>1 DEF ReportTaskResult, Ignored
  <2> QED
    BY <1>0, <1>8, <2>1, <2>2, ReportEffect, ReportedType DEF CanceledInClosedJobs
<1> QED
  BY <1>1, <1>2, <1>3, <1>4, <1>5, <1>6, <1>7, <1>8, FrameSteps
  DEF Next, UserNext, WorkerNext, PollNext, ReportNext

\* The status computed from the task records is Running only for an open job.
LEMMA StatusRunning ==
    ASSUME NEW j, NEW tk, TasksOf(j) # {}, StatusFromTasks(j, tk) = "Running"
    PROVE  /\ \A t \in TasksOf(j) : tk[t].status # "Failed"
           /\ \E t \in TasksOf(j) : tk[t].status # "Completed"
BY DEF StatusFromTasks

\* A Running job has no failed task and some task to do.
LEMMA RunningJobsInductive == IInv /\ [Next]_vars => RunningJobsAreOpen'
<1> SUFFICES ASSUME IInv, [Next]_vars PROVE RunningJobsAreOpen'
  OBVIOUS
<1> USE JobsAssumption
<1>0. TypeOK /\ RunningJobsAreOpen /\ NewTasksUntouched
  BY DEF IInv, TypeInv
<1>a. job \in [Jobs -> JobStates]
  BY <1>0 DEF TypeOK
<1>1. ASSUME task' = task, job' = job PROVE RunningJobsAreOpen'
  BY <1>0, <1>1 DEF RunningJobsAreOpen, TasksOf
<1>2. ASSUME NEW j \in Jobs, AddJob(j) PROVE RunningJobsAreOpen'
  <2>1. task' = task /\ \A k \in Jobs : k # j => job'[k] = job[k]
    BY <1>a, <1>2 DEF AddJob
  <2>2. job'[j] = "Running" => TasksOf(j) # {}
    BY <1>a, <1>2 DEF AddJob
  <2>3. \A t \in TasksOf(j) : task[t].status = "Queued"
    BY <1>0, <1>2 DEF AddJob, NewTasksUntouched, TasksOf
  <2> QED
    BY <1>0, <2>1, <2>2, <2>3 DEF RunningJobsAreOpen
<1>3. ASSUME NEW j \in Jobs, ArchiveJob(j) PROVE RunningJobsAreOpen'
  BY <1>0, <1>a, <1>3 DEF ArchiveJob, RunningJobsAreOpen, TasksOf
<1>4. ASSUME NEW j \in Jobs, CancelJob(j) PROVE RunningJobsAreOpen'
  <2>1. \A k \in Jobs : job'[k] = IF k = j THEN "Canceled" ELSE job[k]
    BY <1>a, <1>4 DEF CancelJob
  <2> QED
    BY <1>0, <1>4, <2>1, CancelEffect DEF RunningJobsAreOpen, TasksOf
<1>5. ASSUME (\E w \in Workers : Heartbeat(w)) \/ TimeNext PROVE RunningJobsAreOpen'
  <2>1. job' = job
    BY <1>5 DEF Heartbeat, TimeNext, LeaseLapses, DeadlinePasses
  <2> QED
    BY <1>0, <1>5, <2>1, ClockEffect DEF RunningJobsAreOpen, TasksOf, TimeNext
<1>6. ASSUME NEW w \in Workers, PollBegin(w) PROVE RunningJobsAreOpen'
  <2> SUFFICES ASSUME NEW k \in Jobs, job'[k] = "Running"
               PROVE  /\ \A t \in TasksOf(k) : task'[t].status # "Failed"
                      /\ \E t \in TasksOf(k) : task'[t].status # "Completed"
    BY DEF RunningJobsAreOpen
  <2>1. SweptJob(k) = "Running" /\ task' = Swept
    BY <1>6 DEF PollBegin
  <2>2. CASE \E t \in TasksOf(k) : Expired(t)
    <3>1. CASE job[k] \in {"Canceled", "Archived"}
      BY <2>1, <3>1 DEF SweptJob
    <3>2. CASE job[k] \notin {"Canceled", "Archived"}
      <4>1. StatusFromTasks(k, Swept) = "Running" /\ TasksOf(k) # {}
        BY <2>1, <2>2, <3>2 DEF SweptJob
      <4> QED
        BY <2>1, <4>1, StatusRunning
    <3> QED
      BY <3>1, <3>2
  <2>3. CASE \A t \in TasksOf(k) : ~Expired(t)
    <3>1. job[k] = "Running"
      BY <2>1, <2>3 DEF SweptJob
    <3>2. \A t \in TasksOf(k) : task'[t] = task[t]
      BY <2>1, <2>3 DEF Swept, TasksOf
    <3> QED
      BY <1>0, <3>1, <3>2 DEF RunningJobsAreOpen
  <2> QED
    BY <2>2, <2>3
<1>7. ASSUME NEW w \in Workers, NEW t \in Tasks, NEW V \in VictimSets(w, t),
             TryAssignSucceeds(w, t, V)
      PROVE RunningJobsAreOpen'
  <2>1. job' = job
    BY <1>7 DEF TryAssignSucceeds
  <2>2. task'[t].status = "Assigned"
    BY <1>0, <1>7, SucceedsEffect, LeasedType, RecordTypes
  <2>3. \A u \in Tasks : task'[u].status \in {"Assigned", "Queued", task[u].status}
    BY <1>0, <1>7, <2>2, SucceedsEffect
  <2> QED
    BY <1>0, <2>1, <2>3 DEF RunningJobsAreOpen, TasksOf
<1>8. ASSUME NEW w \in Workers, NEW t \in Tasks, NEW V \in VictimSets(w, t),
             TryAssignDenied(w, t, V)
      PROVE RunningJobsAreOpen'
  <2>1. \A k \in Jobs : job'[k] = IF k = JobOf[t] THEN "Failed" ELSE job[k]
    BY <1>a, <1>8 DEF TryAssignDenied
  <2>2. \A u \in Tasks : u # t => task'[u].status \in {"Queued", task[u].status}
    BY <1>0, <1>8, DeniedEffect
  <2> QED
    BY <1>0, <2>1, <2>2 DEF RunningJobsAreOpen, TasksOf
<1>9. ASSUME NEW r \in net, ReportTaskResult(r) PROVE RunningJobsAreOpen'
  <2> DEFINE j == JobOf[r.task]
  <2>1. r.task \in Tasks /\ j \in Jobs /\ r.task \in TasksOf(j)
    BY <1>0 DEF TypeOK, Reports, TasksOf
  <2>2. \A k \in Jobs : k # j => job'[k] = job[k]
    BY <1>a, <1>9, <2>1 DEF ReportTaskResult
  <2>3. \A u \in Tasks : u # r.task => task'[u] = task[u]
    BY <1>0, <1>9, ReportEffect
  <2>4. CASE r.status = "Running"
    <3>1. job'[j] = job[j]
      BY <1>a, <1>9, <2>1, <2>4 DEF ReportTaskResult
    <3>2. task'[r.task].status = "Running"
      BY <1>0, <1>9, <2>1, <2>4, ReportEffect, ReportedType
    <3> QED
      BY <1>0, <2>1, <2>2, <2>3, <3>1, <3>2 DEF RunningJobsAreOpen, TasksOf
  <2>5. CASE r.status # "Running"
    <3>1. job'[j] = StatusFromTasks(j, task')
      BY <1>a, <1>9, <2>1, <2>5 DEF ReportTaskResult
    <3>2. job'[j] = "Running" => /\ \A t \in TasksOf(j) : task'[t].status # "Failed"
                                 /\ \E t \in TasksOf(j) : task'[t].status # "Completed"
      BY <2>1, <3>1, StatusRunning
    <3> QED
      BY <1>0, <2>1, <2>2, <2>3, <3>2 DEF RunningJobsAreOpen, TasksOf
  <2> QED
    BY <2>4, <2>5
<1> QED
  BY <1>1, <1>2, <1>3, <1>4, <1>5, <1>6, <1>7, <1>8, <1>9, FrameSteps
  DEF Next, UserNext, WorkerNext, PollNext, ReportNext

\* Attempt numbers never go down, and only an assignment counts one up.
LEMMA AttemptsKept ==
    ASSUME IInv, [Next]_vars,
           ~ \E w \in Workers, t \in Tasks : \E V \in VictimSets(w, t) : TryAssignSucceeds(w, t, V)
    PROVE  \A u \in Tasks : task'[u].attempt = task[u].attempt
<1>0. TypeOK
  BY DEF IInv, TypeInv
<1>1. ASSUME NEW j \in Jobs, AddJob(j) \/ ArchiveJob(j)
      PROVE  \A u \in Tasks : task'[u].attempt = task[u].attempt
  BY <1>1 DEF AddJob, ArchiveJob
<1>2. ASSUME NEW j \in Jobs, CancelJob(j)
      PROVE  \A u \in Tasks : task'[u].attempt = task[u].attempt
  BY <1>0, <1>2, CancelEffect
<1>3. ASSUME (\E w \in Workers : Heartbeat(w)) \/ TimeNext
      PROVE  \A u \in Tasks : task'[u].attempt = task[u].attempt
  BY <1>0, <1>3, ClockEffect DEF TimeNext
<1>4. ASSUME NEW w \in Workers, PollBegin(w)
      PROVE  \A u \in Tasks : task'[u].attempt = task[u].attempt
  BY <1>0, <1>4, SweepEffect
<1>5. ASSUME NEW w \in Workers, NEW t \in Tasks, NEW V \in VictimSets(w, t),
             TryAssignDenied(w, t, V)
      PROVE  \A u \in Tasks : task'[u].attempt = task[u].attempt
  BY <1>0, <1>5, DeniedEffect
<1>6. ASSUME NEW r \in net, ReportTaskResult(r)
      PROVE  \A u \in Tasks : task'[u].attempt = task[u].attempt
  BY <1>0, <1>6, ReportEffect, ReportedType
<1> QED
  BY <1>1, <1>2, <1>3, <1>4, <1>5, <1>6, FrameSteps
  DEF Next, UserNext, WorkerNext, PollNext, ReportNext

\* The three places an attempt can be held in.
LEMMA HeldParts ==
    ASSUME NEW w, NEW a
    PROVE  a \in Held(w) <=>
              \/ \E i \in 1..Len(poll[w].got) : a = poll[w].got[i]
              \/ \E i \in 1..Len(agent[w].queue) : a = agent[w].queue[i]
              \/ \E r \in net : r.worker = w /\ a = [task |-> r.task, attempt |-> r.attempt]
BY DEF Held

LEMMA HeldType ==
    ASSUME TypeOK, NEW w \in Workers, NEW a \in Held(w)
    PROVE  a \in Assignments
<1>1. poll[w].got \in Seq(Assignments) /\ agent[w].queue \in Seq(Assignments)
  BY RecordTypes DEF PollRecords, AgentRecords
<1>2. \A r \in net : [task |-> r.task, attempt |-> r.attempt] \in Assignments
  BY DEF TypeOK, Reports, Assignments
<1>3. \A i \in 1..Len(poll[w].got) : poll[w].got[i] \in Assignments
  BY <1>1
<1>4. \A i \in 1..Len(agent[w].queue) : agent[w].queue[i] \in Assignments
  BY <1>1
<1> QED
  BY <1>2, <1>3, <1>4, HeldParts

\* A step that lets nobody hold more and counts no attempt down keeps the
\* attempts apart.
LEMMA HoldersKept ==
    ASSUME IInv, \A w \in Workers : Held(w)' \subseteq Held(w),
           \A u \in Tasks : task'[u].attempt = task[u].attempt
    PROVE  OneHolderPerAttempt'
<1>1. OneHolderPerAttempt /\ TypeOK
  BY DEF IInv, TypeInv
<1>2. \A w \in Workers : \A a \in Held(w) : a \in Assignments
  BY <1>1, HeldType
<1> QED
  BY <1>1, <1>2 DEF OneHolderPerAttempt, Assignments

\* How the parts change decides what a worker holds after a step.
LEMMA HeldShrinks ==
    ASSUME NEW w \in Workers,
           poll'[w].got = poll[w].got \/ poll'[w].got = <<>>,
           \/ agent'[w].queue = agent[w].queue
           \/ agent'[w].queue = poll[w].got
           \/ agent'[w].queue = <<>>
           \/ /\ agent[w].queue \in Seq(Assignments) /\ agent[w].queue # <<>>
              /\ agent'[w].queue = Tail(agent[w].queue),
           \A r \in net' : r.worker = w =>
              \/ r \in net
              \/ /\ agent[w].queue \in Seq(Assignments) /\ agent[w].queue # <<>>
                 /\ r.task = agent[w].queue[1].task
                 /\ r.attempt = agent[w].queue[1].attempt
    PROVE  Held(w)' \subseteq Held(w)
<1> SUFFICES ASSUME NEW a, a \in Held(w)' PROVE a \in Held(w)
  OBVIOUS
<1>1. \/ \E i \in 1..Len(poll'[w].got) : a = poll'[w].got[i]
      \/ \E i \in 1..Len(agent'[w].queue) : a = agent'[w].queue[i]
      \/ \E r \in net' : r.worker = w /\ a = [task |-> r.task, attempt |-> r.attempt]
  BY DEF Held
<1>2. CASE \E i \in 1..Len(poll'[w].got) : a = poll'[w].got[i]
  <2>1. CASE poll'[w].got = poll[w].got
    BY <1>2, <2>1, HeldParts
  <2>2. CASE poll'[w].got = <<>>
    BY <1>2, <2>2
  <2> QED
    BY <2>1, <2>2
<1>3. CASE \E i \in 1..Len(agent'[w].queue) : a = agent'[w].queue[i]
  <2>1. CASE agent'[w].queue = agent[w].queue \/ agent'[w].queue = poll[w].got
    BY <1>3, <2>1, HeldParts
  <2>2. CASE agent'[w].queue = <<>>
    BY <1>3, <2>2
  <2>3. CASE /\ agent[w].queue \in Seq(Assignments) /\ agent[w].queue # <<>>
             /\ agent'[w].queue = Tail(agent[w].queue)
    <3> DEFINE q == agent[w].queue
    <3>1. PICK i \in 1..Len(Tail(q)) : a = Tail(q)[i]
      BY <1>3, <2>3
    <3>2. i + 1 \in 1..Len(q) /\ Tail(q)[i] = q[i + 1]
      BY <2>3, <3>1
    <3> QED
      BY <3>1, <3>2, HeldParts
  <2> QED
    BY <2>1, <2>2, <2>3
<1>4. CASE \E r \in net' : r.worker = w /\ a = [task |-> r.task, attempt |-> r.attempt]
  <2>1. PICK r \in net' : r.worker = w /\ a = [task |-> r.task, attempt |-> r.attempt]
    BY <1>4
  <2>2. CASE r \in net
    BY <2>1, <2>2, HeldParts
  <2>3. CASE r \notin net
    <3>1. /\ agent[w].queue \in Seq(Assignments) /\ agent[w].queue # <<>>
          /\ r.task = agent[w].queue[1].task /\ r.attempt = agent[w].queue[1].attempt
      BY <2>1, <2>3
    <3>2. 1 \in 1..Len(agent[w].queue) /\ agent[w].queue[1] \in Assignments
      BY <3>1
    <3>3. a = agent[w].queue[1]
      BY <2>1, <3>1, <3>2 DEF Assignments
    <3> QED
      BY <3>2, <3>3, HeldParts
  <2> QED
    BY <2>2, <2>3
<1> QED
  BY <1>1, <1>2, <1>3, <1>4

\* No attempt has two holders.
LEMMA OneHolderInductive == IInv /\ [Next]_vars => OneHolderPerAttempt'
<1> SUFFICES ASSUME IInv, [Next]_vars PROVE OneHolderPerAttempt'
  OBVIOUS
<1>0. TypeOK /\ BusyAgentsHaveWork /\ OneHolderPerAttempt
  BY DEF IInv, TypeInv
<1>a. /\ poll \in [Workers -> PollRecords]
      /\ agent \in [Workers -> AgentRecords]
  BY <1>0 DEF TypeOK
<1>1. ASSUME NEW w \in Workers, NEW t \in Tasks, NEW V \in VictimSets(w, t),
             TryAssignSucceeds(w, t, V)
      PROVE OneHolderPerAttempt'
  <2> DEFINE a == [task |-> t, attempt |-> task[t].attempt + 1]
  <2>0. /\ task[t].attempt \in Nat /\ a \in Assignments
        /\ \A u \in Tasks : task[u].attempt \in Nat
    BY <1>0, RecordTypes DEF TaskRecords, Assignments
  <2>a. a.task = t /\ a.attempt = task[t].attempt + 1
    OBVIOUS
  <2>1. poll[w].claims[t] > 0 /\ poll' = [poll EXCEPT ![w] = AckClaim(poll[w], t, a)]
    BY <1>1 DEF TryAssignSucceeds, NextClaim
  <2> HIDE DEF a
  <2>2. poll'[w].got = Append(poll[w].got, a) /\ poll[w].got \in Seq(Assignments)
    BY <1>a, <2>0, <2>1, AckClaimType DEF PollRecords
  <2>3. agent' = agent /\ net' = net /\ \A v \in Workers : v # w => poll'[v] = poll[v]
    BY <1>a, <1>1, <2>1 DEF TryAssignSucceeds
  <2>4. \A v \in Workers : v # w => Held(v)' = Held(v)
    BY <2>3 DEF Held
  <2>5. \A b \in Held(w)' : b = a \/ b \in Held(w)
    <3> SUFFICES ASSUME NEW b, b \in Held(w)' PROVE b = a \/ b \in Held(w)
      OBVIOUS
    <3>1. \/ \E i \in 1..Len(poll'[w].got) : b = poll'[w].got[i]
          \/ \E i \in 1..Len(agent[w].queue) : b = agent[w].queue[i]
          \/ \E r \in net : r.worker = w /\ b = [task |-> r.task, attempt |-> r.attempt]
      BY <2>3 DEF Held
    <3>2. ASSUME NEW i \in 1..Len(poll'[w].got), b = poll'[w].got[i]
          PROVE  b = a \/ \E k \in 1..Len(poll[w].got) : b = poll[w].got[k]
      BY <2>0, <2>2, <3>2
    <3> QED
      BY <3>1, <3>2, HeldParts
  <2>6. \A v \in Workers : \A b \in Held(v) : b \in Assignments
                              /\ b.attempt \in 1..task[b.task].attempt
    BY <1>0, HeldType DEF OneHolderPerAttempt
  <2>7. \A v \in Workers : a \notin Held(v)
    BY <2>0, <2>a, <2>6
  <2>8. \A u \in Tasks : task'[u].attempt = IF u = t THEN task[t].attempt + 1 ELSE task[u].attempt
    BY <1>0, <1>1, SucceedsEffect, LeasedType, RecordTypes
  <2>9. \A b \in Assignments : b.attempt \in 1..task[b.task].attempt
                                 => b.attempt \in 1..task'[b.task].attempt
    BY <2>0, <2>8 DEF Assignments
  <2>10. a.attempt \in 1..task'[a.task].attempt
    BY <2>0, <2>a, <2>8
  <2>11. \A v \in Workers : \A b \in Held(v)' : b \in Held(v) \/ (b = a /\ v = w)
    BY <2>4, <2>5
  <2> QED
    BY <1>0, <2>6, <2>7, <2>9, <2>10, <2>11 DEF OneHolderPerAttempt
<1>2. ASSUME \A w \in Workers : Held(w)' \subseteq Held(w),
             ~ \E w \in Workers, t \in Tasks : \E V \in VictimSets(w, t) :
                  TryAssignSucceeds(w, t, V)
      PROVE  OneHolderPerAttempt'
  BY <1>2, AttemptsKept, HoldersKept
<1>3. ASSUME poll' = poll, agent' = agent, net' \subseteq net
      PROVE  \A v \in Workers : Held(v)' \subseteq Held(v)
  BY <1>3, HeldShrinks
<1>4. ASSUME UserNext \/ TimeNext \/ ReportNext \/ UNCHANGED vars
      PROVE  \A v \in Workers : Held(v)' \subseteq Held(v)
  BY <1>3, <1>4 DEF UserNext, AddJob, CancelJob, ArchiveJob, TimeNext, LeaseLapses,
     DeadlinePasses, ReportNext, ReportIgnored, ReportLost, ReportTaskResult, vars
<1>5. ASSUME NEW w \in Workers, Heartbeat(w)
      PROVE  \A v \in Workers : Held(v)' \subseteq Held(v)
  BY <1>3, <1>5 DEF Heartbeat
<1>6. ASSUME NEW w \in Workers, RegisterWorker(w) \/ Crash(w)
      PROVE  \A v \in Workers : Held(v)' \subseteq Held(v)
  <2>0. [AgentDown EXCEPT !.up = TRUE].queue = <<>> /\ AgentDown.queue = <<>>
    BY DEF AgentDown
  <2>1. /\ poll' = poll /\ net' = net
        /\ \A v \in Workers : agent'[v].queue = IF v = w THEN <<>> ELSE agent[v].queue
    BY <1>a, <1>6, <2>0 DEF RegisterWorker, Crash
  <2> QED
    BY <2>1, HeldShrinks
<1>7. ASSUME NEW w \in Workers, PollBegin(w)
      PROVE  \A v \in Workers : Held(v)' \subseteq Held(v)
  <2>1. Enqueue(pending, SweptRefs) \in [Tasks -> Nat]
    BY <1>0, EnqueueType DEF TypeOK
  <2>2. \A v \in Workers : poll'[v].got = IF v = w THEN <<>> ELSE poll[v].got
    BY <1>a, <1>7, <2>1, PollOnType DEF PollBegin
  <2>3. net' = net /\ \A v \in Workers : agent'[v].queue = agent[v].queue
    BY <1>a, <1>7 DEF PollBegin, AgentRecords
  <2> QED
    BY <2>2, <2>3, HeldShrinks
<1>8. ASSUME NEW w \in Workers, NEW t \in Tasks, NEW V,
             TryAssignSkips(w, t) \/ TryAssignDenied(w, t, V)
      PROVE  \A v \in Workers : Held(v)' \subseteq Held(v)
  <2>1. poll[w].claims[t] > 0 /\ poll' = [poll EXCEPT ![w] = NackClaim(poll[w], t)]
    BY <1>8 DEF TryAssignSkips, TryAssignDenied, NextClaim
  <2>2. \A v \in Workers : poll'[v].got = poll[v].got
    BY <1>a, <2>1, NackClaimType
  <2>3. net' = net /\ agent' = agent
    BY <1>8 DEF TryAssignSkips, TryAssignDenied
  <2> QED
    BY <2>2, <2>3, HeldShrinks
<1>9. ASSUME NEW w \in Workers, PollEnd(w) \/ PollAborts(w)
      PROVE  \A v \in Workers : Held(v)' \subseteq Held(v)
  <2>1. \A v \in Workers : poll'[v].got = IF v = w THEN <<>> ELSE poll[v].got
    BY <1>a, <1>9, PollOffType DEF PollEnd, PollAborts
  <2>2. net' = net /\ \A v \in Workers : agent'[v].queue \in {agent[v].queue, poll[v].got}
    BY <1>a, <1>9 DEF PollEnd, PollAborts, AgentRecords
  <2> QED
    BY <2>1, <2>2, HeldShrinks
<1>10. ASSUME NEW w \in Workers, PollTimesOut(w) \/ Execute(w)
       PROVE  \A v \in Workers : Held(v)' \subseteq Held(v)
  <2>1. /\ poll' = poll /\ net' = net
        /\ \A v \in Workers : agent'[v].queue = agent[v].queue
    BY <1>a, <1>10 DEF PollTimesOut, Execute, AgentRecords
  <2> QED
    BY <2>1, HeldShrinks
<1>11. ASSUME NEW w \in Workers, NEW s \in {"Running", "Completed", "Failed"},
              (s = "Running" /\ StartTask(w)) \/ FinishTask(w, s)
       PROVE  \A v \in Workers : Held(v)' \subseteq Held(v)
  <2>1. /\ poll' = poll /\ net' = net \cup {ReportOf(w, s)}
        /\ \A v \in Workers : agent'[v].queue = agent[v].queue
    <3>1. CASE s = "Running" /\ StartTask(w)
      BY <1>a, <3>1 DEF StartTask, AgentRecords
    <3>2. CASE FinishTask(w, s)
      BY <1>a, <3>2 DEF FinishTask, AgentRecords
    <3> QED
      BY <1>11, <3>1, <3>2
  <2>2. agent[w].queue # <<>> /\ agent[w].queue \in Seq(Assignments)
    BY <1>0, <1>a, <1>11 DEF StartTask, FinishTask, BusyAgentsHaveWork, Busy, AgentRecords
  <2>3. /\ ReportOf(w, s).worker = w
        /\ ReportOf(w, s).task = agent[w].queue[1].task
        /\ ReportOf(w, s).attempt = agent[w].queue[1].attempt
    BY <1>0, <2>2, ReportOfType
  <2> QED
    BY <2>1, <2>2, <2>3, HeldShrinks
<1>12. ASSUME NEW w \in Workers, NextAssignment(w)
       PROVE  \A v \in Workers : Held(v)' \subseteq Held(v)
  <2>1. /\ poll' = poll /\ net' = net
        /\ \A v \in Workers : agent'[v].queue = IF v = w THEN Tail(agent[v].queue)
                                                         ELSE agent[v].queue
    BY <1>a, <1>12 DEF NextAssignment, AgentRecords
  <2>2. agent[w].queue # <<>> /\ agent[w].queue \in Seq(Assignments)
    BY <1>0, <1>a, <1>12 DEF NextAssignment, BusyAgentsHaveWork, Busy, AgentRecords
  <2> QED
    BY <2>1, <2>2, HeldShrinks
<1>13. \/ \E w \in Workers, t \in Tasks : \E V \in VictimSets(w, t) : TryAssignSucceeds(w, t, V)
       \/ \A v \in Workers : Held(v)' \subseteq Held(v)
  BY <1>4, <1>5, <1>6, <1>7, <1>8, <1>9, <1>10, <1>11, <1>12
  DEF Next, WorkerNext, PollNext, AgentNext
<1> QED
  BY <1>1, <1>2, <1>13

\* A ref that is in the queue or in a handler stays there if no count of it
\* goes down.
LEMMA RefKept ==
    ASSUME TypeOK, NEW u \in Tasks, HasRef(u), pending'[u] \in Nat, pending'[u] >= pending[u],
           \A v \in Workers : /\ poll'[v].claims[u] = poll[v].claims[u]
                              /\ poll'[v].rest[u] = poll[v].rest[u]
    PROVE  HasRef(u)'
BY DEF HasRef, TypeOK

LEMMA EnqueueCounts ==
    ASSUME NEW q \in [Tasks -> Nat], NEW refs, NEW u \in Tasks
    PROVE  /\ Enqueue(q, refs)[u] >= q[u]
           /\ u \in refs => Enqueue(q, refs)[u] > 0
           /\ q[u] > 0 => Enqueue(q, refs)[u] > 0
           /\ Enqueue(q, refs)[u] \in Nat
BY DEF Enqueue

\* Ready tasks of stored jobs have a ref.
LEMMA ReadyTasksInductive == IInv /\ TypeOK' /\ [Next]_vars => ReadyTasksHaveRefs'
<1> SUFFICES ASSUME IInv, TypeOK', [Next]_vars PROVE ReadyTasksHaveRefs'
  OBVIOUS
<1> USE JobsAssumption, TasksAssumption
<1>0. TypeOK /\ ReadyTasksHaveRefs /\ NewTasksUntouched /\ IdlePollsAreEmpty
  BY DEF IInv, TypeInv
<1>a. /\ job \in [Jobs -> JobStates]
      /\ pending \in [Tasks -> Nat] /\ pending' \in [Tasks -> Nat]
      /\ poll \in [Workers -> PollRecords]
  BY <1>0 DEF TypeOK
<1>b. \A v \in Workers : poll[v] \in PollRecords /\ poll[v].claims \in [Tasks -> Nat]
                            /\ poll[v].rest \in [Tasks -> Nat]
  BY <1>a DEF PollRecords
<1>1. ASSUME \A u \in Tasks : task'[u].status = task[u].status, job' = job,
             \A u \in Tasks : HasRef(u) => HasRef(u)'
      PROVE  ReadyTasksHaveRefs'
  BY <1>0, <1>1 DEF ReadyTasksHaveRefs, Ready, dependenciesCompleted
<1>2. ASSUME pending' = pending, poll' = poll PROVE \A u \in Tasks : HasRef(u) => HasRef(u)'
  BY <1>2 DEF HasRef
<1>3. ASSUME NEW j \in Jobs, AddJob(j) PROVE ReadyTasksHaveRefs'
  <2> SUFFICES ASSUME NEW u \in Tasks, job'[JobOf[u]] # "none", Ready(u)'
               PROVE HasRef(u)'
    BY DEF ReadyTasksHaveRefs
  <2>1. task' = task /\ poll' = poll /\ Ready(u)
    BY <1>3 DEF AddJob, Ready, dependenciesCompleted
  <2>2. CASE JobOf[u] = j
    <3>1. \A d \in Deps[u] : task[d].status = "Queued"
      BY <1>0, <1>3, <2>2 DEF AddJob, NewTasksUntouched
    <3>2. Deps[u] = {}
      BY <2>1, <3>1 DEF Ready, dependenciesCompleted
    <3>3. pending'[u] > 0
      BY <1>a, <1>3, <2>2, <3>2, EnqueueCounts DEF AddJob, TasksOf
    <3> QED
      BY <3>3 DEF HasRef
  <2>3. CASE JobOf[u] # j
    <3>1. HasRef(u)
      BY <1>0, <1>a, <1>3, <2>1, <2>3 DEF AddJob, ReadyTasksHaveRefs
    <3>2. pending'[u] >= pending[u]
      BY <1>a, <1>3, EnqueueCounts DEF AddJob
    <3> QED
      BY <1>0, <1>a, <2>1, <3>1, <3>2, RefKept
  <2> QED
    BY <2>2, <2>3
<1>4. ASSUME NEW j \in Jobs, ArchiveJob(j) PROVE ReadyTasksHaveRefs'
  <2>1. \A k \in Jobs : job'[k] # "none" => job[k] # "none"
    BY <1>a, <1>4 DEF ArchiveJob, isTerminal
  <2>2. task' = task /\ \A u \in Tasks : HasRef(u) => HasRef(u)'
    BY <1>2, <1>4 DEF ArchiveJob
  <2> QED
    BY <1>0, <2>1, <2>2 DEF ReadyTasksHaveRefs, Ready, dependenciesCompleted
<1>5. ASSUME NEW j \in Jobs, CancelJob(j) PROVE ReadyTasksHaveRefs'
  <2>1. \A k \in Jobs : job'[k] # "none" => job[k] # "none"
    BY <1>a, <1>5 DEF CancelJob
  <2>2. \A u \in Tasks : task'[u].status \in {"Canceled", task[u].status}
    BY <1>0, <1>5, CancelEffect
  <2>3. \A u \in Tasks : Ready(u)' => Ready(u)
    BY <2>2 DEF Ready, dependenciesCompleted
  <2>4. \A u \in Tasks : HasRef(u) => HasRef(u)'
    BY <1>2, <1>5 DEF CancelJob
  <2> QED
    BY <1>0, <2>1, <2>3, <2>4 DEF ReadyTasksHaveRefs
<1>6. ASSUME (\E w \in Workers : Heartbeat(w)) \/ TimeNext PROVE ReadyTasksHaveRefs'
  <2>1. pending' = pending /\ poll' = poll /\ job' = job
    BY <1>6 DEF Heartbeat, TimeNext, LeaseLapses, DeadlinePasses
  <2>2. \A u \in Tasks : task'[u].status = task[u].status
    BY <1>0, <1>6, ClockEffect DEF TimeNext
  <2> QED
    BY <1>1, <1>2, <2>1, <2>2
<1>7. ASSUME NEW w \in Workers, PollBegin(w) PROVE ReadyTasksHaveRefs'
  <2> SUFFICES ASSUME NEW u \in Tasks, job'[JobOf[u]] # "none", Ready(u)'
               PROVE HasRef(u)'
    BY DEF ReadyTasksHaveRefs
  <2> DEFINE c == Enqueue(pending, SweptRefs)
  <2>0. c \in [Tasks -> Nat]
    BY <1>a, EnqueueType
  <2>1. poll'[w].claims = c /\ \A v \in Workers : v # w => poll'[v] = poll[v]
    BY <1>a, <1>7, <2>0, PollOnType DEF PollBegin
  <2>2. CASE Expired(u)
    <3>1. u \in SweptRefs
      BY <1>0, <1>7, <2>2, SweepEffect DEF SweptRefs, Ready
    <3> QED
      BY <1>a, <2>1, <3>1, EnqueueCounts DEF HasRef
  <2>3. CASE ~Expired(u)
    <3>1. Ready(u)
      <4>1. task'[u].status = task[u].status
        BY <1>0, <1>7, <2>3, SweepEffect
      <4>2. \A d \in Deps[u] : d \in Tasks /\ task'[d].status = "Completed"
        BY DEF Ready, dependenciesCompleted
      <4>3. \A d \in Deps[u] : task[d].status = "Completed"
        BY <1>0, <1>7, <4>2, SweepEffect
      <4> QED
        BY <4>1, <4>3 DEF Ready, dependenciesCompleted
    <3>2. job[JobOf[u]] # "none"
      BY <1>0, <1>7, StatusFromTasksType DEF PollBegin, SweptJob, Expired, NewTasksUntouched,
         TasksOf
    <3>3. HasRef(u)
      BY <1>0, <3>1, <3>2 DEF ReadyTasksHaveRefs
    <3>4. poll[w] = PollOff
      BY <1>0, <1>7 DEF PollBegin, IdlePollsAreEmpty
    <3>5. poll[w].claims[u] = 0 /\ poll[w].rest[u] = 0
      BY <3>4, PollOffType DEF NoRefs
    <3>6. CASE pending[u] > 0
      BY <1>a, <2>1, <3>6, EnqueueCounts DEF HasRef
    <3>7. CASE ~(pending[u] > 0)
      <4>1. PICK v \in Workers : poll[v].claims[u] > 0 \/ poll[v].rest[u] > 0
        BY <3>3, <3>7 DEF HasRef
      <4>2. v # w
        BY <3>5, <4>1
      <4> QED
        BY <2>1, <4>1, <4>2 DEF HasRef
    <3> QED
      BY <3>6, <3>7
  <2> QED
    BY <2>2, <2>3
<1>8. ASSUME NEW w \in Workers, NEW t \in Tasks, NEW V,
             TryAssignSkips(w, t) \/ TryAssignDenied(w, t, V)
      PROVE  \A u \in Tasks : HasRef(u) => HasRef(u)'
  <2> SUFFICES ASSUME NEW u \in Tasks, HasRef(u) PROVE HasRef(u)'
    OBVIOUS
  <2>1. poll[w].claims[t] > 0 /\ poll' = [poll EXCEPT ![w] = NackClaim(poll[w], t)]
    BY <1>8 DEF TryAssignSkips, TryAssignDenied, NextClaim
  <2>2. /\ poll'[w].rest[t] > 0
        /\ u # t => /\ poll'[w].claims[u] = poll[w].claims[u]
                    /\ poll'[w].rest[u] = poll[w].rest[u]
        /\ \A v \in Workers : v # w => poll'[v] = poll[v]
    BY <1>a, <1>b, <2>1, NackClaimType
  <2>3. pending'[u] >= pending[u]
    BY <1>a, <1>8, EnqueueCounts DEF TryAssignSkips, TryAssignDenied
  <2>4. CASE u = t
    BY <2>2, <2>4 DEF HasRef
  <2>5. CASE u # t
    BY <1>0, <1>a, <2>2, <2>3, <2>5, RefKept
  <2> QED
    BY <2>4, <2>5
<1>9. ASSUME NEW w \in Workers, NEW t \in Tasks, TryAssignSkips(w, t)
      PROVE ReadyTasksHaveRefs'
  <2>1. task' = task /\ job' = job
    BY <1>9 DEF TryAssignSkips
  <2> QED
    BY <1>1, <1>8, <1>9, <2>1
<1>10. ASSUME NEW w \in Workers, NEW t \in Tasks, NEW V \in VictimSets(w, t),
              TryAssignDenied(w, t, V)
       PROVE ReadyTasksHaveRefs'
  <2> SUFFICES ASSUME NEW u \in Tasks, job'[JobOf[u]] # "none", Ready(u)'
               PROVE HasRef(u)'
    BY DEF ReadyTasksHaveRefs
  <2>1. job[JobOf[u]] # "none"
    BY <1>a, <1>10 DEF TryAssignDenied, Assignable
  <2>2. CASE u \in V
    BY <1>a, <1>10, <2>2, EnqueueCounts DEF TryAssignDenied, HasRef
  <2>3. CASE u \notin V
    <3>1. u # t /\ task'[u] = task[u]
      BY <1>0, <1>10, <2>3, DeniedEffect DEF Ready
    <3>2. \A d \in Deps[u] : d \in Tasks /\ task'[d].status = "Completed"
      BY DEF Ready, dependenciesCompleted
    <3>3. \A d \in Deps[u] : task[d].status = "Completed"
      BY <1>0, <1>10, <3>2, DeniedEffect
    <3>4. HasRef(u)
      BY <1>0, <2>1, <3>1, <3>3 DEF ReadyTasksHaveRefs, Ready, dependenciesCompleted
    <3> QED
      BY <1>8, <1>10, <3>4
  <2> QED
    BY <2>2, <2>3
<1>11. ASSUME NEW w \in Workers, NEW t \in Tasks, NEW V \in VictimSets(w, t),
              TryAssignSucceeds(w, t, V)
       PROVE ReadyTasksHaveRefs'
  <2> SUFFICES ASSUME NEW u \in Tasks, job'[JobOf[u]] # "none", Ready(u)'
               PROVE HasRef(u)'
    BY DEF ReadyTasksHaveRefs
  <2>1. job' = job
    BY <1>11 DEF TryAssignSucceeds
  <2>2. task'[t].status = "Assigned"
    BY <1>0, <1>11, SucceedsEffect, LeasedType, RecordTypes
  <2>3. CASE u \in V
    BY <1>a, <1>11, <2>3, EnqueueCounts DEF TryAssignSucceeds, HasRef
  <2>4. CASE u \notin V
    <3>1. u # t
      BY <2>2 DEF Ready
    <3>a. task'[u] = task[u]
      BY <1>0, <1>11, <2>4, <3>1, SucceedsEffect
    <3>2. \A d \in Deps[u] : d \in Tasks /\ d # t /\ task'[d].status = "Completed"
      BY <2>2 DEF Ready, dependenciesCompleted
    <3>3. \A d \in Deps[u] : task[d].status = "Completed"
      BY <1>0, <1>11, <3>2, SucceedsEffect
    <3>4. HasRef(u)
      BY <1>0, <2>1, <3>a, <3>3 DEF ReadyTasksHaveRefs, Ready, dependenciesCompleted
    <3> DEFINE a == [task |-> t, attempt |-> task[t].attempt + 1]
    <3>5. a \in Assignments
      BY <1>0, RecordTypes DEF TaskRecords, Assignments
    <3>6. poll[w].claims[t] > 0 /\ poll' = [poll EXCEPT ![w] = AckClaim(poll[w], t, a)]
      BY <1>11 DEF TryAssignSucceeds, NextClaim
    <3> HIDE DEF a
    <3>7. \A v \in Workers : /\ poll'[v].claims[u] = poll[v].claims[u]
                             /\ poll'[v].rest[u] = poll[v].rest[u]
      BY <1>a, <1>b, <3>1, <3>5, <3>6, AckClaimType
    <3>8. pending'[u] >= pending[u]
      BY <1>a, <1>11, EnqueueCounts DEF TryAssignSucceeds
    <3> QED
      BY <1>0, <1>a, <3>4, <3>7, <3>8, RefKept
  <2> QED
    BY <2>3, <2>4
<1>12. ASSUME NEW w \in Workers, PollEnd(w) \/ PollAborts(w) PROVE ReadyTasksHaveRefs'
  <2>1. task' = task /\ job' = job
    BY <1>12 DEF PollEnd, PollAborts
  <2>2. \A v \in Workers : v # w => poll'[v] = poll[v]
    BY <1>a, <1>12 DEF PollEnd, PollAborts
  <2>3. \A u \in Tasks : /\ pending'[u] >= pending[u]
                         /\ pending'[u] >= poll[w].claims[u]
                         /\ pending'[u] >= poll[w].rest[u]
    <3> SUFFICES ASSUME NEW u \in Tasks
                 PROVE  /\ pending'[u] >= pending[u]
                        /\ pending'[u] >= poll[w].claims[u]
                        /\ pending'[u] >= poll[w].rest[u]
      OBVIOUS
    <3>1. poll[w].claims[u] \in Nat /\ poll[w].rest[u] \in Nat /\ poll[w].acks[u] \in Nat
      BY <1>b DEF PollRecords
    <3>2. pending[u] \in Nat
      BY <1>a
    <3>3. \/ pending'[u] = pending[u] + (poll[w].claims[u] + poll[w].rest[u])
          \/ pending'[u] = pending[u] + (poll[w].acks[u] + (poll[w].claims[u] + poll[w].rest[u]))
      BY <1>12 DEF PollEnd, PollAborts, AddBags
    <3> QED
      BY <3>1, <3>2, <3>3
  <2>4. \A u \in Tasks : HasRef(u) => HasRef(u)'
    <3> SUFFICES ASSUME NEW u \in Tasks, HasRef(u) PROVE HasRef(u)'
      OBVIOUS
    <3>1. CASE pending[u] > 0 \/ poll[w].claims[u] > 0 \/ poll[w].rest[u] > 0
      <4>1. pending'[u] > 0
        BY <1>a, <1>b, <2>3, <3>1
      <4> QED
        BY <4>1 DEF HasRef
    <3>2. CASE \E v \in Workers : v # w /\ (poll[v].claims[u] > 0 \/ poll[v].rest[u] > 0)
      BY <2>2, <3>2 DEF HasRef
    <3> QED
      BY <3>1, <3>2 DEF HasRef
  <2> QED
    BY <1>1, <2>1, <2>4
<1>13. ASSUME NEW r \in net, ReportTaskResult(r) PROVE ReadyTasksHaveRefs'
  <2> SUFFICES ASSUME NEW u \in Tasks, job'[JobOf[u]] # "none", Ready(u)'
               PROVE HasRef(u)'
    BY DEF ReadyTasksHaveRefs
  <2>1. r.task \in Tasks /\ job[JobOf[r.task]] # "none"
    BY <1>0, ReportedJobExists DEF TypeOK, Reports
  <2>2. job[JobOf[u]] # "none"
    BY <1>a, <1>13, <2>1 DEF ReportTaskResult
  <2>3. poll' = poll /\ pending' = Enqueue(pending, ReportRefs(r, task'))
    BY <1>13 DEF ReportTaskResult
  <2>4. CASE u \in ReportRefs(r, task')
    BY <1>a, <2>3, <2>4, EnqueueCounts DEF HasRef
  <2>5. CASE u \notin ReportRefs(r, task')
    <3>1. u # r.task
      BY <2>5 DEF ReportRefs, Ready
    <3>2. r.task \notin Deps[u]
      <4> SUFFICES ASSUME r.task \in Deps[u] PROVE FALSE
        OBVIOUS
      <4>1. task'[r.task].status = "Completed" /\ JobOf[u] = JobOf[r.task]
        BY DEF Ready, dependenciesCompleted
      <4>2. u \in ReportRefs(r, task')
        BY <4>1 DEF ReportRefs, Ready, TasksOf
      <4> QED
        BY <2>5, <4>2
    <3>3. Ready(u)
      BY <1>0, <1>13, <3>1, <3>2, ReportEffect DEF Ready, dependenciesCompleted
    <3>4. HasRef(u) /\ pending'[u] >= pending[u]
      BY <1>0, <1>a, <2>2, <2>3, <3>3, EnqueueCounts DEF ReadyTasksHaveRefs
    <3> QED
      BY <1>0, <1>a, <2>3, <3>4, RefKept
  <2> QED
    BY <2>4, <2>5
<1>14. ASSUME \/ \E w \in Workers : \/ RegisterWorker(w) \/ PollTimesOut(w)
                                    \/ AgentNext(w) \/ Crash(w)
              \/ \E r \in net : ReportIgnored(r) \/ ReportLost(r)
              \/ UNCHANGED vars
       PROVE ReadyTasksHaveRefs'
  <2>1. pending' = pending /\ poll' = poll
    BY <1>14 DEF RegisterWorker, PollTimesOut, AgentNext, StartTask, Execute, FinishTask,
       NextAssignment, Crash, ReportIgnored, ReportLost, vars
  <2>2. task' = task /\ job' = job
    BY <1>14, FrameSteps
  <2> QED
    BY <1>1, <1>2, <2>1, <2>2
<1> QED
  BY <1>3, <1>4, <1>5, <1>6, <1>7, <1>9, <1>10, <1>11, <1>12, <1>13, <1>14
  DEF Next, UserNext, WorkerNext, PollNext, ReportNext

---------------------------------------------------------------------------
LEMMA InitIInv == Init => IInv
<1> SUFFICES ASSUME Init PROVE IInv
  OBVIOUS
<1> USE JobsAssumption
<1>1. TypeInv
  BY InitType
<1>2. /\ \A w \in Workers : poll[w] = PollOff /\ agent[w] = AgentDown
      /\ net = {}
      /\ \A t \in Tasks : job[JobOf[t]] = "none"
      /\ \A j \in Jobs : job[j] = "none"
  BY DEF Init
<1>3. \A t \in Tasks : /\ task[t].status = "Queued"
                       /\ task[t].attempt = 0
                       /\ task[t].lease = 0
  BY DEF Init, NewTask
<1>4. IdlePollsAreEmpty
  BY <1>2, PollOffType DEF IdlePollsAreEmpty
<1>5. OneHolderPerAttempt
  BY <1>2, PollOffType, AgentDownType DEF OneHolderPerAttempt, Held
<1>6. NewTasksUntouched /\ CanceledInClosedJobs /\ AssignedIffLeased
  BY <1>3 DEF NewTasksUntouched, CanceledInClosedJobs, AssignedIffLeased
<1>7. RunningJobsAreOpen /\ ReadyTasksHaveRefs
  BY <1>2 DEF RunningJobsAreOpen, ReadyTasksHaveRefs
<1> QED
  BY <1>1, <1>4, <1>5, <1>6, <1>7 DEF IInv

LEMMA NextIInv == IInv /\ [Next]_vars => IInv'
<1> SUFFICES ASSUME IInv, [Next]_vars PROVE IInv'
  OBVIOUS
<1>1. TypeInv' /\ TypeOK'
  BY NextType DEF IInv, TypeInv
<1> QED
  BY <1>1, IdlePollsInductive, NewTasksInductive, CanceledInductive, RunningJobsInductive,
     AssignedIffLeasedInductive, OneHolderInductive, ReadyTasksInductive
  DEF IInv

\* No task is forgotten: whatever leaves a task Queued and ready also leaves a
\* ref of it in the queue or with a poll that returns it.
THEOREM NoTaskForgotten == Spec => []ReadyTasksHaveRefs
<1>1. IInv => ReadyTasksHaveRefs
  BY DEF IInv
<1> QED
  BY <1>1, InitIInv, NextIInv, PTL DEF Spec

\* Every Assigned task can be seen by requeueExpiredLeases, and nothing else
\* has a lease.
THEOREM LeasesMatchAssignments == Spec => []AssignedIffLeased
<1>1. IInv => AssignedIffLeased
  BY DEF IInv
<1> QED
  BY <1>1, InitIInv, NextIInv, PTL DEF Spec

\* An attempt number identifies its worker, through retries, restarts,
\* preemptions and delayed reports.
THEOREM AttemptsHaveOneHolder == Spec => []OneHolderPerAttempt
<1>1. IInv => OneHolderPerAttempt
  BY DEF IInv
<1> QED
  BY <1>1, InitIInv, NextIInv, PTL DEF Spec

\* A Running job always has a task with a worker, or a ready one in the queue.
\* The tasks that are not Completed are a nonempty set; one of them depends on
\* none of the others, so it is ready unless it is with a worker.
THEOREM RunningJobsNotStranded == Spec => []RunningJobsCanProgress
<1>1. IInv => RunningJobsCanProgress
  <2> SUFFICES ASSUME IInv, NEW j \in Jobs, job[j] = "Running"
               PROVE \E t \in TasksOf(j) : \/ task[t].status \in {"Assigned", "Running"}
                                           \/ Ready(t) /\ HasRef(t)
    BY DEF RunningJobsCanProgress
  <2> DEFINE S == {t \in TasksOf(j) : task[t].status # "Completed"}
  <2>1. S # {} /\ S \in SUBSET Tasks
    BY DEF IInv, RunningJobsAreOpen, TasksOf
  <2>2. PICK t \in S : Deps[t] \cap S = {}
    BY <2>1, AcyclicAssumption
  <2>3. t \in Tasks /\ JobOf[t] = j /\ t \in TasksOf(j)
    BY DEF TasksOf
  <2>4. task[t].status \in {"Queued", "Assigned", "Running"}
    <3>1. task[t].status \in TaskStates
      BY <2>3, RecordTypes DEF IInv, TypeInv, TaskRecords
    <3>2. task[t].status # "Failed" /\ task[t].status # "Canceled"
      BY <2>3 DEF IInv, RunningJobsAreOpen, CanceledInClosedJobs
    <3> QED
      BY <3>1, <3>2 DEF TaskStates
  <2>5. dependenciesCompleted(t, task)
    BY <2>2, <2>3, TasksAssumption DEF dependenciesCompleted, TasksOf
  <2>6. task[t].status = "Queued" => Ready(t) /\ HasRef(t)
    BY <2>3, <2>5 DEF Ready, IInv, ReadyTasksHaveRefs
  <2> QED
    BY <2>3, <2>4, <2>6
<1> QED
  BY <1>1, InitIInv, NextIInv, PTL DEF Spec

\* What a report writes fails a task only after its last retry.
LEMMA ReportedFails ==
    ASSUME TypeOK, NEW r \in net, Reported(r).status = "Failed"
    PROVE  task[r.task].attempt > MaxRetries[r.task]
<1>1. r \in Reports /\ r.task \in Tasks /\ task[r.task] \in TaskRecords
  BY DEF TypeOK, Reports
<1>2. task[r.task].attempt \in Nat /\ MaxRetries[r.task] \in Nat
  BY <1>1, TasksAssumption DEF TaskRecords
<1>3. r.status \in {"Running", "Completed", "Failed"}
  BY <1>1 DEF Reports
<1> DEFINE s == Settled(r)
<1>4. /\ [s EXCEPT !.status = "Running", !.worker = r.worker].status # "Failed"
      /\ [s EXCEPT !.status = "Completed"].status # "Failed"
      /\ [s EXCEPT !.status = "Queued", !.worker = NoWorker, !.expires = "future"].status # "Failed"
  <2>1. s \in TaskRecords
    BY <1>1 DEF Settled, KeyOf, Keys, Reports, TaskRecords, Leases, Expiries
  <2> HIDE DEF s
  <2> QED
    BY <2>1 DEF TaskRecords
<1> HIDE DEF s
<1>5. ~(r.status = "Failed" /\ task[r.task].attempt <= MaxRetries[r.task])
  BY <1>4 DEF Reported, s
<1>6. r.status # "Running" /\ r.status # "Completed"
  BY <1>4 DEF Reported, s
<1> QED
  BY <1>2, <1>3, <1>5, <1>6

\* No task fails before its retries are used up, unless the policy denied it.
THEOREM FailuresAreExhausted == Spec => []FailedMeansExhausted
<1> DEFINE FInv == IInv /\ FailedMeansExhausted
<1> USE JobsAssumption, TasksAssumption
<1>1. Init => FInv
  <2>1. Init => FailedMeansExhausted
    BY DEF Init, NewTask, FailedMeansExhausted
  <2> QED
    BY <2>1, InitIInv
<1>2. FInv /\ [Next]_vars => FInv'
  <2> SUFFICES ASSUME IInv, FailedMeansExhausted, [Next]_vars PROVE FailedMeansExhausted'
    BY NextIInv
  <2>0. TypeOK
    BY DEF IInv, TypeInv
  <2>a. \A u \in Tasks : task[u].attempt \in Nat /\ MaxRetries[u] \in Nat
    BY <2>0, RecordTypes DEF TaskRecords
  <2>1. ASSUME task' = task PROVE FailedMeansExhausted'
    BY <2>1 DEF FailedMeansExhausted
  <2>2. ASSUME NEW j \in Jobs, AddJob(j) \/ ArchiveJob(j) PROVE FailedMeansExhausted'
    BY <2>1, <2>2 DEF AddJob, ArchiveJob
  <2>3. ASSUME NEW j \in Jobs, CancelJob(j) PROVE FailedMeansExhausted'
    BY <2>0, <2>3, CancelEffect DEF FailedMeansExhausted
  <2>4. ASSUME (\E w \in Workers : Heartbeat(w)) \/ TimeNext PROVE FailedMeansExhausted'
    BY <2>0, <2>4, ClockEffect DEF FailedMeansExhausted, TimeNext
  <2>5. ASSUME NEW w \in Workers, PollBegin(w) PROVE FailedMeansExhausted'
    <3>1. \A u \in Tasks : Requeued(u).status = "Failed" => task[u].attempt > MaxRetries[u]
      <4> SUFFICES ASSUME NEW u \in Tasks, ~(task[u].attempt > MaxRetries[u])
                   PROVE Requeued(u).status = "Queued"
        BY <2>0, RequeuedType
      <4>1. task[u] \in TaskRecords
        BY <2>0, RecordTypes
      <4> QED
        BY <4>1 DEF Requeued, TaskRecords
    <3> QED
      BY <2>0, <2>5, <3>1, SweepEffect DEF FailedMeansExhausted
  <2>6. ASSUME NEW w \in Workers, NEW t \in Tasks, NEW V \in VictimSets(w, t),
               TryAssignSucceeds(w, t, V)
        PROVE FailedMeansExhausted'
    <3>1. task'[t].status = "Assigned"
      BY <2>0, <2>6, SucceedsEffect, LeasedType, RecordTypes
    <3> QED
      BY <2>0, <2>6, <3>1, SucceedsEffect DEF FailedMeansExhausted
  <2>7. ASSUME NEW w \in Workers, NEW t \in Tasks, NEW V \in VictimSets(w, t),
               TryAssignDenied(w, t, V)
        PROVE FailedMeansExhausted'
    <3>1. t \in MayDeny
      BY <2>7 DEF TryAssignDenied
    <3> QED
      BY <2>0, <2>7, <3>1, DeniedEffect DEF FailedMeansExhausted
  <2>8. ASSUME NEW r \in net, ReportTaskResult(r) PROVE FailedMeansExhausted'
    <3>1. Reported(r).attempt = task[r.task].attempt
      BY <2>0, ReportedType
    <3> QED
      BY <2>0, <2>8, <3>1, ReportEffect, ReportedFails DEF FailedMeansExhausted
  <2> QED
    BY <2>1, <2>2, <2>3, <2>4, <2>5, <2>6, <2>7, <2>8, FrameSteps
    DEF Next, UserNext, WorkerNext, PollNext, ReportNext
<1>3. FInv => FailedMeansExhausted
  OBVIOUS
<1> QED
  BY <1>1, <1>2, <1>3, PTL DEF Spec

\* A cancel or archive is final, whatever reports, sweeps and assignments are
\* on their way when it happens.
THEOREM ClosedIsFinal == Spec => ClosedJobsStayClosed
<1> DEFINE A == \A j \in Jobs :
                   /\ job[j] = "Canceled" => job'[j] \in {"Canceled", "Archived"}
                   /\ job[j] = "Archived" => job'[j] = "Archived"
<1> USE JobsAssumption
<1>1. TypeOK /\ [Next]_vars => [A]_vars
  <2> SUFFICES ASSUME TypeOK, Next PROVE A
    OBVIOUS
  <2>a. job \in [Jobs -> JobStates]
    BY DEF TypeOK
  <2>1. ASSUME job' = job PROVE A
    BY <2>1
  <2>2. ASSUME NEW j \in Jobs, AddJob(j) \/ CancelJob(j) \/ ArchiveJob(j) PROVE A
    BY <2>a, <2>2 DEF AddJob, CancelJob, ArchiveJob, isTerminal
  <2>3. ASSUME NEW w \in Workers, PollBegin(w) PROVE A
    BY <2>3 DEF PollBegin, SweptJob
  <2>4. ASSUME NEW w \in Workers, NEW t \in Tasks, NEW V, TryAssignDenied(w, t, V) PROVE A
    BY <2>a, <2>4 DEF TryAssignDenied, Assignable
  <2>5. ASSUME NEW r \in net, ReportTaskResult(r) PROVE A
    BY <2>a, <2>5 DEF ReportTaskResult, Ignored
  <2>6. ASSUME \/ \E w \in Workers : \/ Heartbeat(w)
                                     \/ \E t \in Tasks : \E V \in VictimSets(w, t) :
                                           TryAssignSucceeds(w, t, V)
               \/ TimeNext
        PROVE A
    BY <2>1, <2>6 DEF Heartbeat, TryAssignSucceeds, TimeNext, LeaseLapses, DeadlinePasses
  <2> HIDE DEF A
  <2> QED
    BY <2>1, <2>2, <2>3, <2>4, <2>5, <2>6, FrameSteps
    DEF Next, UserNext, WorkerNext, PollNext, ReportNext
<1> QED
  BY <1>1, TypeCorrect, PTL DEF Spec, ClosedJobsStayClosed
---------------------------------------------------------------------------
\* What clients are told.  A job's status agrees with its tasks' as long as no
\* settled task is changed.
SettledAt(j) ==
    /\ job[j] = "Completed" => \A t \in TasksOf(j) : task[t].status = "Completed"
    /\ job[j] = "Failed" => \E t \in TasksOf(j) : task[t].status = "Failed"

\* The step leaves the settled tasks of j as they are.
KeepsResults(j) ==
    \A t \in TasksOf(j) : task[t].status \in {"Completed", "Failed"} =>
        task'[t].status = task[t].status

\* The ways a step can treat the status of j.
JobMove(j) ==
    \/ job'[j] = job[j]
    \/ job[j] = "none" /\ job'[j] \in {"Queued", "Running"}
    \/ ~isTerminal(job[j]) /\ job'[j] = "Canceled"
    \/ isTerminal(job[j]) /\ job'[j] = "Archived"
    \/ /\ job[j] \notin {"Canceled", "Archived"}
       /\ TasksOf(j) # {}
       /\ job'[j] = StatusFromTasks(j, task')
    \/ /\ job[j] = "Running" /\ job'[j] = "Failed"
       /\ \E t \in TasksOf(j) : task'[t].status = "Failed"

LEMMA JobMoves ==
    ASSUME TypeOK, [Next]_vars, NEW k \in Jobs
    PROVE  JobMove(k)
<1> USE JobsAssumption
<1>a. job \in [Jobs -> JobStates]
  BY DEF TypeOK
<1>1. ASSUME job' = job PROVE JobMove(k)
  BY <1>1 DEF JobMove
<1>2. ASSUME NEW j \in Jobs, AddJob(j) \/ CancelJob(j) \/ ArchiveJob(j) PROVE JobMove(k)
  BY <1>a, <1>2 DEF AddJob, CancelJob, ArchiveJob, JobMove
<1>3. ASSUME NEW w \in Workers, PollBegin(w) PROVE JobMove(k)
  <2>1. job'[k] = SweptJob(k) /\ task' = Swept
    BY <1>3 DEF PollBegin
  <2> QED
    BY <2>1 DEF SweptJob, JobMove
<1>4. ASSUME NEW w \in Workers, NEW t \in Tasks, NEW V \in VictimSets(w, t),
             TryAssignDenied(w, t, V)
      PROVE JobMove(k)
  <2>1. job[JobOf[t]] = "Running" /\ job' = [job EXCEPT ![JobOf[t]] = "Failed"]
    BY <1>4 DEF TryAssignDenied, Assignable
  <2>2. task'[t].status = "Failed" /\ t \in TasksOf(JobOf[t])
    BY <1>4, DeniedEffect DEF TasksOf
  <2>3. CASE k = JobOf[t]
    <3>1. job'[k] = "Failed" /\ job[k] = "Running"
      BY <1>a, <2>1, <2>3
    <3> QED
      BY <2>2, <2>3, <3>1 DEF JobMove
  <2>4. CASE k # JobOf[t]
    <3>1. job'[k] = job[k]
      BY <1>a, <2>1, <2>4
    <3> QED
      BY <3>1 DEF JobMove
  <2> QED
    BY <2>3, <2>4
<1>5. ASSUME NEW r \in net, ReportTaskResult(r) PROVE JobMove(k)
  <2>1. r.task \in Tasks /\ job[JobOf[r.task]] \notin {"Canceled", "Archived"}
    BY <1>5 DEF ReportTaskResult, Ignored, TypeOK, Reports
  <2>2. job' = [job EXCEPT ![JobOf[r.task]] =
                  IF r.status = "Running" THEN @ ELSE StatusFromTasks(JobOf[r.task], task')]
    BY <1>5 DEF ReportTaskResult
  <2>3. r.task \in TasksOf(JobOf[r.task]) /\ JobOf[r.task] \in Jobs
    BY <2>1 DEF TasksOf
  <2>4. job'[k] = IF k = JobOf[r.task] /\ r.status # "Running"
                  THEN StatusFromTasks(k, task') ELSE job[k]
    BY <1>a, <2>2, <2>3
  <2> QED
    BY <2>1, <2>3, <2>4 DEF JobMove
<1>6. ASSUME \/ \E w \in Workers : \/ Heartbeat(w)
                                   \/ \E t \in Tasks : \E V \in VictimSets(w, t) :
                                         TryAssignSucceeds(w, t, V)
             \/ TimeNext
      PROVE JobMove(k)
  BY <1>1, <1>6 DEF Heartbeat, TryAssignSucceeds, TimeNext, LeaseLapses, DeadlinePasses
<1> QED
  BY <1>1, <1>2, <1>3, <1>4, <1>5, <1>6, FrameSteps
  DEF Next, UserNext, WorkerNext, PollNext, ReportNext

\* Only a report changes a settled task.
LEMMA OnlyReportsUndo ==
    ASSUME TypeOK, [Next]_vars, NEW u \in Tasks,
           task[u].status \in {"Completed", "Failed"}, task'[u].status # task[u].status
    PROVE  \E r \in net \ net' : r.task = u /\ Undoes(r)
<1>1. ASSUME task' = task PROVE FALSE
  BY <1>1
<1>2. ASSUME NEW j \in Jobs, AddJob(j) \/ ArchiveJob(j) PROVE FALSE
  BY <1>2 DEF AddJob, ArchiveJob
<1>3. ASSUME NEW j \in Jobs, CancelJob(j) PROVE FALSE
  BY <1>3, CancelEffect
<1>4. ASSUME (\E w \in Workers : Heartbeat(w)) \/ TimeNext PROVE FALSE
  BY <1>4, ClockEffect DEF TimeNext
<1>5. ASSUME NEW w \in Workers, PollBegin(w) PROVE FALSE
  BY <1>5, SweepEffect DEF Expired
<1>6. ASSUME NEW w \in Workers, NEW t \in Tasks, NEW V \in VictimSets(w, t),
             TryAssignSucceeds(w, t, V)
      PROVE FALSE
  BY <1>6, SucceedsEffect
<1>7. ASSUME NEW w \in Workers, NEW t \in Tasks, NEW V \in VictimSets(w, t),
             TryAssignDenied(w, t, V)
      PROVE FALSE
  BY <1>7, DeniedEffect
<1>8. ASSUME NEW r \in net, ReportTaskResult(r)
      PROVE \E x \in net \ net' : x.task = u /\ Undoes(x)
  <2>1. r \in net \ net'
    BY <1>8 DEF ReportTaskResult
  <2>2. r.task = u
    BY <1>8, ReportEffect
  <2>3. Undoes(r)
    BY <2>2 DEF Undoes
  <2> QED
    BY <2>1, <2>2, <2>3
<1> QED
  BY <1>1, <1>2, <1>3, <1>4, <1>5, <1>6, <1>7, <1>8, FrameSteps
  DEF Next, UserNext, WorkerNext, PollNext, ReportNext

\* A job that is not overruled keeps its results.
LEMMA ResultsKept ==
    ASSUME TypeOK, EngineNext, NEW j \in Jobs, j \notin overruled'
    PROVE  j \notin overruled /\ KeepsResults(j)
<1>1. /\ Next
      /\ overruled' = overruled \cup {JobOf[x.task] : x \in {r \in net \ net' : Undoes(r)}}
  BY DEF EngineNext
<1>2. \A r \in net \ net' : Undoes(r) => JobOf[r.task] \in overruled'
  BY <1>1
<1>3. ASSUME NEW t \in TasksOf(j), task[t].status \in {"Completed", "Failed"}
      PROVE  task'[t].status = task[t].status
  <2>1. t \in Tasks /\ JobOf[t] = j
    BY DEF TasksOf
  <2> QED
    BY <1>1, <1>2, <1>3, <2>1, OnlyReportsUndo
<1> QED
  BY <1>1, <1>3 DEF KeepsResults

\* Then its status goes on agreeing with its tasks', and a terminal one is final.
LEMMA TerminalKept ==
    ASSUME NEW j \in Jobs, SettledAt(j), KeepsResults(j), JobMove(j)
    PROVE  /\ SettledAt(j)'
           /\ isTerminal(job[j]) => job'[j] \in {job[j], "Archived"}
<1>1. ASSUME job'[j] = StatusFromTasks(j, task'), TasksOf(j) # {}
      PROVE  /\ SettledAt(j)'
             /\ job[j] = "Completed" => job'[j] = "Completed"
             /\ job[j] = "Failed" => job'[j] = "Failed"
  BY <1>1 DEF StatusFromTasks, SettledAt, KeepsResults, TasksOf
<1>2. ASSUME job'[j] = job[j] PROVE SettledAt(j)'
  BY <1>2 DEF SettledAt, KeepsResults, TasksOf
<1>3. ASSUME job'[j] \notin {"Completed", "Failed"} PROVE SettledAt(j)'
  BY <1>3 DEF SettledAt
<1>4. ASSUME job'[j] = "Failed", \E t \in TasksOf(j) : task'[t].status = "Failed"
      PROVE SettledAt(j)'
  BY <1>4 DEF SettledAt, TasksOf
<1>5. SettledAt(j)'
  BY <1>1, <1>2, <1>3, <1>4 DEF JobMove
<1>6. isTerminal(job[j]) => job'[j] \in {job[j], "Archived"}
  BY <1>1 DEF JobMove, isTerminal
<1> QED
  BY <1>5, <1>6

---------------------------------------------------------------------------
\* The status st of j was read from the store and still holds.
StillTrue(j, st) ==
    isTerminal(st) =>
        /\ job[j] \in {st, "Archived"}
        /\ st = "Completed" => \A t \in TasksOf(j) : task[t].status = "Completed"

StreamRecords ==
    [stage : {"off", "reading", "open", "closed", "left"}, of : Jobs \cup {NoJob},
     read : JobStates, job : JobStates, tasks : [Tasks -> TaskStates \cup {"none"}]]
WaitRecords ==
    [stage : {"off", "waiting", "answered"}, of : Jobs \cup {NoJob},
     answer : {"none", "content", "error", "timeout"}]

\* What is true of a stream's handler h: what it has read still holds, and once
\* it has closed, what it has sent.
HandlerTrue(h) ==
    /\ h.stage \in {"reading", "open", "closed"} => h.of \in Jobs
    /\ h.stage = "reading" /\ h.of \notin overruled => StillTrue(h.of, h.read)
    /\ h.stage = "closed" =>
          /\ isTerminal(h.job)
          /\ h.of \notin overruled =>
                /\ StillTrue(h.of, h.job)
                /\ h.job = "Completed" => \A t \in TasksOf(h.of) : h.tasks[t] = "Completed"

\* And of a waiting request.
WaitTrue(x) ==
    /\ x.stage = "off" => x.answer = "none"
    /\ x.stage # "off" => x.of \in Jobs
    /\ x.of \notin overruled =>
          /\ x.answer = "content" => job[x.of] \in {"Completed", "Archived"}
          /\ x.answer = "error" => job[x.of] \in {"Failed", "Canceled", "Archived"}

\* The inductive invariant of JobStream.
StreamInv ==
    /\ TypeInv
    /\ stream \in [Streams -> StreamRecords]
    /\ wait \in WaitRecords
    /\ \A j \in Jobs : j \notin overruled => SettledAt(j)
    /\ \A s \in Streams : HandlerTrue(stream[s])
    /\ WaitTrue(wait)

LEMMA StillTrueKept ==
    ASSUME NEW j \in Jobs, NEW st, StillTrue(j, st), KeepsResults(j),
           isTerminal(job[j]) => job'[j] \in {job[j], "Archived"}
    PROVE  StillTrue(j, st)'
<1>1. TasksOf(j)' = TasksOf(j)
  BY DEF TasksOf
<1> QED
  BY <1>1 DEF StillTrue, KeepsResults, isTerminal

\* A step of the engine, or a submission, changes nothing of what clients know.
\* (The hypotheses are what JobMoves and ResultsKept say of the step.)
LEMMA StreamsKept ==
    ASSUME StreamInv, stream' = stream,
           \A j \in Jobs : JobMove(j),
           \A j \in Jobs : j \notin overruled' => j \notin overruled /\ KeepsResults(j)
    PROVE  /\ \A j \in Jobs : j \notin overruled' => SettledAt(j)'
           /\ \A s \in Streams : HandlerTrue(stream[s])'
           /\ wait' = wait => WaitTrue(wait)'
<1>1. ASSUME NEW j \in Jobs, j \notin overruled'
      PROVE  /\ j \notin overruled
             /\ KeepsResults(j)
             /\ SettledAt(j)'
             /\ isTerminal(job[j]) => job'[j] \in {job[j], "Archived"}
  BY <1>1, TerminalKept DEF StreamInv
<1>2. ASSUME NEW s \in Streams PROVE HandlerTrue(stream[s])'
  <2>1. PICK h : h = stream[s] /\ h = stream'[s]
    OBVIOUS
  <2>2. HandlerTrue(h)
    BY <2>1 DEF StreamInv
  <2>3. ASSUME h.of \in Jobs, h.of \notin overruled', NEW st, StillTrue(h.of, st)
        PROVE  StillTrue(h.of, st)'
    BY <1>1, <2>3, StillTrueKept
  <2>4. TasksOf(h.of)' = TasksOf(h.of)
    BY DEF TasksOf
  <2>5. HandlerTrue(h)'
    BY <1>1, <2>2, <2>3, <2>4 DEF HandlerTrue
  <2> QED
    BY <2>1, <2>5 DEF HandlerTrue
<1>3. ASSUME wait' = wait PROVE WaitTrue(wait)'
  <2>1. PICK x : x = wait /\ x = wait'
    BY <1>3
  <2>2. WaitTrue(x) /\ x \in WaitRecords
    BY <2>1 DEF StreamInv
  <2>3. WaitTrue(x)'
    BY <1>1, <2>2 DEF WaitTrue, WaitRecords, isTerminal
  <2> QED
    BY <2>1, <2>3 DEF WaitTrue
<1> QED
  BY <1>1, <1>2, <1>3 DEF StreamInv
\* What is true of a handler or a request stays true while only clients move.
LEMMA EngineStill ==
    ASSUME UNCHANGED <<vars, overruled>>
    PROVE  /\ \A h : HandlerTrue(h) => HandlerTrue(h)'
           /\ \A x : WaitTrue(x) => WaitTrue(x)'
           /\ \A j \in Jobs : SettledAt(j) => SettledAt(j)'
<1>1. job' = job /\ task' = task /\ overruled' = overruled
  BY DEF vars
<1> QED
  BY <1>1 DEF HandlerTrue, WaitTrue, SettledAt, StillTrue, TasksOf

LEMMA HandlerUpdate ==
    ASSUME StreamInv, NEW s \in Streams, NEW h \in StreamRecords, HandlerTrue(h),
           stream' = [stream EXCEPT ![s] = h], UNCHANGED <<vars, wait, overruled>>
    PROVE  StreamInv'
<1>1. TypeInv'
  BY NextType DEF StreamInv
<1>2. \A v \in Streams : HandlerTrue(stream[v])'
  <2> SUFFICES ASSUME NEW v \in Streams PROVE HandlerTrue(stream[v])'
    OBVIOUS
  <2>1. PICK g : g = stream'[v] /\ HandlerTrue(g)
    BY DEF StreamInv
  <2>2. HandlerTrue(g)'
    BY <2>1, EngineStill
  <2> QED
    BY <2>1, <2>2 DEF HandlerTrue
<1>3. WaitTrue(wait)'
  BY EngineStill DEF StreamInv, WaitTrue, vars
<1>4. stream' \in [Streams -> StreamRecords] /\ wait' \in WaitRecords
  BY DEF StreamInv
<1>5. \A j \in Jobs : j \notin overruled' => SettledAt(j)'
  BY EngineStill DEF StreamInv
<1> QED
  BY <1>1, <1>2, <1>3, <1>4, <1>5 DEF StreamInv

LEMMA WaitUpdate ==
    ASSUME StreamInv, NEW x \in WaitRecords, WaitTrue(x),
           wait' = x, UNCHANGED <<vars, stream, overruled>>
    PROVE  StreamInv'
<1>1. TypeInv'
  BY NextType DEF StreamInv
<1>2. \A v \in Streams : HandlerTrue(stream[v])'
  <2> SUFFICES ASSUME NEW v \in Streams PROVE HandlerTrue(stream[v])'
    OBVIOUS
  <2>1. PICK g : g = stream'[v] /\ HandlerTrue(g)
    BY DEF StreamInv
  <2>2. HandlerTrue(g)'
    BY <2>1, EngineStill
  <2> QED
    BY <2>1, <2>2 DEF HandlerTrue
<1>3. WaitTrue(wait)'
  <2>1. WaitTrue(x)'
    BY EngineStill
  <2> QED
    BY <2>1 DEF WaitTrue
<1>4. stream' \in [Streams -> StreamRecords] /\ wait' \in WaitRecords
  BY DEF StreamInv
<1>5. \A j \in Jobs : j \notin overruled' => SettledAt(j)'
  BY EngineStill DEF StreamInv
<1> QED
  BY <1>1, <1>2, <1>3, <1>4, <1>5 DEF StreamInv

\* The status of a job that is not overruled holds while it is read.
LEMMA ReadIsTrue ==
    ASSUME NEW j \in Jobs, SettledAt(j)
    PROVE  StillTrue(j, job[j])
BY DEF SettledAt, StillTrue

LEMMA NoStreamType == NoStream \in StreamRecords /\ NoStream.stage = "off"
BY DEF NoStream, StreamRecords, JobStates

LEMMA StreamInitInv == StreamInit => StreamInv
<1> SUFFICES ASSUME StreamInit PROVE StreamInv
  OBVIOUS
<1>1. TypeInv
  BY InitType DEF StreamInit
<1>2. stream \in [Streams -> StreamRecords] /\ \A s \in Streams : stream[s].stage = "off"
  BY NoStreamType DEF StreamInit
<1>3. wait \in WaitRecords /\ wait.stage = "off" /\ wait.answer = "none"
  BY DEF StreamInit, NoWait, WaitRecords
<1>4. \A j \in Jobs : SettledAt(j)
  BY DEF StreamInit, Init, SettledAt
<1> QED
  BY <1>1, <1>2, <1>3, <1>4 DEF StreamInv, HandlerTrue, WaitTrue

LEMMA StreamNextInv == StreamInv /\ [EngineNext \/ ClientNext]_svars => StreamInv'
<1> SUFFICES ASSUME StreamInv, [EngineNext \/ ClientNext]_svars PROVE StreamInv'
  OBVIOUS
<1>0. /\ TypeInv /\ TypeOK
      /\ stream \in [Streams -> StreamRecords]
      /\ wait \in WaitRecords
      /\ WaitTrue(wait)
  BY DEF StreamInv, TypeInv
<1>a. job \in [Jobs -> JobStates] /\ \A t \in Tasks : task[t].status \in TaskStates
  BY <1>0, RecordTypes DEF TypeOK, TaskRecords
<1>1. CASE EngineNext
  <2>1. [Next]_vars /\ stream' = stream /\ wait' = wait
    BY <1>1 DEF EngineNext
  <2>2. TypeInv'
    BY <1>0, <2>1, NextType
  <2>3. \A j \in Jobs : JobMove(j)
    BY <1>0, <2>1, JobMoves
  <2>4. \A j \in Jobs : j \notin overruled' => j \notin overruled /\ KeepsResults(j)
    BY <1>0, <1>1, ResultsKept
  <2> QED
    BY <1>0, <2>1, <2>2, <2>3, <2>4, StreamsKept DEF StreamInv
<1>2. ASSUME NEW s \in Streams, NEW j \in Jobs, StreamOpen(s, j) PROVE StreamInv'
  <2>1. PICK g \in StreamRecords : g = stream[s]
    BY <1>0
  <2>2. PICK st \in JobStates : st = job[j]
    BY <1>a
  <2>3. PICK h : h = [g EXCEPT !.stage = "reading", !.of = j, !.read = st]
    OBVIOUS
  <2>4. h \in StreamRecords /\ h.stage = "reading" /\ h.of = j /\ h.read = st
    BY <2>3 DEF StreamRecords
  <2>5. stream' = [stream EXCEPT ![s] = h] /\ UNCHANGED <<vars, wait, overruled>>
    BY <1>0, <1>2, <2>1, <2>2, <2>3 DEF StreamOpen
  <2>6. j \notin overruled => StillTrue(j, st)
    BY <2>2, ReadIsTrue DEF StreamInv
  <2>7. HandlerTrue(h)
    BY <2>4, <2>6 DEF HandlerTrue
  <2> QED
    BY <2>4, <2>5, <2>7, HandlerUpdate
<1>3. ASSUME NEW s \in Streams, StreamPoll(s) PROVE StreamInv'
  <2>1. PICK g \in StreamRecords : g = stream[s]
    BY <1>0
  <2>2. PICK j \in Jobs : j = g.of
    BY <1>3, <2>1 DEF StreamPoll, StreamInv, HandlerTrue
  <2>3. PICK st \in JobStates : st = job[j]
    BY <1>a
  <2>4. PICK h : h = [g EXCEPT !.stage = "reading", !.read = st]
    OBVIOUS
  <2>5. h \in StreamRecords /\ h.stage = "reading" /\ h.of = j /\ h.read = st
    BY <2>2, <2>4 DEF StreamRecords
  <2>6. stream' = [stream EXCEPT ![s] = h] /\ UNCHANGED <<vars, wait, overruled>>
    BY <1>0, <1>3, <2>1, <2>2, <2>3, <2>4 DEF StreamPoll
  <2>7. j \notin overruled => StillTrue(j, st)
    BY <2>3, ReadIsTrue DEF StreamInv
  <2>8. HandlerTrue(h)
    BY <2>5, <2>7 DEF HandlerTrue
  <2> QED
    BY <2>5, <2>6, <2>8, HandlerUpdate
<1>4. ASSUME NEW s \in Streams, StreamSend(s) PROVE StreamInv'
  <2>1. PICK g \in StreamRecords : g = stream[s]
    BY <1>0
  <2>2. PICK j \in Jobs : j = g.of
    BY <1>4, <2>1 DEF StreamSend, StreamInv, HandlerTrue
  <2>3. PICK f : f = [t \in Tasks |-> IF JobOf[t] = g.of THEN task[t].status ELSE g.tasks[t]]
    OBVIOUS
  <2>4. f \in [Tasks -> TaskStates \cup {"none"}] /\ \A t \in TasksOf(j) : f[t] = task[t].status
    BY <1>a, <2>2, <2>3 DEF StreamRecords, TasksOf
  <2>5. PICK c \in {"closed", "open"} : c = IF isTerminal(g.read) THEN "closed" ELSE "open"
    OBVIOUS
  <2>6. PICK h : h = [g EXCEPT !.job = g.read, !.tasks = f, !.stage = c]
    OBVIOUS
  <2>7. h \in StreamRecords /\ h.stage = c /\ h.of = j /\ h.job = g.read /\ h.tasks = f
    BY <2>2, <2>4, <2>6 DEF StreamRecords
  <2>8. stream' = [stream EXCEPT ![s] = h] /\ UNCHANGED <<vars, wait, overruled>>
    BY <1>4, <2>1, <2>3, <2>5, <2>6 DEF StreamSend, isTerminal, isTerminalJobStatus
  <2>9. j \notin overruled => StillTrue(j, g.read)
    BY <1>4, <2>1, <2>2 DEF StreamSend, StreamInv, HandlerTrue
  <2>10. HandlerTrue(h)
    BY <2>4, <2>5, <2>7, <2>9 DEF HandlerTrue, StillTrue
  <2> QED
    BY <2>7, <2>8, <2>10, HandlerUpdate
<1>5. ASSUME NEW s \in Streams, StreamLeft(s) PROVE StreamInv'
  <2>1. PICK g \in StreamRecords : g = NoStream
    BY NoStreamType
  <2>2. PICK h : h = [g EXCEPT !.stage = "left"]
    OBVIOUS
  <2>3. h \in StreamRecords /\ h.stage = "left"
    BY <2>2 DEF StreamRecords
  <2>4. stream' = [stream EXCEPT ![s] = h] /\ UNCHANGED <<vars, wait, overruled>>
    BY <1>5, <2>1, <2>2 DEF StreamLeft
  <2>5. HandlerTrue(h)
    BY <2>3 DEF HandlerTrue
  <2> QED
    BY <2>3, <2>4, <2>5, HandlerUpdate
<1>6. ASSUME NEW j \in Jobs, CompatSubmit(j) PROVE StreamInv'
  <2>1. [Next]_vars /\ AddJob(j) /\ stream' = stream /\ overruled' = overruled
    BY <1>6 DEF CompatSubmit, Next, UserNext
  <2>2. TypeInv' /\ \A k \in Jobs : JobMove(k)
    BY <1>0, <2>1, NextType, JobMoves
  <2>3. \A k \in Jobs : KeepsResults(k)
    BY <2>1 DEF AddJob, KeepsResults
  <2>4. PICK x : x = [wait EXCEPT !.stage = "waiting", !.of = j]
    OBVIOUS
  <2>5. wait' = x /\ wait.stage = "off"
    BY <1>6, <2>4 DEF CompatSubmit
  <2>6. x \in WaitRecords /\ x.stage = "waiting" /\ x.of = j /\ x.answer = wait.answer
    BY <1>0, <2>4 DEF WaitRecords
  <2>7. wait.answer = "none"
    BY <1>0, <2>5 DEF WaitTrue
  <2>8. WaitTrue(wait)'
    BY <2>5, <2>6, <2>7 DEF WaitTrue
  <2> QED
    BY <2>1, <2>2, <2>3, <2>5, <2>6, <2>8, StreamsKept DEF StreamInv
<1>7. CASE CompatPoll
  <2>1. PICK j \in Jobs : j = wait.of
    BY <1>0, <1>7 DEF CompatPoll, WaitTrue
  <2>2. PICK a : a = CompatAnswer(job[j])
    OBVIOUS
  <2>3. /\ a \in {"content", "error"}
        /\ a = "content" => job[j] = "Completed"
        /\ a = "error" => job[j] \in {"Failed", "Canceled"}
    BY <1>7, <2>1, <2>2 DEF CompatPoll, CompatAnswer
  <2>4. PICK x : x = [wait EXCEPT !.stage = "answered", !.answer = a]
    OBVIOUS
  <2>5. x \in WaitRecords /\ x.stage = "answered" /\ x.of = j /\ x.answer = a
    BY <1>0, <2>1, <2>3, <2>4 DEF WaitRecords
  <2>6. wait' = x /\ UNCHANGED <<vars, stream, overruled>>
    BY <1>7, <2>1, <2>2, <2>4 DEF CompatPoll
  <2>7. WaitTrue(x)
    BY <2>3, <2>5 DEF WaitTrue
  <2> QED
    BY <2>5, <2>6, <2>7, WaitUpdate
<1>8. CASE CompatTimeout
  <2>1. PICK x : x = [wait EXCEPT !.stage = "answered", !.answer = "timeout"]
    OBVIOUS
  <2>2. x \in WaitRecords /\ x.stage = "answered" /\ x.of = wait.of /\ x.answer = "timeout"
    BY <1>0, <2>1 DEF WaitRecords
  <2>3. wait' = x /\ UNCHANGED <<vars, stream, overruled>> /\ wait.of \in Jobs
    BY <1>0, <1>8, <2>1 DEF CompatTimeout, WaitTrue
  <2>4. WaitTrue(x)
    BY <2>2, <2>3 DEF WaitTrue
  <2> QED
    BY <2>2, <2>3, <2>4, WaitUpdate
<1>9. CASE UNCHANGED svars
  <2>1. wait' = wait /\ UNCHANGED <<vars, stream, overruled>>
    BY <1>9 DEF svars
  <2>2. PICK x \in WaitRecords : x = wait
    BY <1>0
  <2> QED
    BY <1>0, <2>1, <2>2, WaitUpdate
<1> QED
  BY <1>1, <1>2, <1>3, <1>4, <1>5, <1>6, <1>7, <1>8, <1>9 DEF ClientNext, StreamNext

\* A client that is told job.completed was told before that every task is
\* Completed, whatever happens between the stream's two reads, unless a late
\* report undid a task's result.
THEOREM StreamsShowTasks == StreamSpec => []CompletedStreamsShowTasks
<1>1. StreamInv => CompletedStreamsShowTasks
  BY DEF StreamInv, HandlerTrue, CompletedStreamsShowTasks
<1> QED
  BY <1>1, StreamInitInv, StreamNextInv, PTL DEF StreamSpec

\* The terminal event of a stream and the answer of an OpenAI-compatible request
\* stay true, unless a late report undid a task's result.
THEOREM LastWordIsTrue == StreamSpec => []LastWordHolds
<1>1. StreamInv => LastWordHolds
  BY DEF StreamInv, HandlerTrue, WaitTrue, StillTrue, LastWordHolds
<1> QED
  BY <1>1, StreamInitInv, StreamNextInv, PTL DEF StreamSpec
=============================================================================
