----------------------------- MODULE JobStream -----------------------------
(***************************************************************************)
(* Clients that wait for jobs, on top of the job engine: the event stream  *)
(* of a job (streamJobEvents in internal/api/server.go) and the            *)
(* OpenAI-compatible endpoints, which submit a job and poll it             *)
(* (runOpenAICompatJob).                                                   *)
(*                                                                         *)
(* A stream reads the job and then its tasks, in two calls of the engine   *)
(* between which anything may happen, sends what has changed and closes    *)
(* after a terminal status.  What the client knows is the last status it   *)
(* was sent of the job and of each task.                                   *)
(***************************************************************************)
EXTENDS JobEngine

CONSTANTS
    Streams,    \* concurrent event streams
    NoJob       \* a stream or wait that has not begun

VARIABLES
    stream,     \* stream -> its handler and what it has sent
    wait,       \* the handler of an OpenAI-compatible request
    overruled   \* history: jobs of tasks that were Completed or Failed when a
                \* report gave them another status

svars == <<vars, stream, wait, overruled>>

NoStream == [stage |-> "off", of |-> NoJob, read |-> "none", job |-> "none",
             tasks |-> [t \in Tasks |-> "none"]]
NoWait == [stage |-> "off", of |-> NoJob, answer |-> "none"]

StreamInit ==
    /\ Init
    /\ stream = [s \in Streams |-> NoStream]
    /\ wait = NoWait
    /\ overruled = {}

---------------------------------------------------------------------------
\* Variant: failed jobs are not terminal.
terminalWithoutFailed(status) == status \in {"Completed", "Canceled", "Archived"}

isTerminalJobStatus(status) == status \in {"Completed", "Failed", "Canceled", "Archived"}

\* GET /v1/jobs/{id}/stream: handleJobByID finds the job, streamJobEvents reads
\* it again.
StreamOpen(s, j) ==
    /\ stream[s].stage = "off"
    /\ job[j] # "none"
    /\ stream' = [stream EXCEPT ![s].stage = "reading", ![s].of = j, ![s].read = job[j]]
    /\ UNCHANGED <<vars, wait, overruled>>

\* pollTicker: the job is read again.
StreamPoll(s) ==
    /\ stream[s].stage = "open"
    /\ stream' = [stream EXCEPT ![s].stage = "reading", ![s].read = job[stream[s].of]]
    /\ UNCHANGED <<vars, wait, overruled>>

\* Variant: a terminal job is announced before the tasks are looked at.
StreamSendEarly(s) ==
    LET h == stream[s]
    IN  /\ h.stage = "reading"
        /\ stream' = [stream EXCEPT ![s] =
             IF isTerminalJobStatus(h.read)
             THEN [h EXCEPT !.job = h.read, !.stage = "closed"]
             ELSE [h EXCEPT !.job = h.read, !.stage = "open",
                            !.tasks = [t \in Tasks |-> IF JobOf[t] = h.of THEN task[t].status
                                                       ELSE h.tasks[t]]]]
        /\ UNCHANGED <<vars, wait, overruled>>

\* The tasks are read; job.snapshot (or job.status and task.update for what has
\* changed) is sent, and the terminal event after it.
StreamSend(s) ==
    LET h == stream[s]
    IN  /\ h.stage = "reading"
        /\ stream' = [stream EXCEPT ![s] =
             [h EXCEPT !.job = h.read,
                       !.tasks = [t \in Tasks |-> IF JobOf[t] = h.of THEN task[t].status
                                                  ELSE h.tasks[t]],
                       !.stage = IF isTerminalJobStatus(h.read) THEN "closed" ELSE "open"]]
        /\ UNCHANGED <<vars, wait, overruled>>

\* The client goes away (r.Context().Done()).
StreamLeft(s) ==
    /\ stream[s].stage = "open"
    /\ stream' = [stream EXCEPT ![s] = [NoStream EXCEPT !.stage = "left"]]
    /\ UNCHANGED <<vars, wait, overruled>>

---------------------------------------------------------------------------
\* POST /v1/chat/completions or /v1/responses: the job is submitted without
\* passing the submit limiter.
CompatSubmit(j) ==
    /\ wait.stage = "off"
    /\ AddJob(j)
    /\ wait' = [wait EXCEPT !.stage = "waiting", !.of = j]
    /\ UNCHANGED <<stream, overruled>>

\* The switch on the polled status.  An archived job is waited for.
CompatAnswer(status) ==
    CASE status = "Completed" -> "content"
      [] status \in {"Failed", "Canceled"} -> "error"
      [] OTHER -> "none"

CompatPoll ==
    /\ wait.stage = "waiting"
    /\ CompatAnswer(job[wait.of]) # "none"
    /\ wait' = [wait EXCEPT !.stage = "answered", !.answer = CompatAnswer(job[wait.of])]
    /\ UNCHANGED <<vars, stream, overruled>>

CompatTimeout ==
    /\ wait.stage = "waiting"
    /\ wait' = [wait EXCEPT !.stage = "answered", !.answer = "timeout"]
    /\ UNCHANGED <<vars, stream, overruled>>

---------------------------------------------------------------------------
StreamNext(s) == StreamPoll(s) \/ StreamSend(s)

ClientNext ==
    \/ \E s \in Streams :
          \/ \E j \in Jobs : StreamOpen(s, j)
          \/ StreamNext(s)
          \/ StreamLeft(s)
    \/ \E j \in Jobs : CompatSubmit(j)
    \/ CompatPoll
    \/ CompatTimeout

\* The report x, just handled, changed a task that was settled: it was accepted
\* because the task has no lease any more.
Undoes(x) ==
    /\ task[x.task].status \in {"Completed", "Failed"}
    /\ task'[x.task].status # task[x.task].status

EngineNext ==
    /\ Next
    /\ overruled' = overruled \cup {JobOf[x.task] : x \in {r \in net \ net' : Undoes(r)}}
    /\ UNCHANGED <<stream, wait>>

StreamSpec == StreamInit /\ [][EngineNext \/ ClientNext]_svars

\* The ticker keeps firing.  Of the engine the fairness is that of JobEngine.
StreamFairSpec ==
    /\ StreamSpec
    /\ Fairness
    /\ \A s \in Streams : WF_svars(StreamNext(s))

---------------------------------------------------------------------------
\* A client that is told job.completed has been told before that every task is
\* Completed: reading the job before its tasks, without a snapshot, is enough,
\* unless a late report undid a task's result.
CompletedStreamsShowTasks ==
    \A s \in Streams :
        stream[s].stage = "closed" /\ stream[s].job = "Completed" /\ stream[s].of \notin overruled =>
            \A t \in TasksOf(stream[s].of) : stream[s].tasks[t] = "Completed"

\* The last word is true: the status of the terminal event, and the answer of
\* an OpenAI-compatible request, hold from then on (the job may be archived),
\* unless a late report undid a task's result.
LastWordHolds ==
    /\ \A s \in Streams : stream[s].stage = "closed" /\ stream[s].of \notin overruled =>
          job[stream[s].of] \in {stream[s].job, "Archived"}
    /\ wait.of \notin overruled =>
          /\ wait.answer = "content" => job[wait.of] \in {"Completed", "Archived"}
          /\ wait.answer = "error" => job[wait.of] \in {"Failed", "Canceled", "Archived"}

\* No result is undone while a single worker waits for the answer to every
\* report before it goes on, even when attempts time out or are denied: no
\* report is left over from an earlier attempt.
ResultsStand == overruled = {}

\* A stream ends: once its job cannot change any more the terminal event is
\* sent, unless the client has left.
StreamsEnd == \A s \in Streams : stream[s].stage = "reading" ~> stream[s].stage \in {"closed", "left"}
=============================================================================
