-------------------------- MODULE DeadLetterAdmin --------------------------
(***************************************************************************)
(* The dead-letter administration endpoint (handleDeadLetterQueue in       *)
(* internal/api/server.go) with its safety checks                          *)
(* (internal/api/admin_safety.go), on top of the dead letters of the       *)
(* in-memory queue.                                                        *)
(*                                                                         *)
(* A POST names refs to requeue.  A dry run only counts them; a real one   *)
(* takes a token of the rate limit first and moves them afterwards.  Each  *)
(* handler reads the clock before it waits for the limiter's mutex, at     *)
(* most Skew seconds (the code does not bound this wait).  The audit       *)
(* events the handler appends are calls of AuditLog.                       *)
(***************************************************************************)
EXTENDS Naturals, Integers, Sequences, FiniteSets, SequencesExt, Ordering

CONSTANTS
    Refs,           \* task references
    NoRef,          \* an entry without job_id or task_id
    Clients,        \* concurrent POST requests
    MaxBatch,       \* maxBatch; 0 for no limit is left out
    ConfirmAt,      \* confirmThreshold; the token is configured
    RateLimit,      \* rateLimitPerMin, 0 for no limit
    Window,         \* a minute, in seconds
    Skew,           \* longest wait for the mutex, in seconds
    MaxDead,        \* bound: letters in the queue
    MaxSeconds      \* bound: the clock

ASSUME AdminAssumption ==
    /\ NoRef \notin Refs
    /\ MaxBatch \in Nat /\ MaxBatch > 0 /\ ConfirmAt \in Nat /\ RateLimit \in Nat
    /\ Window \in Nat /\ Skew \in Nat /\ Skew < Window
    /\ MaxDead \in Nat /\ MaxSeconds \in Nat

VARIABLES
    dead,       \* the queue's dead letters, oldest first
    recent,     \* recentRequeueUnix
    call,       \* client -> its POST request
    seconds,    \* the clock
    admitted    \* history: times of the admitted requests

requeueVars == <<dead, recent, call, seconds, admitted>>

NoPost == [stage |-> "off", refs |-> <<>>, ts |-> 0]

\* The refs a POST names; more than MaxBatch are refused.
Requests == {r \in BoundedSeq(Refs \cup {NoRef}, MaxBatch + 1) : r # <<>>}

RequeueInit ==
    /\ dead = <<>>
    /\ recent = <<>>
    /\ call = [c \in Clients |-> NoPost]
    /\ seconds = 0
    /\ admitted = <<>>

---------------------------------------------------------------------------
\* A Nack dead-letters a ref.
Bury(ref) ==
    /\ Len(dead) < MaxDead
    /\ dead' = Append(dead, ref)
    /\ UNCHANGED <<recent, call, seconds, admitted>>

\* A POST that is no dry run passes the checks of the batch size and, for a
\* large batch, of the confirmation header, and reads the clock.
PostRequeue(c, refs, confirmed) ==
    /\ call[c].stage = "off"
    /\ Len(refs) <= MaxBatch
    /\ ConfirmAt > 0 /\ Len(refs) >= ConfirmAt => confirmed
    /\ call' = [call EXCEPT ![c] = [stage |-> "posted", refs |-> refs, ts |-> seconds]]
    /\ UNCHANGED <<dead, recent, seconds, admitted>>

\* Variant: the second at the start of the window is dropped.
KeptExclusive(c) ==
    Chosen(recent, {i \in 1..Len(recent) : recent[i] > call[c].ts - Window + 1})

\* allowRequeue keeps the times from the cutoff on.
Kept(c) == Chosen(recent, {i \in 1..Len(recent) : recent[i] >= call[c].ts - Window})

RefuseRequeue(c) ==
    /\ call[c].stage = "posted"
    /\ RateLimit > 0 /\ Len(Kept(c)) >= RateLimit
    /\ recent' = Kept(c)
    /\ call' = [call EXCEPT ![c] = NoPost]
    /\ UNCHANGED <<dead, seconds, admitted>>

AllowRequeue(c) ==
    /\ call[c].stage = "posted"
    /\ RateLimit > 0 => Len(Kept(c)) < RateLimit
    /\ recent' = IF RateLimit > 0 THEN Append(Kept(c), call[c].ts) ELSE recent
    /\ call' = [call EXCEPT ![c].stage = "allowed"]
    /\ admitted' = Append(admitted, call[c].ts)
    /\ UNCHANGED <<dead, seconds>>

Occurrences(s, x) == Cardinality({i \in 1..Len(s) : s[i] = x})

\* RequeueDeadLetters takes, from the oldest on, as many letters of a ref as
\* the request names it times.
Taken(refs, i) == Occurrences(SubSeq(dead, 1, i), dead[i]) <= Occurrences(refs, dead[i])
Requeued(refs) == {i \in 1..Len(dead) : Taken(refs, i)}

\* An entry without an ID fails the request after its token was taken.
Requeue(c) ==
    /\ call[c].stage = "allowed"
    /\ dead' = IF NoRef \in Range(call[c].refs) THEN dead
               ELSE Chosen(dead, 1..Len(dead) \ Requeued(call[c].refs))
    /\ call' = [call EXCEPT ![c] = NoPost]
    /\ UNCHANGED <<recent, seconds, admitted>>

SecondPasses ==
    /\ seconds < MaxSeconds
    /\ \A c \in Clients : call[c].stage = "posted" => seconds < call[c].ts + Skew
    /\ seconds' = seconds + 1
    /\ UNCHANGED <<dead, recent, call, admitted>>

RequeueNext ==
    \/ \E ref \in Refs : Bury(ref)
    \/ \E c \in Clients :
          \/ \E refs \in Requests, confirmed \in BOOLEAN : PostRequeue(c, refs, confirmed)
          \/ RefuseRequeue(c)
          \/ AllowRequeue(c)
          \/ Requeue(c)
    \/ SecondPasses

RequeueSpec == RequeueInit /\ [][RequeueNext]_requeueVars

---------------------------------------------------------------------------
\* What a dry run answers: ListDeadLetters, then countMatchingRefs.
ListDeadLetters(limit) ==
    SubSeq(dead, 1, IF limit > 0 /\ limit < Len(dead) THEN limit ELSE Len(dead))

\* Variant: a letter answers every request for its ref.
countAllMatching(refs, inDead) ==
    Cardinality({i \in 1..Len(refs) : refs[i] \in Range(inDead)})

countMatchingRefs(refs, inDead) ==
    Cardinality({i \in 1..Len(refs) :
        Occurrences(SubSeq(refs, 1, i), refs[i]) <= Occurrences(inDead, refs[i])})

DryRun(refs) == countMatchingRefs(refs, ListDeadLetters(4 * Len(refs)))

\* In no span of Window - Skew + 1 seconds more than RateLimit requeue requests
\* get past the limiter, in whatever order they reach it.
RequeueRateHolds ==
    RateLimit > 0 =>
        \A t \in 0..seconds :
            Cardinality({i \in 1..Len(admitted) : admitted[i] \in (t - (Window - Skew))..t})
                <= RateLimit

\* A dry run predicts what a requeue at this moment would do, repeated and
\* absent refs included, as long as it looks at all dead letters: the handler
\* lists four letters per requested ref only.
DryRunExact ==
    \A refs \in Requests :
        NoRef \notin Range(refs) /\ Len(dead) <= 4 * Len(refs) =>
            DryRun(refs) = Cardinality(Requeued(refs))
=============================================================================
