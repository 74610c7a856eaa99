---------------------------- MODULE MemoryQueue ----------------------------
(***************************************************************************)
(* The in-process task queue (internal/state/memory_queue.go).             *)
(*                                                                         *)
(* A ref is claimed under a fresh receipt, becomes visible again when its  *)
(* visibility timeout lapses, and is settled by Ack or Nack.  Callers keep *)
(* their claims outside the queue, so a claim may be settled long after    *)
(* RequeueExpired has handed its ref to somebody else.                     *)
(*                                                                         *)
(* Every enqueued ref is given a copy number.  The code has no such number *)
(* (two copies of a ref are equal there); it is a history annotation that  *)
(* never influences a step and lets the properties tell copies apart.      *)
(*                                                                         *)
(* Every method runs under q.mu and is one action, except the two methods  *)
(* whose loops depend on what earlier iterations did (Nack counts errors,  *)
(* RequeueDeadLetters consumes targets): their iterations are steps, and   *)
(* mu says which of them holds the mutex.                                  *)
(***************************************************************************)
EXTENDS Naturals, Sequences, Functions, SequencesExt

CONSTANTS
    Refs,           \* task references (JobID, TaskID)
    NackLimit,      \* error nacks that dead-letter a ref; 5 in the code
    MaxBatch,       \* largest max argument and largest batch a caller passes
    MaxCopies,      \* bound: copies ever enqueued
    MaxReceipts     \* bound: receipts ever issued (q.counter)

ASSUME NackLimitAssumption == NackLimit \in Nat /\ NackLimit > 0
ASSUME MaxBatchAssumption == MaxBatch \in Nat /\ MaxBatch > 0
ASSUME BoundsAssumption == MaxCopies \in Nat /\ MaxReceipts \in Nat

VARIABLES
    items,      \* q.items: FIFO of copies waiting to be claimed
    inflight,   \* q.inflight: receipt -> claim
    nack,       \* q.nack: ref -> error nacks since the counter was deleted
    dead,       \* q.dead: dead-lettered copies, oldest first
    counter,    \* q.counter: receipts issued so far
    mu,         \* the loop that holds q.mu, or Free
    held,       \* claims their callers have neither acked nor nacked yet
    issued,     \* history: copies enqueued so far
    acked       \* history: copies removed by Ack

vars == <<items, inflight, nack, dead, counter, mu, held, issued, acked>>

Copies == [ref : Refs, id : Nat]
\* QueueClaim: what Claim hands to its caller.
Claims == [receipt : Nat, copy : Copies]
\* lapsed: VisibleAt is no longer after the current time.
Inflight == [copy : Copies, lapsed : BOOLEAN]

Free == [op |-> "free"]
\* A Nack call in progress: the claims its loop has not reached.
Nacking(rest, reason) == [op |-> "nack", rest |-> rest, reason |-> reason]
\* A RequeueDeadLetters call in progress: the dead letters kept so far and how
\* many copies of each ref it still has to requeue.
Reviving(kept, target) == [op |-> "revive", kept |-> kept, target |-> target]

Reasons == {"not_ready", "error"}

\* The copies the queue is responsible for, by where they are.
Waiting == Range(items)
Claimed == {inflight[r].copy : r \in DOMAIN inflight}
DeadLettered == Range(dead) \cup (IF mu.op = "revive" THEN Range(mu.kept) ELSE {})

Init ==
    /\ items = <<>>
    /\ inflight = <<>>
    /\ nack = [r \in Refs |-> 0]
    /\ dead = <<>>
    /\ counter = 0
    /\ mu = Free
    /\ held = {}
    /\ issued = 0
    /\ acked = {}

---------------------------------------------------------------------------
\* Enqueue and EnqueueMany append the refs in order; Enqueue is the case of
\* one ref.
EnqueueMany(refs) ==
    /\ mu = Free
    /\ issued + Len(refs) <= MaxCopies
    /\ items' = items \o [i \in 1..Len(refs) |-> [ref |-> refs[i], id |-> issued + i]]
    /\ issued' = issued + Len(refs)
    /\ UNCHANGED <<inflight, nack, dead, counter, mu, held, acked>>

\* The first n = min(max, len(q.items)) items move to q.inflight, each under a
\* receipt made from the incremented counter.
Claim(max) ==
    LET n == IF max > Len(items) THEN Len(items) ELSE max
    IN  /\ mu = Free
        /\ n > 0
        /\ counter + n <= MaxReceipts
        /\ items' = SubSeq(items, n + 1, Len(items))
        /\ inflight' = [r \in DOMAIN inflight \cup (counter + 1)..(counter + n) |->
                          IF r \in (counter + 1)..(counter + n)
                          THEN [copy |-> items[r - counter], lapsed |-> FALSE]
                          ELSE inflight[r]]
        /\ held' = held \cup {[receipt |-> counter + i, copy |-> items[i]] : i \in 1..n}
        /\ counter' = counter + n
        /\ UNCHANGED <<nack, dead, mu, issued, acked>>

\* Time passes VisibleAt of a claim.
Lapse(r) ==
    /\ ~inflight[r].lapsed
    /\ inflight' = [inflight EXCEPT ![r].lapsed = TRUE]
    /\ UNCHANGED <<items, nack, dead, counter, mu, held, issued, acked>>

\* Variant: Ack removes whatever claim is in flight for the acked ref.
AckByRef(claims) ==
    LET gone == {r \in DOMAIN inflight : \E c \in claims : c.copy.ref = inflight[r].copy.ref}
    IN  /\ mu = Free
        /\ inflight' = [r \in DOMAIN inflight \ gone |-> inflight[r]]
        /\ nack' = [ref \in Refs |->
                      IF \E c \in claims : c.copy.ref = ref THEN 0 ELSE nack[ref]]
        /\ held' = held \ claims
        /\ acked' = acked \cup {inflight[r].copy : r \in gone}
        /\ UNCHANGED <<items, dead, counter, mu, issued>>

\* Ack deletes the receipts and, whether or not a receipt was still in flight,
\* the error counters of the refs.
Ack(claims) ==
    LET receipts == {c.receipt : c \in claims}
    IN  /\ mu = Free
        /\ inflight' = [r \in DOMAIN inflight \ receipts |-> inflight[r]]
        /\ nack' = [ref \in Refs |->
                      IF \E c \in claims : c.copy.ref = ref THEN 0 ELSE nack[ref]]
        /\ held' = held \ claims
        /\ acked' = acked \cup {inflight[r].copy : r \in DOMAIN inflight \cap receipts}
        /\ UNCHANGED <<items, dead, counter, mu, issued>>

Nack(claims, reason) ==
    /\ mu = Free
    /\ mu' = Nacking(claims, reason)
    /\ held' = held \ Range(claims)
    /\ UNCHANGED <<items, inflight, nack, dead, counter, issued, acked>>

\* What one iteration of Nack's loop does to a claim still in flight.
NackLive(c, reason) ==
    LET copy   == inflight[c.receipt].copy
        errors == IF reason = "error" THEN nack[copy.ref] + 1 ELSE nack[copy.ref]
        bury   == reason = "error" /\ errors >= NackLimit
    IN  /\ inflight' = [r \in DOMAIN inflight \ {c.receipt} |-> inflight[r]]
        /\ nack' = [nack EXCEPT ![copy.ref] = IF bury THEN 0 ELSE errors]
        /\ dead' = IF bury THEN Append(dead, copy) ELSE dead
        /\ items' = IF bury THEN items ELSE Append(items, copy)

NackNext ==
    /\ mu.op = "nack"
    /\ IF mu.rest = <<>>
       THEN mu' = Free /\ UNCHANGED <<items, inflight, nack, dead>>
       ELSE /\ mu' = Nacking(Tail(mu.rest), mu.reason)
            /\ IF Head(mu.rest).receipt \in DOMAIN inflight
               THEN NackLive(Head(mu.rest), mu.reason)
               ELSE UNCHANGED <<items, inflight, nack, dead>>
    /\ UNCHANGED <<counter, held, issued, acked>>

\* The lapsed claims a RequeueExpired(max) call moves, in the order Go's map
\* iteration happens to visit them: all of them, or any max of them.
Visits(max) ==
    LET lapsed == {r \in DOMAIN inflight : inflight[r].lapsed}
    IN  {s \in BoundedSeq(lapsed, max) :
            /\ IsInjective(s)
            /\ Len(s) = max \/ Range(s) = lapsed}

\* Variant: the receipts of requeued claims stay in flight.
RequeueKeepsReceipts(max) ==
    \E order \in Visits(max) :
        /\ mu = Free
        /\ order # <<>>
        /\ items' = items \o [i \in 1..Len(order) |-> inflight[order[i]].copy]
        /\ UNCHANGED <<inflight, nack, dead, counter, mu, held, issued, acked>>

RequeueExpired(max) ==
    \E order \in Visits(max) :
        /\ mu = Free
        /\ order # <<>>
        /\ items' = items \o [i \in 1..Len(order) |-> inflight[order[i]].copy]
        /\ inflight' = [r \in DOMAIN inflight \ Range(order) |-> inflight[r]]
        /\ UNCHANGED <<nack, dead, counter, mu, held, issued, acked>>

\* RequeueDeadLetters(refs): target counts how often refs names each ref.
RequeueDeadLetters(target) ==
    /\ mu = Free
    /\ mu' = Reviving(<<>>, target)
    /\ UNCHANGED <<items, inflight, nack, dead, counter, held, issued, acked>>

\* Variant: the kept letters are not written back.
ReviveForgetsKept ==
    /\ mu.op = "revive"
    /\ IF dead = <<>>
       THEN mu' = Free /\ UNCHANGED <<dead, items>>
       ELSE LET copy == Head(dead)
            IN  /\ dead' = Tail(dead)
                /\ IF mu.target[copy.ref] > 0
                   THEN /\ items' = Append(items, copy)
                        /\ mu' = [mu EXCEPT !.target[copy.ref] = @ - 1]
                   ELSE /\ mu' = [mu EXCEPT !.kept = Append(@, copy)]
                        /\ UNCHANGED items
    /\ UNCHANGED <<inflight, nack, counter, held, issued, acked>>

\* One iteration over q.dead: requeue the letter while its target is positive,
\* else keep it; after the last one q.dead becomes the kept letters.
ReviveNext ==
    /\ mu.op = "revive"
    /\ IF dead = <<>>
       THEN mu' = Free /\ dead' = mu.kept /\ UNCHANGED items
       ELSE LET copy == Head(dead)
            IN  /\ dead' = Tail(dead)
                /\ IF mu.target[copy.ref] > 0
                   THEN /\ items' = Append(items, copy)
                        /\ mu' = [mu EXCEPT !.target[copy.ref] = @ - 1]
                   ELSE /\ mu' = [mu EXCEPT !.kept = Append(@, copy)]
                        /\ UNCHANGED items
    /\ UNCHANGED <<inflight, nack, counter, held, issued, acked>>

---------------------------------------------------------------------------
Batches == {s \in BoundedSeq(held, MaxBatch) : s # <<>> /\ IsInjective(s)}

Next ==
    \/ \E refs \in BoundedSeq(Refs, MaxBatch) : refs # <<>> /\ EnqueueMany(refs)
    \/ \E max \in 1..MaxBatch : Claim(max)
    \/ \E r \in DOMAIN inflight : Lapse(r)
    \/ \E claims \in SUBSET held : claims # {} /\ Ack(claims)
    \/ \E claims \in Batches, reason \in Reasons : Nack(claims, reason)
    \/ NackNext
    \/ \E max \in 1..MaxBatch : RequeueExpired(max)
    \/ \E target \in [Refs -> 0..MaxBatch] : dead # <<>> /\ RequeueDeadLetters(target)
    \/ ReviveNext

\* Callers keep polling (every PollAssignments calls RequeueExpired), a method
\* that holds the mutex runs to its end, and time passes.  RequeueExpired
\* competes for the mutex with all other calls; sync.Mutex does not starve a
\* waiter, hence strong fairness.
Fairness ==
    /\ WF_vars(NackNext)
    /\ WF_vars(ReviveNext)
    /\ SF_vars(\E max \in 1..MaxBatch : RequeueExpired(max))
    /\ \A r \in 1..MaxReceipts : WF_vars(r \in DOMAIN inflight /\ Lapse(r))

Spec == Init /\ [][Next]_vars

FairSpec == Spec /\ Fairness

---------------------------------------------------------------------------
\* The types of the queue's fields, and of the loop that holds the mutex.
TypeOK ==
    /\ items \in Seq(Copies)
    /\ dead \in Seq(Copies)
    /\ counter \in Nat
    /\ issued \in Nat
    /\ nack \in [Refs -> Nat]
    /\ DOMAIN inflight \subseteq 1..counter
    /\ inflight \in [DOMAIN inflight -> Inflight]
    /\ held \subseteq Claims
    /\ acked \subseteq Copies
    /\ \/ mu = Free
       \/ /\ mu.op = "nack"
          /\ mu = Nacking(mu.rest, mu.reason)
          /\ mu.rest \in Seq(Claims)
          /\ mu.reason \in Reasons
       \/ /\ mu.op = "revive"
          /\ mu = Reviving(mu.kept, mu.target)
          /\ mu.kept \in Seq(Copies)
          /\ mu.target \in [Refs -> Nat]

\* A copy is in at most one place: late settles, expiries, dead-lettering and
\* revival never leave the same copy both queued and claimed, or twice queued
\* (RequeueExpired and Nack each append a ref and delete its receipt).
NoCopyInTwoPlaces ==
    /\ IsInjective(items)
    /\ IsInjective(dead)
    /\ \A r, s \in DOMAIN inflight : inflight[r].copy = inflight[s].copy => r = s
    /\ Waiting \cap Claimed = {}
    /\ Waiting \cap DeadLettered = {}
    /\ Claimed \cap DeadLettered = {}
    /\ acked \cap (Waiting \cup Claimed \cup DeadLettered) = {}

\* No enqueued copy disappears: each is waiting, claimed, dead-lettered, or was
\* removed by an Ack.
NoCopyLost ==
    \A k \in 1..issued :
        \E copy \in Waiting \cup Claimed \cup DeadLettered \cup acked : copy.id = k

\* The abstract queue of TaskQueue: a copy is where the lists and maps have it,
\* and its current claim is the receipt it is in flight under.
PlaceOf(k) ==
    CASE \E c \in Waiting : c.id = k -> "waiting"
      [] \E c \in Claimed : c.id = k -> "claimed"
      [] \E c \in DeadLettered : c.id = k -> "dead"
      [] \E c \in acked : c.id = k -> "done"
      [] OTHER -> "none"
HolderOf(k) ==
    IF PlaceOf(k) = "claimed"
    THEN CHOOSE r \in DOMAIN inflight : inflight[r].copy.id = k ELSE 0

Abstract ==
    INSTANCE TaskQueue WITH
        at <- [k \in 1..MaxCopies |-> PlaceOf(k)],
        holder <- [k \in 1..MaxCopies |-> HolderOf(k)],
        hands <- {[claim |-> c.receipt, copy |-> c.copy.id] : c \in held}

\* The in-memory queue keeps the promise of TaskQueue: late Acks and Nacks,
\* expiries, dead-lettering and revival are its steps, receipts are not issued
\* twice, a late Ack takes nothing away from the present holder, and a claim
\* nobody settles (a crashed or failed poll) comes back.
ImplementsTaskQueue == Abstract!Spec
=============================================================================
