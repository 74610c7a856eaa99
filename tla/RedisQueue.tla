----------------------------- MODULE RedisQueue -----------------------------
(***************************************************************************)
(* The Redis-backed task queue (internal/state/redis_queue.go).            *)
(*                                                                         *)
(* A method is a sequence of Redis commands on a connection of its own,    *)
(* without a transaction, so the commands of concurrent calls interleave.  *)
(* Each command is an action; what a method sends next is given by one     *)
(* operator per method (ClaimNext, AckNext, NackNext, SweepNext and        *)
(* ReviveNext).  A broken connection ends a call after any command.        *)
(*                                                                         *)
(* As in MemoryQueue every enqueued ref has a copy number, a history       *)
(* annotation no step depends on.  Payloads that decodeTaskRef rejects are *)
(* never enqueued by the engine and are left out, as are the read-only     *)
(* methods.                                                                *)
(***************************************************************************)
EXTENDS Naturals, Sequences, Functions, SequencesExt

CONSTANTS
    Refs,           \* task references
    Clients,        \* concurrent method calls
    DeadLetterMax,  \* cfg.DeadLetterMax
    MaxBatch,       \* largest batch a caller passes
    MaxCopies,      \* bound: copies ever enqueued
    MaxReceipts,    \* bound: receipts ever issued
    MaxBreaks,      \* bound: connections that break
    NoCopy          \* the empty payload

ASSUME RedisAssumption ==
    /\ DeadLetterMax \in Nat /\ DeadLetterMax > 0
    /\ MaxBatch \in Nat /\ MaxBatch > 0
    /\ IsFiniteSet(Clients)
    /\ MaxCopies \in Nat /\ MaxReceipts \in Nat /\ MaxBreaks \in Nat

Copies == [ref : Refs, id : Nat]
ASSUME NoCopyAssumption == NoCopy \notin Copies

VARIABLES
    pending,    \* <key>:pending; LPUSH appends here and RPOP takes the head
    claims,     \* <key>:claims, receipt -> payload
    visibility, \* <key>:visibility, the receipts in the sorted set
    lapsed,     \* receipts whose score is no longer after the current time
    nack,       \* <key>:nack, payload -> error nacks
    dead,       \* <key>:dead, oldest first
    call,       \* client -> the method call it has in progress
    issuedReceipts, \* receipts made so far; the code makes them from the time
    held,       \* receipts whose callers have not settled them yet
    issued,     \* history: copies enqueued so far
    acked,      \* history: copies whose claim an Ack deleted
    late,       \* history: copies of which a visibility timeout lapsed, or a
                \* Nack broke half way
    dropped,    \* history: copies a broken call had taken from a list
    stuck,      \* history: receipts whose Claim broke before ZADD
    breaks      \* connections broken so far

vars == <<pending, claims, visibility, lapsed, nack, dead, call, issuedReceipts,
          held, issued, acked, late, dropped, stuck, breaks>>
broken == <<dropped, stuck, breaks>>
store == <<pending, claims, visibility, lapsed, nack, dead>>

Receipts == 1..MaxReceipts

\* A call: the command it sends next, the receipts or refs its loop has not
\* finished (for a Claim: one entry per claim still wanted), the payload and
\* the nack count it has read, and for a Claim the claims made so far.
Idle == [op |-> "idle", cmd |-> "none", todo |-> <<>>, copy |-> NoCopy, count |-> 0,
         reason |-> "none", got |-> {}]
Call(op, cmd, todo) == [Idle EXCEPT !.op = op, !.cmd = cmd, !.todo = todo]

Init ==
    /\ pending = <<>>
    /\ claims = <<>>
    /\ visibility = {}
    /\ lapsed = {}
    /\ nack = [r \in Refs |-> 0]
    /\ dead = <<>>
    /\ call = [c \in Clients |-> Idle]
    /\ issuedReceipts = 0
    /\ held = {}
    /\ issued = 0
    /\ acked = {}
    /\ late = {}
    /\ dropped = {}
    /\ stuck = {}
    /\ breaks = 0

---------------------------------------------------------------------------
\* The methods' control flow: the command that follows k.cmd in the current
\* iteration, "next" when the iteration is over.

\* Variant: the receipt is not entered into the visibility set.
ClaimNextNoZAdd(k) ==
    CASE k.cmd = "RPOP" -> "HSET"
      [] OTHER -> "next"

ClaimNext(k) ==
    CASE k.cmd = "RPOP" -> "HSET"
      [] k.cmd = "HSET" -> "ZADD"
      [] OTHER -> "next"

AckNext(k) ==
    CASE k.cmd = "HGET" -> "HDEL claims"
      [] k.cmd = "HDEL claims" -> "ZREM"
      [] k.cmd = "ZREM" /\ k.copy # NoCopy -> "HDEL nack"
      [] OTHER -> "next"

\* Variant: the claim is not deleted.
NackKeepsClaim(k) ==
    CASE k.cmd = "HGET" /\ k.copy = NoCopy -> "next"
      [] k.cmd = "HGET" /\ k.copy # NoCopy -> IF k.reason = "error" THEN "HINCRBY" ELSE "LPUSH"
      [] k.cmd = "HINCRBY" -> IF k.count >= DeadLetterMax THEN "LPUSH dead" ELSE "LPUSH"
      [] k.cmd = "LPUSH dead" -> "HDEL nack"
      [] k.cmd \in {"HDEL nack", "LPUSH"} -> "ZREM"
      [] OTHER -> "next"

NackNext(k) ==
    CASE k.cmd = "HGET" /\ k.copy = NoCopy -> "next"
      [] k.cmd = "HGET" /\ k.copy # NoCopy -> IF k.reason = "error" THEN "HINCRBY" ELSE "LPUSH"
      [] k.cmd = "HINCRBY" -> IF k.count >= DeadLetterMax THEN "LPUSH dead" ELSE "LPUSH"
      [] k.cmd = "LPUSH dead" -> "HDEL nack"
      [] k.cmd \in {"HDEL nack", "LPUSH"} -> "HDEL claims"
      [] k.cmd = "HDEL claims" -> "ZREM"
      [] OTHER -> "next"

\* Variant: the claim is deleted before its payload is pushed.
SweepDeletesFirst(k) ==
    CASE k.cmd = "HGET" -> "HDEL claims"
      [] k.cmd = "HDEL claims" -> "ZREM"
      [] k.cmd = "ZREM" /\ k.copy # NoCopy -> "LPUSH"
      [] OTHER -> "next"

SweepNext(k) ==
    CASE k.cmd = "HGET" -> IF k.copy # NoCopy THEN "LPUSH" ELSE "HDEL claims"
      [] k.cmd = "LPUSH" -> "HDEL claims"
      [] k.cmd = "HDEL claims" -> "ZREM"
      [] OTHER -> "next"

ReviveNext(k) ==
    CASE k.cmd = "LREM" /\ k.copy # NoCopy -> "LPUSH"
      [] k.cmd = "LPUSH" -> "HDEL nack"
      [] OTHER -> "next"

Following(k) ==
    CASE k.op = "claim" -> ClaimNext(k)
      [] k.op = "ack" -> AckNext(k)
      [] k.op = "nack" -> NackNext(k)
      [] k.op = "sweep" -> SweepNext(k)
      [] k.op = "revive" -> ReviveNext(k)

FirstCommand(op) ==
    CASE op = "claim" -> "RPOP"
      [] op = "revive" -> "LREM"
      [] OTHER -> "HGET"

\* The call after its command, with what it has read: on to the next command,
\* the next iteration, or the end.
Advance(k) ==
    IF Following(k) # "next" THEN [k EXCEPT !.cmd = Following(k)]
    ELSE IF Len(k.todo) > 1
    THEN [k EXCEPT !.todo = Tail(@), !.cmd = FirstCommand(k.op), !.copy = NoCopy, !.count = 0]
    ELSE Idle

\* Client c sends command cmd; k is its call with the answer filled in.  When
\* a Claim ends its claims belong to the caller.
Sent(c, cmd) == call[c].cmd = cmd
Continue(c, k) ==
    /\ call' = [call EXCEPT ![c] = Advance(k)]
    /\ held' = IF k.op = "claim" /\ Advance(k) = Idle THEN held \cup k.got ELSE held

Item(c) == Head(call[c].todo)

---------------------------------------------------------------------------
\* Enqueue and EnqueueMany: a single LPUSH.
EnqueueMany(refs) ==
    /\ issued + Len(refs) <= MaxCopies
    /\ pending' = pending \o [i \in 1..Len(refs) |-> [ref |-> refs[i], id |-> issued + i]]
    /\ issued' = issued + Len(refs)
    /\ UNCHANGED <<claims, visibility, lapsed, nack, dead, call, issuedReceipts, held, acked, late, broken>>

\* The callers: each call starts with its connection and its arguments.
\* RequeueExpired reads the lapsed receipts, at most max, in one command.
Begin(c, k) ==
    /\ call[c] = Idle
    /\ call' = [call EXCEPT ![c] = k]
    /\ UNCHANGED <<store, issuedReceipts, issued, acked, late, broken>>

Claim(c, max) == Begin(c, Call("claim", "RPOP", [i \in 1..max |-> 0])) /\ UNCHANGED held

Ack(c, receipts) ==
    /\ Begin(c, Call("ack", "HGET", receipts))
    /\ held' = held \ Range(receipts)

Nack(c, receipts, reason) ==
    /\ Begin(c, [Call("nack", "HGET", receipts) EXCEPT !.reason = reason])
    /\ held' = held \ Range(receipts)

RequeueExpired(c, receipts) ==
    /\ receipts # <<>>
    /\ Range(receipts) \subseteq visibility \cap lapsed
    /\ Begin(c, Call("sweep", "HGET", receipts))
    /\ UNCHANGED held

RequeueDeadLetters(c, refs) == Begin(c, Call("revive", "LREM", refs)) /\ UNCHANGED held

---------------------------------------------------------------------------
\* Redis commands.
\* RPOP: nothing left ends the Claim.
RPop(c) ==
    /\ Sent(c, "RPOP")
    /\ IF pending = <<>>
       THEN /\ call' = [call EXCEPT ![c] = Idle]
            /\ held' = held \cup call[c].got
            /\ UNCHANGED pending
       ELSE /\ pending' = Tail(pending)
            /\ Continue(c, [call[c] EXCEPT !.copy = Head(pending)])
    /\ UNCHANGED <<claims, visibility, lapsed, nack, dead, issuedReceipts, issued, acked, late, broken>>

\* The receipt is made of the consumer, the time and the iteration: fresh.
HSet(c) ==
    /\ Sent(c, "HSET")
    /\ issuedReceipts < MaxReceipts
    /\ LET r == issuedReceipts + 1
       IN  /\ claims' = [x \in DOMAIN claims \cup {r} |->
                           IF x = r THEN call[c].copy ELSE claims[x]]
           /\ issuedReceipts' = r
           /\ Continue(c, [call[c] EXCEPT !.got = @ \cup {r}, !.todo = <<r>> \o Tail(@)])
    /\ UNCHANGED <<pending, visibility, lapsed, nack, dead, issued, acked, late, broken>>

ZAdd(c) ==
    /\ Sent(c, "ZADD")
    /\ visibility' = visibility \cup {Item(c)}
    /\ Continue(c, call[c])
    /\ UNCHANGED <<pending, claims, lapsed, nack, dead, issuedReceipts, issued, acked, late, broken>>

\* getClaimPayload.
HGet(c) ==
    /\ Sent(c, "HGET")
    /\ Continue(c, [call[c] EXCEPT !.copy = IF Item(c) \in DOMAIN claims
                                            THEN claims[Item(c)] ELSE NoCopy])
    /\ UNCHANGED <<store, issuedReceipts, issued, acked, late, broken>>

\* incrNack.
HIncrBy(c) ==
    /\ Sent(c, "HINCRBY")
    /\ nack' = [nack EXCEPT ![call[c].copy.ref] = @ + 1]
    /\ Continue(c, [call[c] EXCEPT !.count = nack[call[c].copy.ref] + 1])
    /\ UNCHANGED <<pending, claims, visibility, lapsed, dead, issuedReceipts, issued, acked, late, broken>>

LPush(c) ==
    /\ Sent(c, "LPUSH")
    /\ pending' = Append(pending, call[c].copy)
    /\ Continue(c, call[c])
    /\ UNCHANGED <<claims, visibility, lapsed, nack, dead, issuedReceipts, issued, acked, late, broken>>

LPushDead(c) ==
    /\ Sent(c, "LPUSH dead")
    /\ dead' = Append(dead, call[c].copy)
    /\ Continue(c, call[c])
    /\ UNCHANGED <<pending, claims, visibility, lapsed, nack, issuedReceipts, issued, acked, late, broken>>

HDelClaim(c) ==
    /\ Sent(c, "HDEL claims")
    /\ claims' = [r \in DOMAIN claims \ {Item(c)} |-> claims[r]]
    /\ acked' = IF call[c].op = "ack" /\ Item(c) \in DOMAIN claims
                THEN acked \cup {claims[Item(c)]} ELSE acked
    /\ Continue(c, call[c])
    /\ UNCHANGED <<pending, visibility, lapsed, nack, dead, issuedReceipts, issued, late, broken>>

ZRem(c) ==
    /\ Sent(c, "ZREM")
    /\ visibility' = visibility \ {Item(c)}
    /\ Continue(c, call[c])
    /\ UNCHANGED <<pending, claims, lapsed, nack, dead, issuedReceipts, issued, acked, late, broken>>

HDelNack(c) ==
    /\ Sent(c, "HDEL nack")
    /\ nack' = [nack EXCEPT ![call[c].copy.ref] = 0]
    /\ Continue(c, call[c])
    /\ UNCHANGED <<pending, claims, visibility, lapsed, dead, issuedReceipts, issued, acked, late, broken>>

\* LREM dead 1: the youngest letter of the ref, if there is one.
LRem(c) ==
    LET of == {i \in 1..Len(dead) : dead[i].ref = Item(c)}
        i  == Max(of)
    IN  /\ Sent(c, "LREM")
        /\ IF of = {}
           THEN Continue(c, call[c]) /\ UNCHANGED dead
           ELSE /\ dead' = RemoveAt(dead, i)
                /\ Continue(c, [call[c] EXCEPT !.copy = dead[i]])
        /\ UNCHANGED <<pending, claims, visibility, lapsed, nack, issuedReceipts, issued, acked, late, broken>>

---------------------------------------------------------------------------
\* Time passes the score of a receipt.
Lapse(r) ==
    /\ r \in visibility \ lapsed
    /\ lapsed' = lapsed \cup {r}
    /\ late' = IF r \in DOMAIN claims THEN late \cup {claims[r]} ELSE late
    /\ UNCHANGED <<pending, claims, visibility, nack, dead, call, issuedReceipts, held, issued, acked, broken>>

\* Calls that have taken a copy out of a list and not yet put it anywhere: a
\* Claim after RPOP, a RequeueDeadLetters after LREM.
HasTaken(c) ==
    \/ call[c].op = "claim" /\ call[c].cmd = "HSET"
    \/ call[c].op = "revive" /\ call[c].cmd = "LPUSH"
InHands(copy) == {c \in Clients : call[c].copy = copy /\ HasTaken(c)}

\* The Nacks that have pushed copy and not yet deleted its claim.
Returning(copy) ==
    {c \in Clients : /\ call[c].op = "nack" /\ call[c].copy = copy
                     /\ call[c].cmd \in {"HDEL nack", "HDEL claims"}}

\* The connection breaks and the method returns an error.  The last command
\* was executed even if its answer was lost; a Claim returns no claims.
Break(c) ==
    /\ breaks < MaxBreaks
    /\ breaks' = breaks + 1
    /\ call[c] # Idle
    /\ call' = [call EXCEPT ![c] = Idle]
    /\ dropped' = IF HasTaken(c) THEN dropped \cup {call[c].copy} ELSE dropped
    /\ stuck' = IF Sent(c, "ZADD") THEN stuck \cup {Item(c)} ELSE stuck
    /\ late' = IF c \in Returning(call[c].copy) THEN late \cup {call[c].copy} ELSE late
    /\ UNCHANGED <<store, issuedReceipts, held, issued, acked>>

Command(c) ==
    \/ RPop(c) \/ HSet(c) \/ ZAdd(c) \/ HGet(c) \/ HIncrBy(c) \/ LPush(c)
    \/ LPushDead(c) \/ HDelClaim(c) \/ ZRem(c) \/ HDelNack(c) \/ LRem(c)

Batches(S) == {s \in BoundedSeq(S, MaxBatch) : s # <<>> /\ IsInjective(s)}

Requests(c) ==
    \/ \E max \in 1..MaxBatch : Claim(c, max)
    \/ \E receipts \in Batches(held) : Ack(c, receipts)
    \/ \E receipts \in Batches(held), reason \in {"not_ready", "error"} : Nack(c, receipts, reason)
    \/ \E receipts \in Batches(visibility \cap lapsed) : RequeueExpired(c, receipts)
    \/ \E refs \in BoundedSeq(Refs, MaxBatch) :
          refs # <<>> /\ dead # <<>> /\ RequeueDeadLetters(c, refs)

Next ==
    \/ \E refs \in BoundedSeq(Refs, MaxBatch) : refs # <<>> /\ EnqueueMany(refs)
    \/ \E c \in Clients : Requests(c) \/ Command(c) \/ Break(c)
    \/ \E r \in Receipts : Lapse(r)

Spec == Init /\ [][Next]_vars

---------------------------------------------------------------------------
\* No enqueued ref disappears, however the commands of concurrent calls
\* interleave: each copy is pending, claimed, dead-lettered, on its way in a
\* call, or was acked.  The one exception is a Claim between RPOP and HSET, or
\* a RequeueDeadLetters between LREM and LPUSH, whose connection breaks; Ack,
\* Nack and RequeueExpired may break anywhere (they push before they delete).
RefsLostOnlyInHands ==
    \A k \in 1..issued : \E copy \in [ref : Refs, id : {k}] :
        \/ copy \in Range(pending) \cup Range(dead) \cup Range(claims) \cup acked
        \/ copy \in dropped
        \/ InHands(copy) # {}

\* How often copy can be claimed or will be: its places in the keys.
Places(copy) ==
    Cardinality({i \in 1..Len(pending) : pending[i] = copy})
    + Cardinality({i \in 1..Len(dead) : dead[i] = copy})
    + Cardinality({r \in DOMAIN claims : claims[r] = copy})
    + Cardinality(InHands(copy))

\* Duplicates come from timeouts and broken Nacks only: any other copy is in
\* one place, apart from Nacks that have pushed it and are about to delete its
\* old claim.
NoDuplicateBeforeTimeout ==
    \A copy \in (Range(pending) \cup Range(dead) \cup Range(claims)) \ late :
        Places(copy) <= 1 + Cardinality(Returning(copy))

\* Every claim can be swept: a receipt in <key>:claims is in <key>:visibility,
\* where RequeueExpired looks for it, unless the Claim that made it is about to
\* send ZADD or broke there.
ClaimsAreSwept ==
    \A r \in DOMAIN claims \ visibility :
        r \in stuck \/ \E c \in Clients : Sent(c, "ZADD") /\ Item(c) = r
=============================================================================
