------------------------------ MODULE AuditLog ------------------------------
(***************************************************************************)
(* The audit log: AppendAuditEvent and ListAuditEvents of the in-memory    *)
(* store (internal/state/memory_store.go) and of the Postgres store        *)
(* (internal/state/postgres_store.go), the handlers that append to it and  *)
(* an operator who pages through GET /v1/admin/audit.                      *)
(*                                                                         *)
(* Every event carries the hash of its predecessor and its own hash.  The  *)
(* in-memory store appends under a mutex; the Postgres store reads the     *)
(* last hash with one statement and inserts with another.                  *)
(*                                                                         *)
(* Of an event only a kind is kept: what the query filters on, and the     *)
(* rest of the payload as far as a hash tells events apart.                *)
(***************************************************************************)
EXTENDS Naturals, Sequences, FiniteSets, SequencesExt, Ordering

CONSTANTS
    Backends,   \* the stores a process may be configured with
    Writers,    \* concurrent requests that append an event
    Kinds,      \* kinds of events
    Limit,      \* the operator's page size
    StoredTick, \* clock ticks a time stored in Postgres is a multiple of
    MaxEvents,  \* bound: events ever appended
    MaxTime     \* bound: clock ticks

ASSUME AuditAssumption ==
    /\ Backends \subseteq {"memory", "postgres"}
    /\ Limit \in Nat /\ Limit > 0
    /\ StoredTick \in Nat /\ StoredTick > 0
    /\ MaxEvents \in Nat /\ MaxTime \in Nat

VARIABLES
    backend, \* the store the process was started with
    audits,  \* the stored events in the order of their IDs
    append,  \* writer -> its AppendAuditEvent call
    reader,  \* the operator's listing
    now,     \* the clock
    forked   \* history: IDs of the events of raced calls

vars == <<backend, audits, append, reader, now, forked>>
process == <<backend, forked>>

\* The hash of no event.  A hash stands for what was hashed: no collisions.
NoHash == <<>>
computeAuditHash(e) == <<e.kind, e.at, e.prev>>

\* A call: its event; at = 0 is a zero CreatedAt; prev is set by the SELECT.
\* raced (history): its SELECT failed, or another INSERT came after it.
NoCall == [stage |-> "off", kind |-> "none", at |-> 0, prev |-> NoHash, raced |-> FALSE]

\* A listing: the kind it asks for, the next offset, the IDs returned so far,
\* and the matching IDs that existed when it began.
NoReader == [on |-> FALSE, kind |-> "none", offset |-> 0, got |-> <<>>, there |-> {}]

Init ==
    /\ backend \in Backends
    /\ forked = {}
    /\ audits = <<>>
    /\ append = [w \in Writers |-> NoCall]
    /\ reader = NoReader
    /\ now = StoredTick

---------------------------------------------------------------------------
\* A handler calls AppendAuditEvent.  appendPolicyAudit and handleJobs set
\* CreatedAt; the admin handlers leave it to the store.
Call(w, kind, at) ==
    /\ append[w].stage = "off"
    /\ Len(audits) + Cardinality({v \in Writers : append[v].stage # "off"}) < MaxEvents
    /\ at \in {0, now}
    /\ append' = [append EXCEPT ![w] = [NoCall EXCEPT !.stage = "called", !.kind = kind, !.at = at]]
    /\ UNCHANGED <<process, audits, reader, now>>

Stamped(c) == [c EXCEPT !.at = IF @ = 0 THEN now ELSE @]

\* Variant: always the first event's hash.
FirstHash == IF audits = <<>> THEN NoHash ELSE audits[1].hash

LastHash == IF audits = <<>> THEN NoHash ELSE Last(audits).hash

\* Variant: the hash is computed before PrevHash is set.
SealedEarly(c, prev) ==
    [kind |-> c.kind, at |-> c.at, prev |-> prev,
     hash |-> computeAuditHash([c EXCEPT !.prev = NoHash])]

\* PrevHash, then EventHash.
Sealed(c, prev) ==
    [kind |-> c.kind, at |-> c.at, prev |-> prev,
     hash |-> computeAuditHash([c EXCEPT !.prev = prev])]

\* MemoryStore.AppendAuditEvent, under the store's mutex.
MemoryAppend(w) ==
    /\ backend = "memory"
    /\ append[w].stage = "called"
    /\ audits' = Append(audits, Sealed(Stamped(append[w]), LastHash))
    /\ append' = [append EXCEPT ![w] = NoCall]
    /\ UNCHANGED <<process, reader, now>>

\* PostgresStore.AppendAuditEvent: the SELECT of the last event_hash.  Its
\* error is ignored, and PrevHash stays empty.
PostgresSelect(w, fails) ==
    /\ backend = "postgres"
    /\ append[w].stage = "called"
    /\ append' = [append EXCEPT ![w] =
          [Stamped(append[w]) EXCEPT !.stage = "selected", !.raced = fails,
                                     !.prev = IF fails THEN NoHash ELSE LastHash]]
    /\ UNCHANGED <<process, audits, reader, now>>

\* The column created_at keeps microseconds of the nanoseconds that were hashed.
Stored(e) == [e EXCEPT !.at = @ - (@ % StoredTick)]

\* The INSERT, which assigns the ID.
PostgresInsert(w) ==
    /\ append[w].stage = "selected"
    /\ audits' = Append(audits, Stored(Sealed(append[w], append[w].prev)))
    /\ append' = [v \in Writers |->
          IF v = w THEN NoCall
          ELSE [append[v] EXCEPT !.raced = @ \/ append[v].stage = "selected"]]
    /\ forked' = IF append[w].raced THEN forked \cup {Len(audits) + 1} ELSE forked
    /\ UNCHANGED <<backend, reader, now>>

\* A store error drops the event: appendAudit logs it, the others ignore it.
AppendFails(w) ==
    /\ append[w].stage = "selected"
    /\ append' = [append EXCEPT ![w] = NoCall]
    /\ UNCHANGED <<process, audits, reader, now>>

Tick ==
    /\ now < MaxTime
    /\ now' = now + 1
    /\ UNCHANGED <<process, audits, append, reader>>

---------------------------------------------------------------------------
\* The IDs of the events that pass the query's filters.
Matching(kind) == {i \in 1..Len(audits) : audits[i].kind = kind}

\* filtered[offset:][:limit], and LIMIT ... OFFSET ... in SQL.
Slice(ids, limit, offset) ==
    SubSeq(ids, offset + 1, IF offset + limit < Len(ids) THEN offset + limit ELSE Len(ids))

\* Variant: newest first before the page is cut.
NewestPage(kind, limit, offset) == Slice(Reverse(Sorted(Matching(kind), Less)), limit, offset)

\* MemoryStore.ListAuditEvents: the page is cut, oldest first, and then reversed.
MemoryPage(kind, limit, offset) == Reverse(Slice(Sorted(Matching(kind), Less), limit, offset))

\* ORDER BY created_at DESC, id DESC.
Later(i, j) == audits[i].at > audits[j].at \/ (audits[i].at = audits[j].at /\ i > j)
PostgresPage(kind, limit, offset) == Slice(Sorted(Matching(kind), Later), limit, offset)

ListAuditEvents(kind, limit, offset) ==
    IF backend = "memory" THEN MemoryPage(kind, limit, offset)
                          ELSE PostgresPage(kind, limit, offset)

\* An operator pages through all events of a kind, offset by offset, until a
\* page is not full (handleAuditEvents answers each request).
StartListing(kind) ==
    /\ ~reader.on
    /\ reader' = [NoReader EXCEPT !.on = TRUE, !.kind = kind, !.there = Matching(kind)]
    /\ UNCHANGED <<process, audits, append, now>>

NextPage ==
    LET page == ListAuditEvents(reader.kind, Limit, reader.offset)
    IN  /\ reader.on
        /\ reader' = [reader EXCEPT !.on = Len(page) = Limit, !.got = @ \o page,
                                    !.offset = @ + Limit]
        /\ UNCHANGED <<process, audits, append, now>>

Next ==
    \/ \E w \in Writers :
          \/ \E kind \in Kinds, at \in {0, now} : Call(w, kind, at)
          \/ MemoryAppend(w)
          \/ \E fails \in BOOLEAN : PostgresSelect(w, fails)
          \/ PostgresInsert(w)
          \/ AppendFails(w)
    \/ \E kind \in Kinds : StartListing(kind)
    \/ NextPage
    \/ Tick

Spec == Init /\ [][Next]_vars

---------------------------------------------------------------------------
\* The events form one chain: the PrevHash of each is the EventHash of the one
\* before it, whatever requests append at the same time.  The exceptions are
\* appends to Postgres whose SELECT failed or that another INSERT overtook
\* between SELECT and INSERT; an event after them is linked again.
ChainLinked ==
    \A i \in 1..Len(audits) : i \notin forked =>
        audits[i].prev = IF i = 1 THEN NoHash ELSE audits[i - 1].hash

\* Every stored event can be verified: its EventHash is the hash of what is
\* stored, its PrevHash included, if created_at could keep the hashed time.
HashesVerify ==
    \A i \in 1..Len(audits) :
        backend = "memory" \/ audits[i].hash[2] % StoredTick = 0 =>
            audits[i].hash = computeAuditHash(audits[i])

\* Paging is exact: an operator who has read to the last page has seen every
\* event that existed when the listing began, although requests went on
\* appending, with creation times in another order than their IDs; and with the
\* store in memory no event is seen twice, because its pages are cut from the
\* oldest end, where appends do not shift offsets (in Postgres they do).
PagingExact ==
    /\ reader.kind # "none" /\ ~reader.on => reader.there \subseteq Range(reader.got)
    /\ backend = "memory" => IsInjective(reader.got)
=============================================================================
