----------------------------- MODULE TaskQueue -----------------------------
(***************************************************************************)
(* What the job engine may rely on of a task queue (the interface          *)
(* state.Queue): at-least-once delivery of refs under claims that run out. *)
(*                                                                         *)
(* Every enqueued copy of a ref is in one place.  Claims are numbered, and *)
(* their callers keep them for as long as they like; settling a claim      *)
(* touches the copy only while the claim is the current one.               *)
(***************************************************************************)
EXTENDS Naturals

CONSTANTS
    MaxCopies       \* bound: copies ever enqueued

Copy == 1..MaxCopies
Places == {"none", "waiting", "claimed", "dead", "done"}

VARIABLES
    at,         \* copy -> where it is
    holder,     \* copy -> its current claim, 0 if it is not claimed
    hands       \* the claims their callers have not settled yet

qvars == <<at, holder, hands>>

Init ==
    /\ at = [k \in Copy |-> "none"]
    /\ holder = [k \in Copy |-> 0]
    /\ hands = {}

Move(S, from, to) ==
    /\ S # {}
    /\ \A k \in S : at[k] = from
    /\ at' = [k \in Copy |-> IF k \in S THEN to ELSE at[k]]

Enqueue(S) ==
    /\ Move(S, "none", "waiting")
    /\ UNCHANGED <<holder, hands>>

\* Each copy gets a claim of its own, under a number nobody has in hands.
Claim(S) ==
    /\ Move(S, "waiting", "claimed")
    /\ \A k \in Copy : k \notin S => holder'[k] = holder[k]
    /\ \A k \in S :
          /\ \A c \in hands : c.claim # holder'[k]
          /\ \A l \in S : holder'[l] = holder'[k] => l = k
    /\ hands' = hands \cup {[claim |-> holder'[k], copy |-> k] : k \in S}

\* Callers give up claims: the copies that are still under them are done.
Ack(C) ==
    LET live == {c.copy : c \in {d \in C : holder[d.copy] = d.claim}}
    IN  /\ C # {}
        /\ hands' = hands \ C
        /\ at' = [k \in Copy |-> IF k \in live THEN "done" ELSE at[k]]
        /\ holder' = [k \in Copy |-> IF k \in live THEN 0 ELSE holder[k]]

\* Nack: the caller is rid of the claims, the queue puts the copies back or
\* dead-letters them.
Nack(C) ==
    /\ C # {}
    /\ hands' = hands \ C
    /\ UNCHANGED <<at, holder>>

Release(S, to) ==
    /\ Move(S, "claimed", to)
    /\ holder' = [k \in Copy |-> IF k \in S THEN 0 ELSE holder[k]]
    /\ UNCHANGED hands

Revive(S) ==
    /\ Move(S, "dead", "waiting")
    /\ UNCHANGED <<holder, hands>>

Next ==
    \/ \E S \in SUBSET Copy :
        \/ Enqueue(S) \/ Claim(S)
        \/ Release(S, "waiting") \/ Release(S, "dead")
        \/ Revive(S)
    \/ \E C \in SUBSET hands : Ack(C) \/ Nack(C)

\* The promise: no copy is lost, doubled or settled through a claim that is no
\* longer its own, and an unsettled claim gives its copy back.
SafetySpec == Init /\ [][Next]_qvars
Spec ==
    /\ SafetySpec
    /\ \A k \in Copy : at[k] = "claimed" ~> at[k] # "claimed"
=============================================================================
