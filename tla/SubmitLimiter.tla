--------------------------- MODULE SubmitLimiter ---------------------------
(***************************************************************************)
(* The rate limit on job submissions (internal/api/rate_limit.go), as the  *)
(* submit handler uses it (handleJobs in internal/api/server.go).          *)
(*                                                                         *)
(* A handler reads the clock and then waits for the limiter's mutex, so    *)
(* requests reach the limiter out of the order of their times.  Times are  *)
(* whole seconds, as in the code.  The code does not bound the wait; the   *)
(* bound Skew is a parameter of the properties.                            *)
(***************************************************************************)
EXTENDS Naturals, Integers, Sequences, FiniteSets, FiniteSetsExt

CONSTANTS
    Tenants,
    Clients,        \* concurrent submit requests
    PerTenantMax,   \* perTenantMax, 0 for no limit
    GlobalMax,      \* globalMax, 0 for no limit
    Window,         \* window in seconds, 60 in the code
    Skew,           \* longest wait for the mutex, in seconds
    MaxTime         \* bound: the clock

ASSUME LimiterAssumption ==
    /\ PerTenantMax \in Nat /\ GlobalMax \in Nat
    /\ Window \in Nat /\ Skew \in Nat /\ Skew < Window
    /\ MaxTime \in Nat

VARIABLES
    tenants,    \* l.tenants: tenant -> times of accepted requests
    global,     \* l.global: times of all accepted requests
    call,       \* client -> its request, after it has read the clock
    now,        \* the clock
    accepted,   \* history: the times of all accepted requests, in mutex order
    acceptedOf  \* history: the same for each tenant

history == <<accepted, acceptedOf>>
vars == <<tenants, global, call, now, history>>

NoCall == [on |-> FALSE, tenant |-> "none", ts |-> 0]

Init ==
    /\ tenants = [t \in Tenants |-> <<>>]
    /\ global = <<>>
    /\ call = [c \in Clients |-> NoCall]
    /\ now = 0
    /\ accepted = <<>>
    /\ acceptedOf = [t \in Tenants |-> <<>>]

---------------------------------------------------------------------------
\* handleJobs up to time.Now().
Arrive(c, tenant) ==
    /\ ~call[c].on
    /\ call' = [call EXCEPT ![c] = [on |-> TRUE, tenant |-> tenant, ts |-> now]]
    /\ UNCHANGED <<tenants, global, now, history>>

\* Variant: the times of the last second of the window are dropped too.
trimEarly(in, cutoff) ==
    LET fresh == {i \in 1..Len(in) : in[i] > cutoff + 1}
    IN  IF fresh = {} THEN <<>> ELSE SubSeq(in, Min(fresh), Len(in))

\* The prefix of times up to the cutoff is dropped; an old time behind a newer
\* one stays.
trimCutoff(in, cutoff) ==
    LET fresh == {i \in 1..Len(in) : in[i] > cutoff}
    IN  IF fresh = {} THEN <<>> ELSE SubSeq(in, Min(fresh), Len(in))

Trimmed(in, c) == trimCutoff(in, call[c].ts - Window)

\* The two early returns of allow.
GlobalFull(c) == GlobalMax > 0 /\ Len(Trimmed(global, c)) >= GlobalMax
TenantFull(c) == PerTenantMax > 0 /\ Len(Trimmed(tenants[call[c].tenant], c)) >= PerTenantMax

RefuseGlobal(c) ==
    /\ call[c].on
    /\ GlobalFull(c)
    /\ global' = Trimmed(global, c)
    /\ call' = [call EXCEPT ![c] = NoCall]
    /\ UNCHANGED <<tenants, now, history>>

\* Variant: a refused request counts.
RefuseTenantCounts(c) ==
    /\ call[c].on
    /\ ~GlobalFull(c) /\ TenantFull(c)
    /\ global' = Trimmed(global, c)
    /\ tenants' = [tenants EXCEPT ![call[c].tenant] = Append(Trimmed(@, c), call[c].ts)]
    /\ call' = [call EXCEPT ![c] = NoCall]
    /\ UNCHANGED <<now, history>>

RefuseTenant(c) ==
    /\ call[c].on
    /\ ~GlobalFull(c) /\ TenantFull(c)
    /\ global' = Trimmed(global, c)
    /\ tenants' = [tenants EXCEPT ![call[c].tenant] = Trimmed(@, c)]
    /\ call' = [call EXCEPT ![c] = NoCall]
    /\ UNCHANGED <<now, history>>

\* With both limits off the lists are not touched.
Allow(c) ==
    /\ call[c].on
    /\ ~GlobalFull(c) /\ ~TenantFull(c)
    /\ IF PerTenantMax = 0 /\ GlobalMax = 0
       THEN UNCHANGED <<global, tenants>>
       ELSE /\ global' = Append(Trimmed(global, c), call[c].ts)
            /\ tenants' = [tenants EXCEPT ![call[c].tenant] = Append(Trimmed(@, c), call[c].ts)]
    /\ call' = [call EXCEPT ![c] = NoCall]
    /\ accepted' = Append(accepted, call[c].ts)
    /\ acceptedOf' = [acceptedOf EXCEPT ![call[c].tenant] = Append(@, call[c].ts)]
    /\ UNCHANGED now

\* A second passes; requests wait for the mutex at most Skew seconds.
Tick ==
    /\ now < MaxTime
    /\ \A c \in Clients : call[c].on => now < call[c].ts + Skew
    /\ now' = now + 1
    /\ UNCHANGED <<tenants, global, call, history>>

Next ==
    \/ \E c \in Clients :
          \/ \E tenant \in Tenants : Arrive(c, tenant)
          \/ RefuseGlobal(c) \/ RefuseTenant(c) \/ Allow(c)
    \/ Tick

Spec == Init /\ [][Next]_vars

---------------------------------------------------------------------------
\* The accepted requests of a history with times in first..last.
Accepted(of, first, last) == Cardinality({i \in 1..Len(of) : of[i] \in first..last})

\* The limits hold in every window: requests that waited for the mutex and
\* were overtaken do not let more than the maximum through in any span of
\* Window - Skew seconds, per tenant and over all.
LimitsHold ==
    \A t \in 0..now :
        LET first == t - (Window - Skew) + 1
        IN  /\ GlobalMax > 0 => Accepted(accepted, first, t) <= GlobalMax
            /\ PerTenantMax > 0 =>
                  \A tenant \in Tenants : Accepted(acceptedOf[tenant], first, t) <= PerTenantMax

\* Nobody is refused without reason: at a refusal the tenant, or all of them,
\* had the maximum accepted in the last Window + Skew seconds.  An old time
\* that is stuck behind a newer one is forgotten with it.
RefusalsJustified ==
    [][\A c \in Clients :
          call[c].on /\ ~call'[c].on /\ accepted' = accepted =>
              LET first == call[c].ts - (Window + Skew) + 1
              IN  \/ GlobalMax > 0 /\ Accepted(accepted, first, now) >= GlobalMax
                  \/ /\ PerTenantMax > 0
                     /\ Accepted(acceptedOf[call[c].tenant], first, now) >= PerTenantMax]_vars
=============================================================================
