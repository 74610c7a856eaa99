---------------------------- MODULE MCJobEngine ----------------------------
(* Small instances of JobEngine for TLC. *)
EXTENDS JobEngine, FiniteSets, TLC

CONSTANTS j1, j2, t1, t2, w1, w2

\* One job; t1 and t2 independent, or the chain t1 -> t2.
OneJobOf == [t \in Tasks |-> j1]
NoDeps == [t \in Tasks |-> {}]
ChainDeps == [t \in Tasks |-> IF t = t2 THEN {t1} ELSE {}]

\* One job per task, j2 with the higher priority.
TwoJobOf == t1 :> j1 @@ t2 :> j2
J2First == [j \in Jobs |-> IF j = j2 THEN 3 ELSE 1]
SameRank == [j \in Jobs |-> 2]

T1Retry == [t \in Tasks |-> IF t = t1 THEN 1 ELSE 0]
OneRetry == [t \in Tasks |-> 1]
WithTimeout == [t \in Tasks |-> TRUE]

AllEligible == [t \in Tasks |-> Workers]
FlatAffinity == [t \in Tasks |-> [w \in Workers |-> 0]]
\* w1 scores better for every task, as with a warm model cache.
PreferW1 == [t \in Tasks |-> [w \in Workers |-> IF w = w1 THEN 2 ELSE 0]]
UnitCapacity == [w \in Workers |-> 1]

\* Either two workers with every fault and one job, or two jobs, of which one
\* preempts the other, on one worker whose leases do not lapse.  Both at once
\* are too many states.
TwoWorkersOrTwoJobs ==
    \/ job[j2] = "none"
    \/ /\ Cardinality(registered) < 2
       /\ \A w \in registered : agent[w].up
       /\ \A t \in Tasks : task[t].lease # 0 => task[t].expires = "future"
       /\ \A j \in Jobs : job[j] # "Archived"

WorkerSymmetry == Permutations(Workers)
=============================================================================
