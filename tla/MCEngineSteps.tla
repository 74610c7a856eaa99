--------------------------- MODULE MCEngineSteps ---------------------------
(* Small instances of EngineSteps for TLC. *)
EXTENDS EngineSteps, TLC

CONSTANTS j1, j2, t1, t2, w1, w2, p1, p2

\* Two tasks side by side, one after the other, and of two jobs of which the
\* second has the higher priority.
Pair ==
    [jobOf |-> [t \in Tasks |-> j1], deps |-> [t \in Tasks |-> {}],
     retries |-> [t \in Tasks |-> 0], timeout |-> {}, denied |-> {},
     rank |-> [j \in Jobs |-> 2], requests |-> {}, failures |-> 0,
     mishaps |-> 0]
Chain == [Pair EXCEPT !.deps[t2] = {t1}]
Ranked == [Pair EXCEPT !.jobOf[t2] = j2, !.rank[j2] = 3]

AllShapes == {Pair,
              Ranked,
              [Chain EXCEPT !.retries[t1] = 1, !.timeout = {t1}, !.mishaps = 1],
              [Chain EXCEPT !.requests = {"heartbeat"}, !.mishaps = 1],
              [Chain EXCEPT !.requests = {"cancel"}, !.denied = {t1}],
              [Chain EXCEPT !.failures = 1]}

FewMishaps == Cardinality(torn \cup cut) <= shape.mishaps
Symmetry == Permutations(Workers) \cup Permutations(Threads)
=============================================================================
