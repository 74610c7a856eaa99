---------------------------- MODULE AdminProofs ----------------------------
(***************************************************************************)
(* Proofs about the admin endpoints: AuditLog (the chain of events, its    *)
(* hashes, and what an operator who pages through it sees) for every       *)
(* number of writers and events and either store, and DeadLetterAdmin (the *)
(* rate of requeue requests, and dry runs) for every number of clients and *)
(* letters and every limit.                                                *)
(***************************************************************************)
EXTENDS AuditLog, DeadLetterAdmin, FiniteSetTheorems, TLAPS

---------------------------------------------------------------------------
(* Finite sets in an order: Ordering. *)

\* R orders S strictly and totally.
Orders(R, S) ==
    /\ \A x \in S : <<x, x>> \notin R
    /\ \A x, y \in S : x # y => <<x, y>> \in R \/ <<y, x>> \in R
    /\ \A x, y, z \in S : <<x, y>> \in R /\ <<y, z>> \in R => <<x, z>> \in R

\* The elements before x.
Rank(S, R, x) == Cardinality({y \in S : <<y, x>> \in R})

LEMMA RankType ==
    ASSUME NEW S, IsFiniteSet(S), NEW R, Orders(R, S), NEW x \in S
    PROVE  Rank(S, R, x) \in Nat /\ Rank(S, R, x) < Cardinality(S) /\ Cardinality(S) \in Nat
<1> DEFINE B == {y \in S : <<y, x>> \in R}
<1>1. B \in SUBSET S /\ x \notin B
  BY DEF Orders
<1> HIDE DEF B
<1>2. IsFiniteSet(B) /\ Cardinality(B) <= Cardinality(S) /\ (Cardinality(S) = Cardinality(B) => S = B)
  BY <1>1, FS_Subset
<1>3. Cardinality(B) \in Nat /\ Cardinality(S) \in Nat
  BY <1>2, FS_CardinalityType
<1>4. S # B
  BY <1>1
<1> QED
  BY <1>2, <1>3, <1>4 DEF Rank, B

LEMMA RanksGrow ==
    ASSUME NEW S, IsFiniteSet(S), NEW R, Orders(R, S), NEW x \in S, NEW y \in S, <<x, y>> \in R
    PROVE  Rank(S, R, x) < Rank(S, R, y)
<1> DEFINE A == {z \in S : <<z, x>> \in R}
           B == {z \in S : <<z, y>> \in R}
<1>1. A \in SUBSET B /\ B \in SUBSET S /\ x \in B /\ x \notin A
  BY DEF Orders
<1> HIDE DEF A, B
<1>2. IsFiniteSet(B)
  BY <1>1, FS_Subset
<1>3. IsFiniteSet(A) /\ Cardinality(A) <= Cardinality(B) /\ (Cardinality(B) = Cardinality(A) => B = A)
  BY <1>1, <1>2, FS_Subset
<1>4. Cardinality(A) \in Nat /\ Cardinality(B) \in Nat
  BY <1>2, <1>3, FS_CardinalityType
<1> QED
  BY <1>1, <1>3, <1>4 DEF Rank, A, B

LEMMA RanksApart ==
    ASSUME NEW S, IsFiniteSet(S), NEW R, Orders(R, S), NEW x \in S, NEW y \in S, x # y
    PROVE  Rank(S, R, x) # Rank(S, R, y)
<1>1. Rank(S, R, x) \in Nat /\ Rank(S, R, y) \in Nat
  BY RankType
<1>2. <<x, y>> \in R \/ <<y, x>> \in R
  BY DEF Orders
<1>3. Rank(S, R, x) < Rank(S, R, y) \/ Rank(S, R, y) < Rank(S, R, x)
  BY <1>2, RanksGrow
<1> QED
  BY <1>1, <1>3

\* Every rank below the number of elements is that of an element.
LEMMA RanksOnto ==
    ASSUME NEW S, IsFiniteSet(S), NEW R, Orders(R, S), NEW n \in 1..Cardinality(S)
    PROVE  \E x \in S : Rank(S, R, x) = n - 1
<1> DEFINE c == Cardinality(S)
           T == 1..c
           f == [x \in S |-> Rank(S, R, x) + 1]
<1>1. c \in Nat
  BY FS_CardinalityType
<1>2. ASSUME NEW x \in S PROVE f[x] \in T /\ f[x] = Rank(S, R, x) + 1
  <2>1. Rank(S, R, x) \in Nat /\ Rank(S, R, x) < c
    BY RankType
  <2> QED
    BY <1>1, <2>1
<1>3. ASSUME NEW x \in S, NEW y \in S, f[x] = f[y] PROVE x = y
  <2>1. Rank(S, R, x) \in Nat /\ Rank(S, R, y) \in Nat
    BY RankType
  <2>2. Rank(S, R, x) = Rank(S, R, y)
    BY <1>2, <1>3, <2>1
  <2> QED
    BY <2>2, RanksApart
<1>4. IsFiniteSet(T) /\ Cardinality(T) = c
  <2>1. /\ IsFiniteSet(1..c) /\ Cardinality(1..c) = IF 1 > c THEN 0 ELSE c - 1 + 1
    BY <1>1, FS_Interval
  <2>2. (IF 1 > c THEN 0 ELSE c - 1 + 1) = c
    BY <1>1
  <2> QED
    BY <2>1, <2>2
<1>5. f \in Injection(S, T)
  <2>1. f \in [S -> T]
    BY <1>2
  <2> QED
    BY <1>3, <2>1 DEF Injection, IsInjective
<1> HIDE DEF T
<1>6. f \in Surjection(S, T)
  <2>1. PICK g : g = f
    OBVIOUS
  <2>2. g \in Injection(S, T) /\ Cardinality(S) = Cardinality(T)
    BY <1>4, <1>5, <2>1
  <2>3. g \in Surjection(S, T)
    BY <1>4, <2>2, FS_Injection
  <2> QED
    BY <2>1, <2>3
<1>7. PICK x \in S : f[x] = n
  <2>1. n \in T
    BY DEF T
  <2> QED
    BY <1>6, <2>1 DEF Surjection
<1>8. Rank(S, R, x) \in Nat /\ Rank(S, R, x) + 1 = n
  BY <1>2, <1>7, RankType
<1>9. Rank(S, R, x) = n - 1
  BY <1>8
<1> QED
  BY <1>9

\* q is S in the order R.
Lists(q, S, R) ==
    /\ q \in [1..Cardinality(S) -> S]
    /\ \A n \in 1..Cardinality(S) : Rank(S, R, q[n]) = n - 1
    /\ \A x \in S : Rank(S, R, x) + 1 \in 1..Cardinality(S) /\ q[Rank(S, R, x) + 1] = x

LEMMA RanksList ==
    ASSUME NEW S, IsFiniteSet(S), NEW R, Orders(R, S), NEW q \in [1..Cardinality(S) -> S],
           \A n \in 1..Cardinality(S) : Rank(S, R, q[n]) = n - 1
    PROVE  Lists(q, S, R)
<1>2. ASSUME NEW x \in S
      PROVE  Rank(S, R, x) + 1 \in 1..Cardinality(S) /\ q[Rank(S, R, x) + 1] = x
  <2>1. Rank(S, R, x) \in Nat /\ Rank(S, R, x) < Cardinality(S) /\ Cardinality(S) \in Nat
    BY RankType
  <2>2. PICK n : n = Rank(S, R, x) + 1
    OBVIOUS
  <2>3. n \in 1..Cardinality(S) /\ n - 1 = Rank(S, R, x)
    BY <2>1, <2>2
  <2>4. q[n] \in S /\ Rank(S, R, q[n]) = Rank(S, R, x)
    BY <2>3
  <2>5. q[n] = x
    BY <2>4, RanksApart
  <2> QED
    BY <2>2, <2>3, <2>5
<1> QED
  BY <1>2 DEF Lists

\* The numbers of S in their order.
LessOn(S) == {p \in S \X S : p[1] < p[2]}

LEMMA LessOrders ==
    ASSUME NEW S \in SUBSET Int
    PROVE  Orders(LessOn(S), S) /\ \A x, y \in S : <<y, x>> \in LessOn(S) <=> y < x
BY DEF Orders, LessOn

LEMMA LessSorted ==
    ASSUME NEW S \in SUBSET Int, IsFiniteSet(S), NEW q,
           q = [n \in 1..Cardinality(S) |->
                  CHOOSE x \in S : Cardinality({y \in S : y < x}) = n - 1]
    PROVE  Lists(q, S, LessOn(S))
<1>1. PICK R : R = LessOn(S)
  OBVIOUS
<1>2. Orders(R, S) /\ \A x, y \in S : <<y, x>> \in R <=> y < x
  BY <1>1, LessOrders
<1>3. \A x \in S : Rank(S, R, x) = Cardinality({y \in S : y < x})
  <2>1. \A x \in S : {y \in S : <<y, x>> \in R} = {y \in S : y < x}
    BY <1>2
  <2> QED
    BY <2>1 DEF Rank
<1>4. ASSUME NEW n \in 1..Cardinality(S) PROVE q[n] \in S /\ Rank(S, R, q[n]) = n - 1
  <2>1. q[n] = CHOOSE x \in S : Cardinality({y \in S : y < x}) = n - 1
    OBVIOUS
  <2>2. PICK x \in S : Rank(S, R, x) = n - 1
    BY <1>2, RanksOnto
  <2>3. Cardinality({y \in S : y < x}) = n - 1
    BY <1>3, <2>2
  <2>4. q[n] \in S /\ Cardinality({y \in S : y < q[n]}) = n - 1
    BY <2>1, <2>3
  <2> QED
    BY <1>3, <2>4
<1>5. q \in [1..Cardinality(S) -> S]
  BY <1>4
<1> QED
  BY <1>1, <1>2, <1>4, <1>5, RanksList

---------------------------------------------------------------------------
(* AuditLog: the chain. *)

\* The hashes somebody may have read: of no event or of a stored one.
Hashes == {NoHash} \cup {audits[i].hash : i \in 1..Len(audits)}

\* The types of the log, of the calls and of the clock.
TypeInv ==
    /\ audits \in Seq(Range(audits))
    /\ append \in [Writers -> [stage : {"off", "called", "selected"},
                               kind : Kinds \cup {"none"}, at : Nat, prev : Hashes,
                               raced : BOOLEAN]]
    /\ now \in Nat

\* A call that has read the last hash, with no INSERT after it, still has the
\* last hash; only Postgres has calls that have read one.
SelectedSeesLast ==
    \A w \in Writers : append[w].stage = "selected" =>
        /\ backend = "postgres"
        /\ append[w].raced \/ append[w].prev = LastHash

\* Appending an event.
LEMMA AppendEvent ==
    ASSUME NEW s, s \in Seq(Range(s)), NEW e
    PROVE  LET t == Append(s, e)
           IN  /\ t \in Seq(Range(t))
               /\ Len(t) = Len(s) + 1
               /\ Len(s) \in Nat
               /\ \A i \in 1..Len(s) : t[i] = s[i]
               /\ t[Len(s) + 1] = e
<1> DEFINE t == Append(s, e)
<1>1. s \in Seq(Range(s) \cup {e})
  OBVIOUS
<1>2. t \in Seq(Range(s) \cup {e}) /\ Len(t) = Len(s) + 1 /\ Len(s) \in Nat
  BY <1>1
<1>3. \A i \in 1..Len(s) : t[i] = s[i]
  BY <1>1
<1>4. t[Len(s) + 1] = e
  BY <1>1
<1>5. t \in Seq(Range(t))
  <2> HIDE DEF t
  <2>1. \A i \in 1..Len(t) : t[i] \in Range(t)
    BY <1>2 DEF Range
  <2> QED
    BY <1>2, <2>1
<1> QED
  BY <1>2, <1>3, <1>4, <1>5

LEMMA InitTypeInv == Init => TypeInv /\ SelectedSeesLast
<1> SUFFICES ASSUME Init PROVE TypeInv /\ SelectedSeesLast
  OBVIOUS
<1>1. audits \in Seq(Range(audits)) /\ Len(audits) = 0
  BY DEF Init
<1>2. append \in [Writers -> [stage : {"off", "called", "selected"},
                              kind : Kinds \cup {"none"}, at : Nat, prev : Hashes,
                              raced : BOOLEAN]]
  BY DEF Init, NoCall, Hashes
<1> QED
  BY <1>1, <1>2, AuditAssumption DEF Init, TypeInv, SelectedSeesLast, NoCall

\* A step that appends the event e keeps the types of what it leaves alone.
LEMMA HashesGrow ==
    ASSUME TypeInv, NEW e, audits' = Append(audits, e)
    PROVE  /\ audits' \in Seq(Range(audits'))
           /\ Hashes \subseteq Hashes'
           /\ LastHash' = e.hash
           /\ Len(audits') = Len(audits) + 1
           /\ Len(audits) \in Nat
           /\ \A i \in 1..Len(audits) : audits'[i] = audits[i]
           /\ audits'[Len(audits) + 1] = e
<1>1. /\ audits' \in Seq(Range(audits'))
      /\ Len(audits') = Len(audits) + 1
      /\ Len(audits) \in Nat
      /\ \A i \in 1..Len(audits) : audits'[i] = audits[i]
      /\ audits'[Len(audits) + 1] = e
  <2>1. audits \in Seq(Range(audits))
    BY DEF TypeInv
  <2>2. LET t == Append(audits, e)
        IN  /\ t \in Seq(Range(t))
            /\ Len(t) = Len(audits) + 1
            /\ Len(audits) \in Nat
            /\ \A i \in 1..Len(audits) : t[i] = audits[i]
            /\ t[Len(audits) + 1] = e
    BY <2>1, AppendEvent
  <2> QED
    BY <2>2
<1>2. Hashes \subseteq Hashes'
  BY <1>1 DEF Hashes
<1>3. LastHash' = e.hash
  BY <1>1 DEF LastHash, Last
<1> QED
  BY <1>1, <1>2, <1>3

\* The last hash is one of the hashes.
LEMMA LastHashType == ASSUME TypeInv PROVE LastHash \in Hashes
<1>1. Len(audits) \in Nat /\ (audits # <<>> => Len(audits) \in 1..Len(audits))
  BY DEF TypeInv
<1> QED
  BY <1>1 DEF LastHash, Last, Hashes

CallTypes == [stage : {"off", "called", "selected"}, kind : Kinds \cup {"none"}, at : Nat,
              prev : Hashes, raced : BOOLEAN]

LEMMA NoCallType == NoCall \in CallTypes
BY DEF NoCall, CallTypes, Hashes

\* PostgresInsert may find its call overtaken, and overtakes the others.
LEMMA StepTypeInv == TypeInv /\ SelectedSeesLast /\ [Next]_vars => TypeInv' /\ SelectedSeesLast'
<1> SUFFICES ASSUME TypeInv, SelectedSeesLast, [Next]_vars
             PROVE  TypeInv' /\ SelectedSeesLast'
  OBVIOUS
<1>1. /\ audits \in Seq(Range(audits))
      /\ append \in [Writers -> CallTypes]
      /\ now \in Nat
  BY DEF TypeInv, CallTypes
<1>2. ASSUME audits' \in Seq(Range(audits')), append' \in [Writers -> CallTypes'], now' \in Nat
      PROVE  TypeInv'
  BY <1>2 DEF TypeInv, CallTypes
<1>3. ASSUME UNCHANGED audits PROVE Hashes' = Hashes /\ CallTypes' = CallTypes /\ LastHash' = LastHash
  BY <1>3 DEF Hashes, CallTypes, LastHash
<1>4. ASSUME NEW e, audits' = Append(audits, e), NEW c \in CallTypes PROVE c \in CallTypes'
  <2>1. Hashes \subseteq Hashes'
    BY <1>4, HashesGrow
  <2> QED
    BY <2>1, <1>4 DEF CallTypes
<1>5. CASE UNCHANGED vars
  <2>1. TypeInv'
    BY <1>1, <1>2, <1>3, <1>5 DEF vars
  <2>2. SelectedSeesLast'
    BY <1>3, <1>5 DEF vars, SelectedSeesLast
  <2> QED
    BY <2>1, <2>2
<1>6. ASSUME NEW w \in Writers, NEW k \in Kinds, NEW t \in {0, now}, Call(w, k, t)
      PROVE  TypeInv' /\ SelectedSeesLast'
  <2>1. UNCHANGED <<audits, now, backend>>
    BY <1>6 DEF Call, process
  <2>2. append' = [append EXCEPT ![w] =
                      [NoCall EXCEPT !.stage = "called", !.kind = k, !.at = t]]
    BY <1>6 DEF Call
  <2>3. [NoCall EXCEPT !.stage = "called", !.kind = k, !.at = t] \in CallTypes
    <3>1. t \in Nat /\ k \in Kinds \cup {"none"} /\ NoHash \in Hashes
      BY <1>1 DEF Hashes
    <3> QED
      BY <3>1, NoCallType DEF CallTypes
  <2>4. TypeInv'
    BY <1>1, <1>2, <1>3, <2>1, <2>2, <2>3
  <2>5. SelectedSeesLast'
    <3> SUFFICES ASSUME NEW v \in Writers, append'[v].stage = "selected"
                 PROVE  backend' = "postgres" /\ (append'[v].raced \/ append'[v].prev = LastHash')
      BY DEF SelectedSeesLast
    <3>1. v # w /\ append'[v] = append[v]
      BY <1>1, <2>2 DEF NoCall
    <3> QED
      BY <3>1, <1>3, <2>1 DEF SelectedSeesLast
  <2> QED
    BY <2>4, <2>5
<1>7. ASSUME NEW w \in Writers, MemoryAppend(w) PROVE TypeInv' /\ SelectedSeesLast'
  <2> DEFINE e == Sealed(Stamped(append[w]), LastHash)
  <2>1. audits' = Append(audits, e) /\ UNCHANGED <<now, backend>> /\ backend = "memory"
    BY <1>7 DEF MemoryAppend, process
  <2>2. append' = [append EXCEPT ![w] = NoCall]
    BY <1>7 DEF MemoryAppend
  <2>3. TypeInv'
    <3>1. \A v \in Writers : append'[v] \in CallTypes'
      BY <1>1, <1>4, <2>1, <2>2, NoCallType
    <3>2. append' \in [Writers -> CallTypes']
      BY <1>1, <2>2, <3>1
    <3> QED
      BY <1>1, <1>2, <2>1, <3>2, HashesGrow
  <2>4. SelectedSeesLast'
    BY <1>1, <2>1, <2>2 DEF SelectedSeesLast, NoCall
  <2> QED
    BY <2>3, <2>4
<1>8. ASSUME NEW w \in Writers, NEW fails \in BOOLEAN, PostgresSelect(w, fails)
      PROVE  TypeInv' /\ SelectedSeesLast'
  <2> DEFINE c == [Stamped(append[w]) EXCEPT !.stage = "selected", !.raced = fails,
                                             !.prev = IF fails THEN NoHash ELSE LastHash]
  <2>1. UNCHANGED <<audits, now, backend>> /\ backend = "postgres"
    BY <1>8 DEF PostgresSelect, process
  <2>2. append' = [append EXCEPT ![w] = c]
    BY <1>8 DEF PostgresSelect
  <2>3. append[w] \in CallTypes /\ LastHash \in Hashes
    BY <1>1, LastHashType
  <2>4. c \in CallTypes /\ (fails \/ c.prev = LastHash) /\ c.raced = fails
    BY <1>1, <2>3 DEF Stamped, CallTypes, Hashes
  <2>5. TypeInv'
    BY <1>1, <1>2, <1>3, <2>1, <2>2, <2>4
  <2>6. SelectedSeesLast'
    BY <1>1, <1>3, <2>1, <2>2, <2>4 DEF SelectedSeesLast
  <2> QED
    BY <2>5, <2>6
<1>9. ASSUME NEW w \in Writers, PostgresInsert(w) PROVE TypeInv' /\ SelectedSeesLast'
  <2> DEFINE e == Stored(Sealed(append[w], append[w].prev))
  <2>1. audits' = Append(audits, e) /\ UNCHANGED <<now, backend>>
    BY <1>9 DEF PostgresInsert
  <2>2. append' = [v \in Writers |->
          IF v = w THEN NoCall
          ELSE [append[v] EXCEPT !.raced = @ \/ append[v].stage = "selected"]]
    BY <1>9 DEF PostgresInsert
  <2>3. ASSUME NEW v \in Writers
        PROVE  /\ append'[v] \in CallTypes
               /\ append'[v].stage = "selected" =>
                     append[v].stage = "selected" /\ append'[v].raced
    <3>1. append[v] \in CallTypes
      BY <1>1
    <3> QED
      BY <2>2, <3>1, NoCallType DEF CallTypes, NoCall
  <2>4. TypeInv'
    <3>1. \A v \in Writers : append'[v] \in CallTypes'
      BY <1>4, <2>1, <2>3
    <3>2. append' \in [Writers -> CallTypes']
      BY <2>2, <3>1
    <3> QED
      BY <1>1, <1>2, <2>1, <3>2, HashesGrow
  <2>5. SelectedSeesLast'
    BY <2>1, <2>3 DEF SelectedSeesLast
  <2> QED
    BY <2>4, <2>5
<1>10. ASSUME NEW w \in Writers, AppendFails(w) PROVE TypeInv' /\ SelectedSeesLast'
  <2>1. UNCHANGED <<audits, now, backend>> /\ append' = [append EXCEPT ![w] = NoCall]
    BY <1>10 DEF AppendFails, process
  <2>2. TypeInv'
    BY <1>1, <1>2, <1>3, <2>1, NoCallType
  <2>3. SelectedSeesLast'
    BY <1>1, <1>3, <2>1 DEF SelectedSeesLast, NoCall
  <2> QED
    BY <2>2, <2>3
<1>11. ASSUME UNCHANGED <<audits, append, backend>>, now' \in Nat
       PROVE  TypeInv' /\ SelectedSeesLast'
  <2>1. TypeInv'
    BY <1>1, <1>2, <1>3, <1>11
  <2>2. SelectedSeesLast'
    BY <1>3, <1>11 DEF SelectedSeesLast
  <2> QED
    BY <2>1, <2>2
<1>12. CASE Tick
  BY <1>1, <1>11, <1>12 DEF Tick, process
<1>13. CASE NextPage
  BY <1>1, <1>11, <1>13 DEF NextPage, process
<1>14. ASSUME NEW kind \in Kinds, StartListing(kind) PROVE TypeInv' /\ SelectedSeesLast'
  BY <1>1, <1>11, <1>14 DEF StartListing, process
<1> QED
  BY <1>5, <1>6, <1>7, <1>8, <1>9, <1>10, <1>12, <1>13, <1>14 DEF Next

---------------------------------------------------------------------------
\* An event whose call nobody overtook is linked to the event before it.
LEMMA StepLinked ==
    ASSUME TypeInv, ChainLinked, NEW e, audits' = Append(audits, e), forked \subseteq forked',
           Len(audits) + 1 \in forked' \/ e.prev = LastHash
    PROVE  ChainLinked'
<1>1. /\ Len(audits') = Len(audits) + 1
      /\ Len(audits) \in Nat
      /\ \A i \in 1..Len(audits) : audits'[i] = audits[i]
      /\ audits'[Len(audits) + 1] = e
  BY HashesGrow
<1> SUFFICES ASSUME NEW i \in 1..Len(audits'), i \notin forked'
             PROVE  audits'[i].prev = IF i = 1 THEN NoHash ELSE audits'[i - 1].hash
  BY DEF ChainLinked, NoHash
<1>2. CASE i \in 1..Len(audits)
  <2>1. i = 1 \/ i - 1 \in 1..Len(audits)
    BY <1>1, <1>2
  <2> QED
    BY <1>1, <1>2, <2>1 DEF ChainLinked
<1>3. CASE i = Len(audits) + 1
  <2>1. e.prev = LastHash
    BY <1>3
  <2>2. CASE Len(audits) = 0
    <3>1. audits = <<>>
      BY <2>2 DEF TypeInv
    <3> QED
      BY <1>1, <1>3, <2>1, <2>2, <3>1 DEF LastHash
  <2>3. CASE Len(audits) # 0
    <3>1. audits # <<>> /\ i # 1 /\ i - 1 = Len(audits) /\ i - 1 \in 1..Len(audits)
      BY <1>1, <1>3, <2>3
    <3> QED
      BY <1>1, <1>3, <2>1, <3>1 DEF LastHash, Last
  <2> QED
    BY <2>2, <2>3
<1> QED
  BY <1>1, <1>2, <1>3

\* Every event of AuditLog is linked to its predecessor, except those whose
\* call to Postgres was overtaken: AppendAuditEvent of both stores.
THEOREM ChainIsLinked == Spec => []ChainLinked
<1>1. Init => ChainLinked
  BY DEF Init, ChainLinked
<1>2. TypeInv /\ SelectedSeesLast /\ ChainLinked /\ [Next]_vars => ChainLinked'
  <2> SUFFICES ASSUME TypeInv, SelectedSeesLast, ChainLinked, [Next]_vars PROVE ChainLinked'
    OBVIOUS
  <2>1. ASSUME UNCHANGED <<audits, forked>> PROVE ChainLinked'
    BY <2>1 DEF ChainLinked
  <2>2. ASSUME NEW w \in Writers, MemoryAppend(w) PROVE ChainLinked'
    <3> DEFINE e == Sealed(Stamped(append[w]), LastHash)
    <3>1. audits' = Append(audits, e) /\ UNCHANGED forked /\ e.prev = LastHash
      BY <2>2 DEF MemoryAppend, process, Sealed
    <3> QED
      BY <3>1, StepLinked
  <2>3. ASSUME NEW w \in Writers, PostgresInsert(w) PROVE ChainLinked'
    <3> DEFINE e == Stored(Sealed(append[w], append[w].prev))
    <3>1. audits' = Append(audits, e) /\ e.prev = append[w].prev
      BY <2>3 DEF PostgresInsert, Sealed, Stored
    <3>2. forked' = IF append[w].raced THEN forked \cup {Len(audits) + 1} ELSE forked
      BY <2>3 DEF PostgresInsert
    <3>3. append[w].raced \/ append[w].prev = LastHash
      BY <2>3 DEF PostgresInsert, SelectedSeesLast
    <3> HIDE DEF e
    <3> QED
      BY <3>1, <3>2, <3>3, StepLinked
  <2> QED
    BY <2>1, <2>2, <2>3
    DEF Next, vars, process, Call, PostgresSelect, AppendFails, StartListing, NextPage, Tick
<1> QED
  BY <1>1, <1>2, InitTypeInv, StepTypeInv, PTL DEF Spec

\* Storing an event keeps what was verified of the others.
LEMMA StepVerify ==
    ASSUME TypeInv, HashesVerify, UNCHANGED backend, NEW e, audits' = Append(audits, e),
           backend = "memory" \/ e.hash[2] % StoredTick = 0 => e.hash = computeAuditHash(e)
    PROVE  HashesVerify'
<1>1. /\ Len(audits') = Len(audits) + 1
      /\ Len(audits) \in Nat
      /\ \A i \in 1..Len(audits) : audits'[i] = audits[i]
      /\ audits'[Len(audits) + 1] = e
  BY HashesGrow
<1> SUFFICES ASSUME NEW i \in 1..Len(audits'),
                    backend = "memory" \/ audits'[i].hash[2] % StoredTick = 0
             PROVE  audits'[i].hash = computeAuditHash(audits'[i])
  BY DEF HashesVerify, computeAuditHash
<1>2. CASE i \in 1..Len(audits)
  BY <1>1, <1>2 DEF HashesVerify
<1>3. CASE i = Len(audits) + 1
  BY <1>1, <1>3
<1> QED
  BY <1>1, <1>2, <1>3

\* Every stored event has the hash of what is stored, if created_at could keep
\* the time that was hashed: EventHash is computed after PrevHash is set.
THEOREM HashesAreVerifiable == Spec => []HashesVerify
<1>1. Init => HashesVerify
  BY DEF Init, HashesVerify
<1>2. TypeInv /\ SelectedSeesLast /\ HashesVerify /\ [Next]_vars => HashesVerify'
  <2> SUFFICES ASSUME TypeInv, SelectedSeesLast, HashesVerify, [Next]_vars PROVE HashesVerify'
    OBVIOUS
  <2>1. ASSUME UNCHANGED <<audits, backend>> PROVE HashesVerify'
    BY <2>1 DEF HashesVerify
  <2>2. ASSUME NEW w \in Writers, MemoryAppend(w) PROVE HashesVerify'
    <3> DEFINE e == Sealed(Stamped(append[w]), LastHash)
    <3>1. audits' = Append(audits, e) /\ UNCHANGED backend
      BY <2>2 DEF MemoryAppend, process
    <3>2. append[w] \in CallTypes
      BY DEF TypeInv, CallTypes
    <3>3. e.hash = computeAuditHash(e)
      BY <3>2 DEF Sealed, Stamped, computeAuditHash, CallTypes
    <3> HIDE DEF e
    <3> QED
      BY <3>1, <3>3, StepVerify
  <2>3. ASSUME NEW w \in Writers, PostgresInsert(w) PROVE HashesVerify'
    <3> DEFINE c == append[w]
               e == Stored(Sealed(c, c.prev))
    <3>1. audits' = Append(audits, e) /\ UNCHANGED backend /\ backend = "postgres"
      BY <2>3 DEF PostgresInsert, SelectedSeesLast
    <3>2. c \in CallTypes
      BY DEF TypeInv, CallTypes
    <3> HIDE DEF c
    <3>3. /\ e.kind = c.kind /\ e.prev = c.prev
          /\ e.at = c.at - (c.at % StoredTick)
          /\ e.hash = <<c.kind, c.at, c.prev>>
      BY <3>2 DEF Stored, Sealed, computeAuditHash, CallTypes
    <3>4. c.at \in Nat
      BY <3>2 DEF CallTypes
    <3> HIDE DEF e
    <3>5. ASSUME c.at % StoredTick = 0 PROVE e.at = c.at
      BY <3>3, <3>4, <3>5
    <3>6. e.hash[2] % StoredTick = 0 => e.hash = computeAuditHash(e)
      BY <3>3, <3>5 DEF computeAuditHash
    <3> QED
      BY <3>1, <3>6, StepVerify
  <2> QED
    BY <2>1, <2>2, <2>3
    DEF Next, vars, process, Call, PostgresSelect, AppendFails, StartListing, NextPage, Tick
<1> QED
  BY <1>1, <1>2, InitTypeInv, StepTypeInv, PTL DEF Spec

---------------------------------------------------------------------------
(* AuditLog: paging. *)

\* The page p of the elements of S in the order R, from offset on.
Pages(p, S, R, offset) ==
    /\ p \in Seq(S) /\ Len(p) \in Nat /\ DOMAIN p = 1..Len(p) /\ Len(p) <= Limit
    /\ Len(p) # Limit => Cardinality(S) < offset + Limit
    /\ \A n \in 1..Len(p) : /\ p[n] \in S
                            /\ offset <= Rank(S, R, p[n]) /\ Rank(S, R, p[n]) < offset + Limit
    /\ \A m, n \in 1..Len(p) : p[m] = p[n] => m = n
    /\ \A x \in S : offset <= Rank(S, R, x) /\ Rank(S, R, x) < offset + Limit =>
          \E n \in 1..Len(p) : p[n] = x

LEMMA SlicePages ==
    ASSUME NEW S, IsFiniteSet(S), NEW R, Orders(R, S), NEW q, Lists(q, S, R),
           NEW offset \in Nat, NEW p, p = Slice(q, Limit, offset)
    PROVE  Pages(p, S, R, offset)
<1> DEFINE c == Cardinality(S)
           hi == IF offset + Limit < c THEN offset + Limit ELSE c
<1>1. c \in Nat /\ Limit \in Nat /\ Limit > 0
  BY AuditAssumption, FS_CardinalityType
<1>2. q \in [1..c -> S]
  BY DEF Lists
<1> HIDE DEF c
<1>3. q \in Seq(S) /\ Len(q) = c
  BY <1>1, <1>2
<1>4. p = SubSeq(q, offset + 1, hi) /\ hi \in Nat /\ hi <= c /\ hi <= offset + Limit
  BY <1>1, <1>3 DEF Slice
<1>5. hi < offset + Limit => c < offset + Limit /\ hi = c
  BY <1>1
<1> HIDE DEF hi
<1>6. PICK m : m = IF offset + 1 <= hi THEN hi - offset ELSE 0
  OBVIOUS
<1>7. m \in Nat /\ m <= Limit /\ (m # Limit => c < offset + Limit)
      /\ \A n \in 1..m : offset + n \in 1..c /\ n \in Int
  BY <1>1, <1>4, <1>5, <1>6
<1>8. p \in Seq(S) /\ Len(p) = m /\ DOMAIN p = 1..m /\ \A n \in 1..m : p[n] = q[offset + n]
  BY <1>1, <1>3, <1>4, <1>6
<1>9. ASSUME NEW n \in 1..m PROVE p[n] \in S /\ Rank(S, R, p[n]) = offset + n - 1
  <2>1. PICK k : k = offset + n
    OBVIOUS
  <2>2. k \in 1..c /\ p[n] = q[k]
    BY <1>7, <1>8, <2>1
  <2>3. q[k] \in S /\ Rank(S, R, q[k]) = k - 1
    BY <2>2 DEF Lists, c
  <2> QED
    BY <2>1, <2>2, <2>3
<1>10. ASSUME NEW n \in 1..m
       PROVE  offset <= Rank(S, R, p[n]) /\ Rank(S, R, p[n]) < offset + Limit
  BY <1>1, <1>7, <1>9
<1>11. ASSUME NEW k \in 1..m, NEW n \in 1..m, p[k] = p[n] PROVE k = n
  <2>1. offset + k - 1 = offset + n - 1 /\ k \in Int /\ n \in Int
    BY <1>7, <1>9, <1>11
  <2> QED
    BY <2>1
<1>12. ASSUME NEW x \in S, offset <= Rank(S, R, x), Rank(S, R, x) < offset + Limit
       PROVE  \E n \in 1..m : p[n] = x
  <2>1. PICK r : r = Rank(S, R, x)
    OBVIOUS
  <2>2. r \in Nat /\ r < c /\ q[r + 1] = x
    BY <2>1, RankType DEF Lists, c
  <2>3. r + 1 - offset \in 1..m /\ offset + (r + 1 - offset) = r + 1
    BY <1>1, <1>4, <1>5, <1>6, <1>12, <2>1, <2>2
  <2>4. p[r + 1 - offset] = x
    BY <1>8, <2>2, <2>3
  <2> QED
    BY <2>3, <2>4
<1> QED
  BY <1>7, <1>8, <1>9, <1>10, <1>11, <1>12 DEF Pages, c

LEMMA ReversedPages ==
    ASSUME NEW S, NEW R, NEW offset \in Nat, NEW p, Pages(p, S, R, offset),
           NEW q, q = Reverse(p)
    PROVE  Pages(q, S, R, offset)
<1>1. PICK m : m = Len(p)
  OBVIOUS
<1>2. m \in Nat
  BY <1>1 DEF Pages
<1>3. q = [i \in 1..m |-> p[(m - i) + 1]]
  BY <1>1 DEF Reverse
<1>4. Len(q) = m /\ DOMAIN q = 1..m
  BY <1>2, <1>3
<1>5. \A i \in 1..m : (m - i) + 1 \in 1..m /\ (m - ((m - i) + 1)) + 1 = i
  BY <1>2
<1>6. \A i \in 1..m : q[i] = p[(m - i) + 1]
  BY <1>3
<1>7. ASSUME NEW i \in 1..m, NEW j \in 1..m, q[i] = q[j] PROVE i = j
  <2>1. \A k, n \in 1..m : p[k] = p[n] => k = n
    BY <1>1 DEF Pages
  <2>2. (m - i) + 1 = (m - j) + 1
    BY <1>5, <1>6, <1>7, <2>1
  <2> QED
    BY <1>2, <2>2
<1>8. ASSUME NEW x \in S, offset <= Rank(S, R, x), Rank(S, R, x) < offset + Limit
      PROVE  \E n \in 1..m : q[n] = x
  <2>1. PICK n \in 1..m : p[n] = x
    BY <1>1, <1>8 DEF Pages
  <2>2. q[(m - n) + 1] = x
    BY <1>5, <1>6, <2>1
  <2> QED
    BY <1>5, <2>2
<1>9. \A n \in 1..m : /\ q[n] \in S
                      /\ offset <= Rank(S, R, q[n]) /\ Rank(S, R, q[n]) < offset + Limit
  BY <1>1, <1>5, <1>6 DEF Pages
<1>10. m <= Limit /\ (m # Limit => Cardinality(S) < offset + Limit)
  BY <1>1 DEF Pages
<1>11. q \in Seq(S)
  BY <1>2, <1>3, <1>6, <1>9
<1> QED
  BY <1>2, <1>4, <1>7, <1>8, <1>9, <1>10, <1>11 DEF Pages

\* Elements that are added come later, or before.
LEMMA RankLater ==
    ASSUME NEW S, NEW T, IsFiniteSet(T), S \subseteq T, NEW R, NEW Q, NEW x \in S,
           \A y \in S : <<y, x>> \in R <=> <<y, x>> \in Q
    PROVE  /\ Rank(S, R, x) <= Rank(T, Q, x)
           /\ (\A y \in T \ S : <<y, x>> \notin Q) => Rank(S, R, x) = Rank(T, Q, x)
<1> DEFINE A == {y \in S : <<y, x>> \in R}
           B == {y \in T : <<y, x>> \in Q}
<1>1. A \in SUBSET B /\ B \in SUBSET T
  OBVIOUS
<1>2. (\A y \in T \ S : <<y, x>> \notin Q) => A = B
  OBVIOUS
<1>3. Rank(S, R, x) = Cardinality(A) /\ Rank(T, Q, x) = Cardinality(B)
  BY DEF Rank
<1> HIDE DEF A, B
<1>4. IsFiniteSet(B)
  BY <1>1, FS_Subset
<1>5. Cardinality(A) <= Cardinality(B)
  BY <1>1, <1>4, FS_Subset
<1> QED
  BY <1>2, <1>3, <1>5

\* The order of a listing.
Order(kind) ==
    IF backend = "memory" THEN LessOn(Matching(kind))
    ELSE {p \in Matching(kind) \X Matching(kind) : Later(p[1], p[2])}

TimesAreNumbers == \A i \in 1..Len(audits) : audits[i].at \in Int

\* The matching events are finitely many and ordered.
Ordered(kind) ==
    /\ Matching(kind) \in SUBSET Int /\ IsFiniteSet(Matching(kind))
    /\ Orders(Order(kind), Matching(kind))

LEMMA ListingOrder ==
    ASSUME TypeInv, TimesAreNumbers, NEW kind
    PROVE  Ordered(kind)
<1> DEFINE S == Matching(kind)
<1>1. Len(audits) \in Nat
  BY DEF TypeInv
<1>2. S \in SUBSET (1..Len(audits)) /\ S \in SUBSET Int
  BY <1>1 DEF Matching
<1>3. IsFiniteSet(S)
  <2>1. IsFiniteSet(1..Len(audits))
    BY <1>1, FS_Interval
  <2> QED
    BY <1>2, <2>1, FS_Subset
<1>4. CASE backend = "memory"
  <2>1. Orders(LessOn(S), S)
    BY <1>2, LessOrders
  <2> QED
    BY <1>2, <1>3, <1>4, <2>1 DEF Order, Ordered
<1>5. CASE backend # "memory"
  <2>1. PICK R : R = {p \in S \X S : Later(p[1], p[2])}
    OBVIOUS
  <2>2. \A i \in S : i \in Int /\ audits[i].at \in Int
    BY <1>2 DEF TimesAreNumbers
  <2>3. \A x, y \in S : <<x, y>> \in R <=> Later(x, y)
    BY <2>1
  <2> HIDE DEF S
  <2>4. Orders(R, S)
    BY <2>2, <2>3 DEF Orders, Later
  <2> QED
    BY <1>2, <1>3, <1>5, <2>1, <2>4 DEF Order, Ordered, S
<1> QED
  BY <1>4, <1>5

LEMMA PageFacts ==
    ASSUME TypeInv, TimesAreNumbers, NEW kind, NEW offset \in Nat,
           NEW page, page = ListAuditEvents(kind, Limit, offset)
    PROVE  Pages(page, Matching(kind), Order(kind), offset)
<1>1. PICK S, R : S = Matching(kind) /\ R = Order(kind)
  OBVIOUS
<1>2. S \in SUBSET Int /\ IsFiniteSet(S) /\ Orders(R, S)
  BY <1>1, ListingOrder DEF Ordered
<1>3. CASE backend = "memory"
  <2>1. R = LessOn(S)
    BY <1>1, <1>3 DEF Order
  <2>2. PICK q, p : q = Sorted(S, Less) /\ p = Slice(q, Limit, offset)
    OBVIOUS
  <2>3. Lists(q, S, R)
    BY <1>2, <2>1, <2>2, LessSorted DEF Sorted, Less
  <2>4. Pages(p, S, R, offset)
    BY <1>2, <2>2, <2>3, SlicePages
  <2>5. page = Reverse(p)
    BY <1>1, <1>3, <2>2 DEF ListAuditEvents, MemoryPage
  <2> QED
    BY <1>1, <2>4, <2>5, ReversedPages
<1>4. CASE backend # "memory"
  <2>1. R = {z \in S \X S : Later(z[1], z[2])}
    BY <1>1, <1>4 DEF Order
  <2>2. \A x, y \in S : <<y, x>> \in R <=> Later(y, x)
    BY <2>1
  <2>3. \A x \in S : Rank(S, R, x) = Cardinality({y \in S : Later(y, x)})
    <3>1. \A x \in S : {y \in S : <<y, x>> \in R} = {y \in S : Later(y, x)}
      BY <2>2
    <3> QED
      BY <3>1 DEF Rank
  <2>4. PICK q, p : q = Sorted(S, Later) /\ p = Slice(q, Limit, offset)
    OBVIOUS
  <2>5. ASSUME NEW n \in 1..Cardinality(S) PROVE q[n] \in S /\ Rank(S, R, q[n]) = n - 1
    <3>1. q[n] = CHOOSE x \in S : Cardinality({y \in S : Later(y, x)}) = n - 1
      BY <2>4 DEF Sorted
    <3>2. PICK x \in S : Rank(S, R, x) = n - 1
      BY <1>2, RanksOnto
    <3>3. Cardinality({y \in S : Later(y, x)}) = n - 1
      BY <2>3, <3>2
    <3>4. q[n] \in S /\ Cardinality({y \in S : Later(y, q[n])}) = n - 1
      BY <3>1, <3>3
    <3> QED
      BY <2>3, <3>4
  <2>6. q \in [1..Cardinality(S) -> S]
    BY <2>4, <2>5 DEF Sorted
  <2>7. Lists(q, S, R)
    BY <1>2, <2>5, <2>6, RanksList
  <2>8. Pages(p, S, R, offset)
    BY <1>2, <2>4, <2>7, SlicePages
  <2>9. page = p
    BY <1>1, <1>4, <2>4 DEF ListAuditEvents, PostgresPage
  <2> QED
    BY <1>1, <2>8, <2>9
<1> QED
  BY <1>3, <1>4

\* What an operator has seen and has not: events that were there and have not
\* been returned are behind the offset; with the store in memory those that have
\* been returned are before it.
Seen(r, S, R) ==
    /\ r.got \in Seq(Int) /\ r.offset \in Nat
    /\ r.there \subseteq S
    /\ IF r.on THEN \A x \in r.there : x \in Range(r.got) \/ r.offset <= Rank(S, R, x)
               ELSE r.there \subseteq Range(r.got)
    /\ backend = "memory" => /\ IsInjective(r.got)
                             /\ \A x \in Range(r.got) : x \in S /\ Rank(S, R, x) < r.offset

ReaderInv ==
    /\ DOMAIN reader = {"on", "kind", "offset", "got", "there"}
    /\ Seen(reader, Matching(reader.kind), Order(reader.kind))

LEMMA Concatenated ==
    ASSUME NEW s \in Seq(Int), NEW p \in Seq(Int), NEW t, t = s \o p
    PROVE  /\ t \in Seq(Int)
           /\ Range(t) = Range(s) \cup Range(p)
           /\ IsInjective(s) /\ IsInjective(p) /\ Range(s) \cap Range(p) = {} => IsInjective(t)
<1>1. PICK a, b : a = Len(s) /\ b = Len(p)
  OBVIOUS
<1>2. a \in Nat /\ b \in Nat /\ DOMAIN s = 1..a /\ DOMAIN p = 1..b
  BY <1>1
<1>3. /\ t \in Seq(Int) /\ DOMAIN t = 1..(a + b)
      /\ \A i \in 1..a : t[i] = s[i]
      /\ \A i \in 1..b : t[a + i] = p[i]
  BY <1>1
<1>4. /\ \A i \in 1..a : i \in 1..(a + b)
      /\ \A i \in 1..b : a + i \in 1..(a + b)
      /\ \A i \in 1..(a + b) : i \in 1..a \/ (i - a \in 1..b /\ a + (i - a) = i)
  BY <1>2
<1>5. \A i \in 1..(a + b) : (i \in 1..a /\ t[i] = s[i]) \/ (i - a \in 1..b /\ t[i] = p[i - a])
  <2> SUFFICES ASSUME NEW i \in 1..(a + b)
               PROVE  (i \in 1..a /\ t[i] = s[i]) \/ (i - a \in 1..b /\ t[i] = p[i - a])
    OBVIOUS
  <2>1. CASE i \in 1..a
    BY <1>3, <2>1
  <2>2. CASE i - a \in 1..b /\ a + (i - a) = i
    <3>1. PICK j : j = i - a
      OBVIOUS
    <3>2. j \in 1..b /\ a + j = i
      BY <2>2, <3>1
    <3>3. t[i] = p[j]
      BY <1>3, <3>2
    <3> QED
      BY <3>1, <3>2, <3>3
  <2> QED
    BY <1>4, <2>1, <2>2
<1>6. Range(t) = Range(s) \cup Range(p)
  <2>1. \A x \in Range(t) : x \in Range(s) \cup Range(p)
    BY <1>2, <1>3, <1>5 DEF Range
  <2>2. \A x \in Range(s) : x \in Range(t)
    BY <1>2, <1>3, <1>4 DEF Range
  <2>3. ASSUME NEW x \in Range(p) PROVE x \in Range(t)
    <3>1. PICK i \in 1..b : x = p[i]
      BY <1>2 DEF Range
    <3>2. a + i \in 1..(a + b) /\ t[a + i] = x
      BY <1>3, <1>4, <3>1
    <3> QED
      BY <1>2, <1>3, <3>2 DEF Range
  <2> QED
    BY <2>1, <2>2, <2>3
<1>7. ASSUME IsInjective(s), IsInjective(p), Range(s) \cap Range(p) = {},
             NEW i \in 1..(a + b), NEW j \in 1..(a + b), t[i] = t[j]
      PROVE  i = j
  <2>1. \A k \in 1..a, l \in 1..b : s[k] # p[l]
    BY <1>2, <1>7 DEF Range
  <2>2. CASE i \in 1..a /\ t[i] = s[i] /\ j \in 1..a /\ t[j] = s[j]
    BY <1>2, <1>7, <2>2 DEF IsInjective
  <2>3. CASE i - a \in 1..b /\ t[i] = p[i - a] /\ j - a \in 1..b /\ t[j] = p[j - a]
    <3>1. i - a = j - a
      BY <1>2, <1>7, <2>3 DEF IsInjective
    <3> QED
      BY <1>2, <3>1
  <2> QED
    BY <1>5, <1>7, <2>1, <2>2, <2>3
<1> QED
  BY <1>3, <1>6, <1>7 DEF IsInjective

\* The next page.
LEMMA SeenMore ==
    ASSUME NEW S \in SUBSET Int, IsFiniteSet(S), NEW R, Orders(R, S),
           NEW r, DOMAIN r = {"on", "kind", "offset", "got", "there"}, Seen(r, S, R), r.on,
           NEW page, Pages(page, S, R, r.offset),
           NEW r2, r2 = [r EXCEPT !.on = Len(page) = Limit, !.got = @ \o page,
                                  !.offset = @ + Limit]
    PROVE  Seen(r2, S, R)
<1>1. PICK off, got, got2, on2 : /\ off = r.offset /\ got = r.got
                                 /\ got2 = got \o page /\ on2 = (Len(page) = Limit)
  OBVIOUS
<1>2. off \in Nat /\ got \in Seq(Int) /\ Limit \in Nat /\ Limit > 0 /\ r.there \subseteq S
  BY <1>1, AuditAssumption DEF Seen
<1>3. /\ r2.on = on2 /\ r2.got = got2 /\ r2.offset = off + Limit /\ r2.there = r.there
  BY <1>1
<1>4. page \in Seq(Int) /\ DOMAIN page = 1..Len(page) /\ IsInjective(page)
  <2>1. /\ page \in Seq(S) /\ DOMAIN page = 1..Len(page)
        /\ \A m, n \in 1..Len(page) : page[m] = page[n] => m = n
    BY DEF Pages
  <2>2. IsInjective(page)
    BY <2>1 DEF IsInjective
  <2> QED
    BY <2>1, <2>2
<1>5. /\ got2 \in Seq(Int) /\ Range(got2) = Range(got) \cup Range(page)
      /\ IsInjective(got) /\ Range(got) \cap Range(page) = {} => IsInjective(got2)
  BY <1>1, <1>2, <1>4, Concatenated
<1>6. ASSUME NEW x \in r.there, x \notin Range(got2) PROVE off + Limit <= Rank(S, R, x)
  <2>1. x \notin Range(got) /\ x \notin Range(page) /\ x \in S
    BY <1>2, <1>5, <1>6
  <2>2. off <= Rank(S, R, x) /\ Rank(S, R, x) \in Nat
    BY <1>1, <2>1, RankType DEF Seen
  <2>3. ~(Rank(S, R, x) < off + Limit)
    BY <1>1, <1>4, <2>1, <2>2 DEF Pages, Range
  <2> QED
    BY <1>2, <2>2, <2>3
<1>7. ASSUME ~on2, NEW x \in r.there PROVE x \in Range(got2)
  <2>1. Cardinality(S) < off + Limit
    BY <1>1, <1>7 DEF Pages
  <2>2. Rank(S, R, x) \in Nat /\ Rank(S, R, x) < Cardinality(S) /\ Cardinality(S) \in Nat
    BY <1>2, RankType
  <2>3. ~(off + Limit <= Rank(S, R, x))
    BY <1>2, <2>1, <2>2
  <2> QED
    BY <1>6, <2>3
<1>8. ASSUME backend = "memory"
      PROVE  /\ IsInjective(got2)
             /\ \A x \in Range(got2) : x \in S /\ Rank(S, R, x) < off + Limit
  <2>1. IsInjective(got) /\ \A x \in Range(got) : x \in S /\ Rank(S, R, x) < off
    BY <1>1, <1>8 DEF Seen
  <2>2. \A x \in Range(page) : x \in S /\ off <= Rank(S, R, x) /\ Rank(S, R, x) < off + Limit
    BY <1>1, <1>4 DEF Pages, Range
  <2>3. \A x \in S : Rank(S, R, x) \in Nat
    BY RankType
  <2>4. Range(got) \cap Range(page) = {}
    <3> SUFFICES ASSUME NEW x \in Range(got), x \in Range(page) PROVE FALSE
      OBVIOUS
    <3>1. PICK k : k = Rank(S, R, x)
      OBVIOUS
    <3>2. k \in Nat /\ k < off /\ off <= k
      BY <2>1, <2>2, <2>3, <3>1
    <3> QED
      BY <1>2, <3>2
  <2>5. ASSUME NEW x \in Range(got) PROVE Rank(S, R, x) < off + Limit
    BY <1>2, <2>1, <2>3
  <2> QED
    BY <1>5, <2>1, <2>2, <2>4, <2>5
<1>9. IF r2.on THEN \A x \in r2.there : x \in Range(r2.got) \/ r2.offset <= Rank(S, R, x)
               ELSE r2.there \subseteq Range(r2.got)
  BY <1>3, <1>6, <1>7
<1>10. r2.got \in Seq(Int) /\ r2.offset \in Nat /\ r2.there \subseteq S
  <2>1. r2.got = got2 /\ r2.offset = off + Limit /\ r2.there = r.there /\ got2 \in Seq(Int)
    BY <1>3, <1>5
  <2>2. off + Limit \in Nat
    BY <1>2
  <2> QED
    BY <1>2, <2>1, <2>2
<1>11. backend = "memory" => /\ IsInjective(r2.got)
                             /\ \A x \in Range(r2.got) : x \in S /\ Rank(S, R, x) < r2.offset
  BY <1>3, <1>8
<1> QED
  BY <1>9, <1>10, <1>11 DEF Seen

LEMMA NextPageReader ==
    ASSUME TypeInv, TimesAreNumbers, ReaderInv, NextPage
    PROVE  ReaderInv'
<1>1. PICK kind, S, R, r : /\ kind = reader.kind /\ S = Matching(kind) /\ R = Order(kind)
                           /\ r = reader
  OBVIOUS
<1>2. S \in SUBSET Int /\ IsFiniteSet(S) /\ Orders(R, S)
  BY <1>1, ListingOrder DEF Ordered
<1>3. DOMAIN r = {"on", "kind", "offset", "got", "there"} /\ Seen(r, S, R) /\ r.on
  BY <1>1 DEF ReaderInv, NextPage
<1>4. PICK offset, page : offset = r.offset /\ page = ListAuditEvents(kind, Limit, offset)
  OBVIOUS
<1>5. offset \in Nat
  BY <1>3, <1>4 DEF Seen
<1>6. Pages(page, S, R, offset)
  BY <1>1, <1>4, <1>5, PageFacts
<1>7. PICK r2 : r2 = [r EXCEPT !.on = Len(page) = Limit, !.got = @ \o page, !.offset = @ + Limit]
  OBVIOUS
<1>8. Seen(r2, S, R)
  BY <1>2, <1>3, <1>4, <1>6, <1>7, SeenMore
<1>9. reader' = r2 /\ UNCHANGED <<audits, backend>>
  BY <1>1, <1>4, <1>7 DEF NextPage, process
<1>10. r2.kind = kind /\ DOMAIN r2 = {"on", "kind", "offset", "got", "there"}
  BY <1>1, <1>3, <1>7
<1>11. Matching(kind)' = S /\ Order(kind)' = R
  BY <1>1, <1>9 DEF Matching, Order, Later
<1>12. Seen(r2, S, R)'
  BY <1>8, <1>9 DEF Seen
<1> QED
  BY <1>9, <1>10, <1>11, <1>12 DEF ReaderInv

LEMMA SeenStays ==
    ASSUME NEW r, NEW S, NEW R, Seen(r, S, R), NEW T, IsFiniteSet(T), S \subseteq T, NEW Q,
           Orders(R, S), Orders(Q, T),
           \A x, y \in S : <<y, x>> \in R <=> <<y, x>> \in Q,
           backend = "memory" => \A x \in S, y \in T \ S : <<y, x>> \notin Q
    PROVE  Seen(r, T, Q)
<1>0. IsFiniteSet(S)
  BY FS_Subset
<1>1. \A x \in S : Rank(S, R, x) \in Nat /\ Rank(T, Q, x) \in Nat
  BY <1>0, RankType
<1>2. ASSUME NEW x \in S
      PROVE  /\ Rank(S, R, x) <= Rank(T, Q, x)
             /\ backend = "memory" => Rank(S, R, x) = Rank(T, Q, x)
  <2>1. /\ Rank(S, R, x) <= Rank(T, Q, x)
        /\ (\A y \in T \ S : <<y, x>> \notin Q) => Rank(S, R, x) = Rank(T, Q, x)
    BY RankLater
  <2> QED
    BY <2>1
<1>3. ASSUME NEW x \in r.there, r.offset <= Rank(S, R, x) PROVE r.offset <= Rank(T, Q, x)
  <2>1. PICK off, k, l : off = r.offset /\ k = Rank(S, R, x) /\ l = Rank(T, Q, x)
    OBVIOUS
  <2>2. off \in Nat /\ k \in Nat /\ l \in Nat /\ off <= k /\ k <= l
    BY <1>1, <1>2, <1>3, <2>1 DEF Seen
  <2>3. off <= l
    BY <2>2
  <2> QED
    BY <2>1, <2>3
<1> QED
  BY <1>1, <1>2, <1>3 DEF Seen

LEMMA ListingOrderNext ==
    ASSUME NEW kind
    PROVE  (TypeInv /\ TimesAreNumbers => Ordered(kind))'
<1>1. TypeInv /\ TimesAreNumbers => Ordered(kind)
  BY ListingOrder
<1> QED
  BY <1>1, PTL

LEMMA AppendReader ==
    ASSUME TypeInv, TimesAreNumbers, ReaderInv, TypeInv', TimesAreNumbers',
           NEW e, audits' = Append(audits, e), UNCHANGED <<reader, backend>>
    PROVE  ReaderInv'
<1>1. PICK kind, S, R, r, T, Q :
           /\ kind = reader.kind /\ S = Matching(kind) /\ R = Order(kind) /\ r = reader
           /\ T = Matching(kind)' /\ Q = Order(kind)'
  OBVIOUS
<1>2. S \in SUBSET Int /\ IsFiniteSet(S) /\ Orders(R, S)
  BY <1>1, ListingOrder DEF Ordered
<1>3. T \in SUBSET Int /\ IsFiniteSet(T) /\ Orders(Q, T)
  <2>1. Ordered(kind)'
    BY ListingOrderNext
  <2> QED
    BY <1>1, <2>1 DEF Ordered
<1>4. /\ Len(audits') = Len(audits) + 1 /\ Len(audits) \in Nat
      /\ \A i \in 1..Len(audits) : audits'[i] = audits[i]
  BY HashesGrow
<1>5. /\ S \subseteq 1..Len(audits) /\ S \subseteq T
      /\ \A y \in T \ S : y = Len(audits) + 1
  BY <1>1, <1>4 DEF Matching
<1>6. \A x, y \in S : <<y, x>> \in R <=> <<y, x>> \in Q
  <2>1. CASE backend = "memory"
    <3>1. R = LessOn(S) /\ Q = LessOn(T)
      BY <1>1, <2>1 DEF Order
    <3> QED
      BY <1>5, <3>1 DEF LessOn
  <2>2. CASE backend # "memory"
    <3>1. \A x, y \in S : <<y, x>> \in R <=> Later(y, x)
      BY <1>1, <2>2 DEF Order
    <3>2. \A x, y \in T : <<y, x>> \in Q <=> Later(y, x)'
      BY <1>1, <2>2 DEF Order
    <3>3. \A x, y \in S : Later(y, x)' <=> Later(y, x)
      BY <1>4, <1>5 DEF Later
    <3> QED
      BY <1>5, <3>1, <3>2, <3>3
  <2> QED
    BY <2>1, <2>2
<1>7. ASSUME backend = "memory", NEW x \in S, NEW y \in T \ S PROVE <<y, x>> \notin Q
  <2>1. Q = LessOn(T)
    BY <1>1, <1>7 DEF Order
  <2>2. ~(y < x)
    BY <1>4, <1>5
  <2> QED
    BY <2>1, <2>2 DEF LessOn
<1>8. Seen(r, S, R)
  BY <1>1 DEF ReaderInv
<1>9. Seen(r, T, Q)
  BY <1>2, <1>3, <1>5, <1>6, <1>7, <1>8, SeenStays
<1>10. Seen(r, T, Q)'
  BY <1>9 DEF Seen
<1> QED
  BY <1>1, <1>10 DEF ReaderInv

LEMMA StartReader ==
    ASSUME TypeInv, TimesAreNumbers, NEW kind, StartListing(kind)
    PROVE  ReaderInv'
<1>1. PICK S, R : S = Matching(kind) /\ R = Order(kind)
  OBVIOUS
<1>2. IsFiniteSet(S) /\ Orders(R, S)
  BY <1>1, ListingOrder DEF Ordered
<1>3. PICK r : r = [NoReader EXCEPT !.on = TRUE, !.kind = kind, !.there = S]
  OBVIOUS
<1>4. /\ DOMAIN r = {"on", "kind", "offset", "got", "there"}
      /\ r.on = TRUE /\ r.kind = kind /\ r.offset = 0 /\ r.got = <<>> /\ r.there = S
  BY <1>3 DEF NoReader
<1>5. reader' = r /\ UNCHANGED <<audits, backend>>
  BY <1>1, <1>3 DEF StartListing, process
<1>6. \A x \in S : 0 <= Rank(S, R, x)
  BY <1>2, RankType
<1>7. Range(<<>>) = {} /\ IsInjective(<<>>) /\ <<>> \in Seq(Int)
  BY DEF Range, IsInjective
<1>8. Seen(r, S, R)'
  <2>1. r.got \in Seq(Int) /\ r.offset \in Nat /\ r.there \subseteq S
    BY <1>4, <1>7
  <2>2. IsInjective(r.got) /\ Range(r.got) = {} /\ \A x \in r.there : r.offset <= Rank(S, R, x)
    BY <1>4, <1>6, <1>7
  <2> QED
    BY <1>4, <2>1, <2>2 DEF Seen
<1>9. Matching(kind)' = S /\ Order(kind)' = R
  BY <1>1, <1>5 DEF Matching, Order, Later
<1> QED
  BY <1>4, <1>5, <1>8, <1>9 DEF ReaderInv

LEMMA SameReader ==
    ASSUME ReaderInv, UNCHANGED <<reader, audits, backend>>
    PROVE  ReaderInv'
<1>1. PICK kind, S, R, r :
           kind = reader.kind /\ S = Matching(kind) /\ R = Order(kind) /\ r = reader
  OBVIOUS
<1>2. Seen(r, S, R)
  BY <1>1 DEF ReaderInv
<1>3. Seen(r, S, R)'
  BY <1>2 DEF Seen
<1>4. Matching(kind)' = S /\ Order(kind)' = R
  BY <1>1 DEF Matching, Order, Later
<1> QED
  BY <1>1, <1>3, <1>4 DEF ReaderInv

LEMMA TimesGrow ==
    ASSUME TypeInv, TimesAreNumbers, NEW e, audits' = Append(audits, e), e.at \in Int
    PROVE  TimesAreNumbers'
<1>1. /\ Len(audits') = Len(audits) + 1 /\ Len(audits) \in Nat
      /\ \A i \in 1..Len(audits) : audits'[i] = audits[i]
      /\ audits'[Len(audits) + 1] = e
  BY HashesGrow
<1>2. \A i \in 1..Len(audits') : i \in 1..Len(audits) \/ i = Len(audits) + 1
  BY <1>1
<1> QED
  BY <1>1, <1>2 DEF TimesAreNumbers

LEMMA StepReader ==
    TypeInv /\ TypeInv' /\ TimesAreNumbers /\ ReaderInv /\ [Next]_vars =>
        TimesAreNumbers' /\ ReaderInv'
<1> SUFFICES ASSUME TypeInv, TypeInv', TimesAreNumbers, ReaderInv, [Next]_vars
             PROVE  TimesAreNumbers' /\ ReaderInv'
  OBVIOUS
<1>1. ASSUME UNCHANGED audits PROVE TimesAreNumbers'
  BY <1>1 DEF TimesAreNumbers
<1>2. CASE NextPage
  BY <1>1, <1>2, NextPageReader DEF NextPage
<1>3. ASSUME NEW kind \in Kinds, StartListing(kind) PROVE TimesAreNumbers' /\ ReaderInv'
  BY <1>1, <1>3, StartReader DEF StartListing
<1>4. ASSUME NEW e, audits' = Append(audits, e), e.at \in Int, UNCHANGED <<reader, backend>>
      PROVE  TimesAreNumbers' /\ ReaderInv'
  <2>1. TimesAreNumbers'
    BY <1>4, TimesGrow
  <2> QED
    BY <1>4, <2>1, AppendReader
<1>5. ASSUME NEW w \in Writers, MemoryAppend(w) PROVE TimesAreNumbers' /\ ReaderInv'
  <2>1. PICK c, e : c = append[w] /\ e = Sealed(Stamped(c), LastHash)
    OBVIOUS
  <2>2. c \in CallTypes /\ now \in Nat
    BY <2>1 DEF TypeInv, CallTypes
  <2>3. Stamped(c).at \in Int
    BY <2>2 DEF Stamped, CallTypes
  <2>4. e.at \in Int
    BY <2>1, <2>3 DEF Sealed
  <2>5. audits' = Append(audits, e) /\ UNCHANGED <<reader, backend>>
    BY <1>5, <2>1 DEF MemoryAppend, process
  <2> QED
    BY <1>4, <2>4, <2>5
<1>6. ASSUME NEW w \in Writers, PostgresInsert(w) PROVE TimesAreNumbers' /\ ReaderInv'
  <2>1. PICK c, s, e : c = append[w] /\ s = Sealed(c, c.prev) /\ e = Stored(s)
    OBVIOUS
  <2>2. c \in CallTypes /\ StoredTick \in Nat /\ StoredTick > 0
    BY <2>1, AuditAssumption DEF TypeInv, CallTypes
  <2>3. DOMAIN s = {"kind", "at", "prev", "hash"} /\ s.at = c.at /\ c.at \in Nat
    BY <2>1, <2>2 DEF Sealed, CallTypes
  <2>4. e.at = s.at - (s.at % StoredTick)
    BY <2>1, <2>3 DEF Stored
  <2>5. e.at \in Int
    BY <2>2, <2>3, <2>4
  <2>6. audits' = Append(audits, e) /\ UNCHANGED <<reader, backend>>
    BY <1>6, <2>1 DEF PostgresInsert
  <2> QED
    BY <1>4, <2>5, <2>6
<1>7. ASSUME UNCHANGED <<reader, audits, backend>> PROVE TimesAreNumbers' /\ ReaderInv'
  BY <1>1, <1>7, SameReader
<1> QED
  BY <1>2, <1>3, <1>5, <1>6, <1>7
  DEF Next, vars, process, Call, PostgresSelect, AppendFails, Tick

LEMMA InitReader ==
    Init => TimesAreNumbers /\ ReaderInv
<1> SUFFICES ASSUME Init
             PROVE  TimesAreNumbers /\ ReaderInv
  OBVIOUS
<1>1. TimesAreNumbers
  BY DEF Init, TimesAreNumbers
<1>2. /\ DOMAIN reader = {"on", "kind", "offset", "got", "there"}
      /\ reader.on = FALSE /\ reader.offset = 0 /\ reader.got = <<>> /\ reader.there = {}
  BY DEF Init, NoReader
<1>3. Range(<<>>) = {} /\ IsInjective(<<>>) /\ <<>> \in Seq(Int)
  BY DEF Range, IsInjective
<1>4. reader.got \in Seq(Int) /\ reader.offset \in Nat
  BY <1>2, <1>3
<1>5. IsInjective(reader.got) /\ Range(reader.got) = {}
  BY <1>2, <1>3
<1> QED
  BY <1>1, <1>2, <1>4, <1>5 DEF ReaderInv, Seen

\* An operator who pages through GET /v1/admin/audit to the last page has seen
\* every event that was there at the start, whatever handlers append meanwhile and
\* in whatever order of their times; ListAuditEvents of the in-memory store returns
\* none twice.
THEOREM PagingIsExact == Spec => []PagingExact
<1>1. ReaderInv => PagingExact
  BY DEF ReaderInv, Seen, PagingExact
<1>2. Init => TypeInv /\ SelectedSeesLast /\ TimesAreNumbers /\ ReaderInv
  BY InitTypeInv, InitReader
<1>3. TypeInv /\ SelectedSeesLast /\ TimesAreNumbers /\ ReaderInv /\ [Next]_vars =>
        TypeInv' /\ SelectedSeesLast' /\ TimesAreNumbers' /\ ReaderInv'
  BY StepTypeInv, StepReader
<1> QED
  BY <1>1, <1>2, <1>3, PTL DEF Spec

---------------------------------------------------------------------------
(* DeadLetterAdmin: what is counted. *)

\* The times of s that are not before first, and those in a span.
Above(s, first) == Cardinality({i \in 1..Len(s) : s[i] >= first})
Within(s, first, last) == Cardinality({i \in 1..Len(s) : s[i] \in first..last})

LEMMA PositionsFinite ==
    ASSUME NEW n \in Nat, NEW A, A \subseteq 1..n
    PROVE  IsFiniteSet(A) /\ Cardinality(A) \in Nat /\ Cardinality(A) <= n
<1>1. IsFiniteSet(1..n) /\ Cardinality(1..n) = IF 1 > n THEN 0 ELSE n - 1 + 1
  BY FS_Interval
<1>2. (IF 1 > n THEN 0 ELSE n - 1 + 1) = n
  OBVIOUS
<1>3. PICK I : I = 1..n
  OBVIOUS
<1>4. IsFiniteSet(I) /\ Cardinality(I) = n /\ A \in SUBSET I
  BY <1>1, <1>2, <1>3
<1>5. IsFiniteSet(A) /\ Cardinality(A) <= Cardinality(I)
  BY <1>4, FS_Subset
<1> QED
  BY <1>4, <1>5, FS_CardinalityType

LEMMA AboveAppend ==
    ASSUME NEW s \in Seq(Nat), NEW x \in Nat, NEW first \in Int
    PROVE  Above(Append(s, x), first) = Above(s, first) + IF x >= first THEN 1 ELSE 0
<1> DEFINE t == Append(s, x)
           A == {i \in 1..Len(s) : s[i] >= first}
           B == {i \in 1..Len(t) : t[i] >= first}
<1>1. /\ Len(s) \in Nat /\ Len(t) = Len(s) + 1
      /\ (\A i \in 1..Len(s) : t[i] = s[i]) /\ t[Len(s) + 1] = x
  OBVIOUS
<1>2. \A i : i \in 1..Len(t) <=> i \in 1..Len(s) \/ i = Len(s) + 1
  BY <1>1
<1>3. IsFiniteSet(A) /\ Cardinality(A) \in Nat
  <2>1. A \subseteq 1..Len(s)
    OBVIOUS
  <2> HIDE DEF A
  <2> QED
    BY <1>1, <2>1, PositionsFinite
<1>4. Len(s) + 1 \notin A
  BY <1>1
<1>5. Above(s, first) = Cardinality(A) /\ Above(t, first) = Cardinality(B)
  BY DEF Above
<1> HIDE DEF t
<1>6. CASE x >= first
  <2>1. B = A \cup {Len(s) + 1}
    BY <1>1, <1>2, <1>6
  <2> HIDE DEF A, B
  <2>2. Cardinality(A \cup {Len(s) + 1}) = Cardinality(A) + 1
    BY <1>3, <1>4, FS_AddElement
  <2> QED
    BY <1>5, <1>6, <2>1, <2>2 DEF t
<1>7. CASE ~(x >= first)
  <2>1. B = A
    BY <1>1, <1>2, <1>7
  <2> HIDE DEF A, B
  <2> QED
    BY <1>3, <1>5, <1>7, <2>1 DEF t
<1> QED
  BY <1>6, <1>7

LEMMA AboveBounds ==
    ASSUME NEW s \in Seq(Nat), NEW first \in Int, NEW last \in Int
    PROVE  /\ Above(s, first) \in Nat /\ Within(s, first, last) \in Nat
           /\ Within(s, first, last) <= Above(s, first) /\ Above(s, first) <= Len(s)
<1> DEFINE A == {i \in 1..Len(s) : s[i] >= first}
           B == {i \in 1..Len(s) : s[i] \in first..last}
<1>1. Len(s) \in Nat /\ \A i \in 1..Len(s) : s[i] \in Nat
  OBVIOUS
<1>2. A \subseteq 1..Len(s) /\ B \in SUBSET A /\ B \subseteq 1..Len(s)
  BY <1>1
<1>3. Above(s, first) = Cardinality(A) /\ Within(s, first, last) = Cardinality(B)
  BY DEF Above, Within
<1> HIDE DEF A, B
<1>4. IsFiniteSet(A) /\ Cardinality(A) \in Nat /\ Cardinality(A) <= Len(s)
  BY <1>1, <1>2, PositionsFinite
<1>5. Cardinality(B) \in Nat
  BY <1>1, <1>2, PositionsFinite
<1>6. Cardinality(B) <= Cardinality(A)
  BY <1>2, <1>4, FS_Subset
<1> QED
  BY <1>3, <1>4, <1>5, <1>6

\* Choosing the times from a cutoff on loses none of those.
LEMMA ChosenAbove ==
    ASSUME NEW s \in Seq(Nat), NEW cutoff \in Int,
           NEW S, S = {i \in 1..Len(s) : s[i] >= cutoff}, NEW R, NEW q, Lists(q, S, R),
           NEW k, k = [n \in DOMAIN q |-> s[q[n]]]
    PROVE  /\ k \in Seq(Nat)
           /\ \A first \in Int : first >= cutoff => Above(s, first) <= Above(k, first)
<1>1. Len(s) \in Nat /\ (\A i \in 1..Len(s) : s[i] \in Nat) /\ S \subseteq 1..Len(s)
  OBVIOUS
<1>2. PICK c : c = Cardinality(S)
  OBVIOUS
<1>3. c \in Nat
  BY <1>1, <1>2, PositionsFinite
<1>4. q \in [1..c -> S] /\ \A x \in S : Rank(S, R, x) + 1 \in 1..c /\ q[Rank(S, R, x) + 1] = x
  BY <1>2 DEF Lists
<1>5. k = [n \in 1..c |-> s[q[n]]] /\ \A n \in 1..c : q[n] \in 1..Len(s)
  BY <1>1, <1>4
<1>6. k \in Seq(Nat) /\ Len(k) = c /\ \A n \in 1..c : k[n] = s[q[n]]
  BY <1>1, <1>3, <1>5
<1>7. ASSUME NEW first \in Int, first >= cutoff PROVE Above(s, first) <= Above(k, first)
  <2> DEFINE A == {i \in 1..Len(s) : s[i] >= first}
             B == {n \in 1..Len(k) : k[n] >= first}
             f == [i \in A |-> Rank(S, R, i) + 1]
  <2>1. A \subseteq S
    BY <1>1, <1>7
  <2>2. ASSUME NEW i \in A PROVE f[i] \in B /\ q[f[i]] = i
    <3>1. PICK n : n = Rank(S, R, i) + 1
      OBVIOUS
    <3>2. n \in 1..c /\ q[n] = i /\ f[i] = n
      BY <1>4, <2>1, <3>1
    <3>3. k[n] = s[i]
      BY <1>6, <3>2
    <3> QED
      BY <1>6, <3>2, <3>3
  <2>3. f \in Injection(A, B)
    <3>1. f \in [A -> B]
      BY <2>2
    <3> HIDE DEF A, B, f
    <3>2. \A i, j \in A : f[i] = f[j] => i = j
      BY <2>2
    <3> QED
      BY <3>1, <3>2 DEF Injection, IsInjective
  <2>4. B \subseteq 1..c
    BY <1>6
  <2>5. Above(s, first) = Cardinality(A) /\ Above(k, first) = Cardinality(B)
    BY DEF Above
  <2>6. PICK g : g = f
    OBVIOUS
  <2>7. g \in Injection(A, B)
    BY <2>3, <2>6
  <2> HIDE DEF A, B
  <2>8. IsFiniteSet(B)
    BY <1>3, <2>4, PositionsFinite
  <2> QED
    BY <2>5, <2>7, <2>8, FS_Injection
<1> QED
  BY <1>6, <1>7

---------------------------------------------------------------------------
(* DeadLetterAdmin: repeated refs. *)

\* The positions of x, and how often s[i] has occurred up to i.
Positions(s, n, x) == {i \in 1..n : s[i] = x}
Nth(s, i) == Cardinality({j \in 1..i : s[j] = s[i]})

\* The positions of s that t answers.
Answered(s, n, t, m) == {i \in 1..n : Nth(s, i) <= Cardinality(Positions(t, m, s[i]))}
Pairs(s, n, t, m) == {<<s[i], Nth(s, i)>> : i \in Answered(s, n, t, m)}

LEMMA PositionFacts ==
    ASSUME NEW s, NEW n \in Nat, NEW x, NEW S, S = Positions(s, n, x)
    PROVE  /\ S \in SUBSET Int /\ IsFiniteSet(S) /\ Cardinality(S) \in Nat
           /\ Orders(LessOn(S), S)
<1>1. S \subseteq 1..n /\ S \in SUBSET Int
  BY DEF Positions
<1>2. IsFiniteSet(S) /\ Cardinality(S) \in Nat
  BY <1>1, PositionsFinite
<1> QED
  BY <1>1, <1>2, LessOrders

LEMMA NthRank ==
    ASSUME NEW s, NEW n \in Nat, NEW i \in 1..n, NEW S, S = Positions(s, n, s[i])
    PROVE  Nth(s, i) = Rank(S, LessOn(S), i) + 1
<1> DEFINE A == {j \in S : <<j, i>> \in LessOn(S)}
           B == {j \in 1..i : s[j] = s[i]}
<1>1. S \subseteq 1..n /\ i \in S /\ S \in SUBSET Int /\ i \in Int
  BY DEF Positions
<1>2. A = {j \in S : j < i}
  BY <1>1 DEF LessOn
<1>3. B = {j \in S : j < i} \cup {i}
  <2>1. \A j : j \in 1..i <=> j \in 1..n /\ (j < i \/ j = i)
    OBVIOUS
  <2> QED
    BY <2>1 DEF Positions
<1>4. B = A \cup {i} /\ i \notin A /\ A \subseteq 1..n
  BY <1>1, <1>2, <1>3
<1>5. Nth(s, i) = Cardinality(B) /\ Rank(S, LessOn(S), i) = Cardinality(A)
  BY DEF Nth, Rank
<1> HIDE DEF A, B
<1>6. IsFiniteSet(A)
  BY <1>4, PositionsFinite
<1>7. Cardinality(A \cup {i}) = Cardinality(A) + 1
  BY <1>4, <1>6, FS_AddElement
<1> QED
  BY <1>4, <1>5, <1>7

\* Positions are told apart by what is there and the how-manieth it is.
LEMMA NthApart ==
    ASSUME NEW s, NEW n \in Nat, NEW i \in 1..n, NEW j \in 1..n, s[i] = s[j],
           Nth(s, i) = Nth(s, j)
    PROVE  i = j
<1>1. PICK S, R : S = Positions(s, n, s[i]) /\ R = LessOn(S)
  OBVIOUS
<1>2. IsFiniteSet(S) /\ Orders(R, S) /\ i \in S /\ j \in S
  <2>1. IsFiniteSet(S) /\ Orders(R, S)
    BY <1>1, PositionFacts
  <2>2. i \in S /\ j \in S
    BY <1>1 DEF Positions
  <2> QED
    BY <2>1, <2>2
<1>3. Nth(s, i) = Rank(S, R, i) + 1 /\ Nth(s, j) = Rank(S, R, j) + 1
  BY <1>1, NthRank
<1>4. Rank(S, R, i) \in Nat /\ Rank(S, R, j) \in Nat
  BY <1>2, RankType
<1>5. PICK a, b : a = Rank(S, R, i) /\ b = Rank(S, R, j)
  OBVIOUS
<1>6. a \in Nat /\ b \in Nat /\ a + 1 = b + 1
  BY <1>3, <1>4, <1>5
<1>7. Rank(S, R, i) = Rank(S, R, j)
  BY <1>5, <1>6
<1> QED
  BY <1>2, <1>7, RanksApart

LEMMA PairsCounted ==
    ASSUME NEW s, NEW n \in Nat, NEW t, NEW m
    PROVE  Cardinality(Answered(s, n, t, m)) = Cardinality(Pairs(s, n, t, m))
<1>1. PICK A, P : A = Answered(s, n, t, m) /\ P = Pairs(s, n, t, m)
  OBVIOUS
<1>2. A \subseteq 1..n /\ P = {<<s[i], Nth(s, i)>> : i \in A}
  BY <1>1 DEF Answered, Pairs
<1>3. PICK f : f = [i \in A |-> <<s[i], Nth(s, i)>>]
  OBVIOUS
<1>4. ASSUME NEW i \in A, NEW j \in A, f[i] = f[j] PROVE i = j
  <2>1. s[i] = s[j] /\ Nth(s, i) = Nth(s, j) /\ i \in 1..n /\ j \in 1..n
    BY <1>2, <1>3, <1>4
  <2> QED
    BY <2>1, NthApart
<1>5. f \in [A -> P] /\ \A p \in P : \E i \in A : f[i] = p
  BY <1>2, <1>3
<1>6. ExistsBijection(A, P)
  <2>1. f \in Injection(A, P) /\ f \in Surjection(A, P)
    BY <1>4, <1>5 DEF Injection, IsInjective, Surjection
  <2> QED
    BY <2>1 DEF ExistsBijection, Bijection
<1>7. IsFiniteSet(A)
  BY <1>2, PositionsFinite
<1> QED
  BY <1>1, <1>6, <1>7, FS_Bijection

LEMMA PairsBoth ==
    ASSUME NEW s, NEW n \in Nat, NEW t, NEW m \in Nat
    PROVE  Pairs(s, n, t, m) \subseteq Pairs(t, m, s, n)
<1> SUFFICES ASSUME NEW i \in Answered(s, n, t, m)
             PROVE  <<s[i], Nth(s, i)>> \in Pairs(t, m, s, n)
  BY DEF Pairs
<1>1. PICK x, k, S, T : /\ x = s[i] /\ k = Nth(s, i)
                        /\ S = Positions(s, n, x) /\ T = Positions(t, m, x)
  OBVIOUS
<1>2. i \in 1..n /\ k <= Cardinality(T) /\ i \in S
  BY <1>1 DEF Answered, Positions
<1>3. /\ IsFiniteSet(S) /\ Orders(LessOn(S), S) /\ Cardinality(S) \in Nat
      /\ IsFiniteSet(T) /\ Orders(LessOn(T), T) /\ Cardinality(T) \in Nat
  BY <1>1, PositionFacts
<1>4. k = Rank(S, LessOn(S), i) + 1
  BY <1>1, <1>2, NthRank
<1>5. Rank(S, LessOn(S), i) \in Nat /\ Rank(S, LessOn(S), i) < Cardinality(S)
  BY <1>2, <1>3, RankType
<1>6. k \in 1..Cardinality(T) /\ k <= Cardinality(S) /\ k \in Nat
  BY <1>2, <1>3, <1>4, <1>5
<1>7. PICK j \in T : Rank(T, LessOn(T), j) = k - 1
  BY <1>3, <1>6, RanksOnto
<1>8. j \in 1..m /\ t[j] = x
  BY <1>1 DEF Positions
<1>9. Nth(t, j) = Rank(T, LessOn(T), j) + 1
  BY <1>1, <1>8, NthRank
<1>10. Nth(t, j) = k
  BY <1>6, <1>7, <1>9
<1>11. j \in Answered(t, m, s, n)
  BY <1>1, <1>6, <1>8, <1>10 DEF Answered
<1> QED
  BY <1>1, <1>8, <1>10, <1>11 DEF Pairs

\* As many of s are answered by t as of t by s.
LEMMA AnswersMatch ==
    ASSUME NEW s, NEW n \in Nat, NEW t, NEW m \in Nat
    PROVE  Cardinality(Answered(s, n, t, m)) = Cardinality(Answered(t, m, s, n))
<1>1. Pairs(s, n, t, m) = Pairs(t, m, s, n)
  BY PairsBoth
<1>2. /\ Cardinality(Answered(s, n, t, m)) = Cardinality(Pairs(s, n, t, m))
      /\ Cardinality(Answered(t, m, s, n)) = Cardinality(Pairs(t, m, s, n))
  BY PairsCounted
<1> QED
  BY <1>1, <1>2

---------------------------------------------------------------------------
(* DeadLetterAdmin: the rate of requeue requests. *)

\* The limiter's times r hold all admissions in the window before t, and no
\* span that ends by t has more than RateLimit of them.
Covered(a, r, t) ==
    \A first \in Int : first >= t - Window => Above(a, first) <= Above(r, first)
Bounded(a, t) ==
    \A u \in 0..t : Within(a, u - (Window - Skew), u) <= RateLimit

LEMMA CoverKept ==
    ASSUME NEW a \in Seq(Nat), NEW s \in Seq(Nat),
           NEW t \in Nat, NEW ts \in Nat, ts <= t, Covered(a, s, t),
           NEW S, S = {i \in 1..Len(s) : s[i] >= ts - Window}, NEW R, NEW q, Lists(q, S, R),
           NEW k, k = [n \in DOMAIN q |-> s[q[n]]]
    PROVE  k \in Seq(Nat) /\ Covered(a, k, t)
<1>1. PICK cutoff \in Int : cutoff = ts - Window /\ Window \in Nat
  BY AdminAssumption
<1>2. S = {i \in 1..Len(s) : s[i] >= cutoff}
  BY <1>1
<1>3. k \in Seq(Nat) /\ \A first \in Int : first >= cutoff => Above(s, first) <= Above(k, first)
  BY <1>2, ChosenAbove
<1>4. ASSUME NEW first \in Int, first >= t - Window PROVE Above(a, first) <= Above(k, first)
  <2>1. Above(a, first) \in Nat /\ Above(s, first) \in Nat /\ Above(k, first) \in Nat
    BY <1>3, AboveBounds
  <2>2. Above(a, first) <= Above(s, first)
    BY <1>4 DEF Covered
  <2>3. first >= cutoff
    BY <1>1, <1>4
  <2>4. Above(s, first) <= Above(k, first)
    BY <1>3, <2>3
  <2> QED
    BY <2>1, <2>2, <2>4
<1> QED
  BY <1>3, <1>4 DEF Covered

LEMMA CoverAppend ==
    ASSUME NEW a \in Seq(Nat), NEW k \in Seq(Nat), NEW t \in Nat, NEW x \in Nat,
           Covered(a, k, t)
    PROVE  Covered(Append(a, x), Append(k, x), t)
<1>1. ASSUME NEW first \in Int, first >= t - Window
      PROVE  Above(Append(a, x), first) <= Above(Append(k, x), first)
  <2>1. PICK d : d = IF x >= first THEN 1 ELSE 0
    OBVIOUS
  <2>2. d \in Nat
    BY <2>1
  <2>3. Above(Append(a, x), first) = Above(a, first) + d
    BY <2>1, AboveAppend
  <2>4. Above(Append(k, x), first) = Above(k, first) + d
    BY <2>1, AboveAppend
  <2>5. Above(a, first) \in Nat /\ Above(k, first) \in Nat
    BY AboveBounds
  <2>6. Above(a, first) <= Above(k, first)
    BY <1>1 DEF Covered
  <2> QED
    BY <2>2, <2>3, <2>4, <2>5, <2>6
<1> QED
  BY <1>1 DEF Covered

LEMMA BoundedAppend ==
    ASSUME NEW a \in Seq(Nat), NEW k \in Seq(Nat), NEW t \in Nat,
           NEW ts \in Nat, ts <= t, t <= ts + Skew,
           Covered(a, k, t), Len(k) < RateLimit, Bounded(a, t)
    PROVE  Bounded(Append(a, ts), t)
<1> DEFINE b == Append(a, ts)
<1>1. /\ Window \in Nat /\ Skew \in Nat /\ RateLimit \in Nat
      /\ Len(k) \in Nat /\ b \in Seq(Nat)
  BY AdminAssumption
<1>2. ASSUME NEW u \in 0..t PROVE Within(b, u - (Window - Skew), u) <= RateLimit
  <2>1. PICK first \in Int : first = u - (Window - Skew)
    BY <1>1
  <2>2. u \in Int /\ Within(a, first, u) <= RateLimit
    BY <2>1 DEF Bounded
  <2>3. CASE ts \in first..u
    <3>1. first >= t - Window /\ ts >= first
      BY <1>1, <2>1, <2>3
    <3>2. Above(b, first) = Above(a, first) + 1
      <4>1. Above(b, first) = Above(a, first) + IF ts >= first THEN 1 ELSE 0
        BY AboveAppend
      <4> QED
        BY <3>1, <4>1
    <3>3. Above(a, first) <= Above(k, first)
      BY <3>1 DEF Covered
    <3>4. Above(a, first) \in Nat /\ Above(k, first) \in Nat /\ Above(k, first) <= Len(k)
      BY AboveBounds, <2>2
    <3> HIDE DEF b
    <3>5. Within(b, first, u) \in Nat /\ Within(b, first, u) <= Above(b, first)
      BY <1>1, <2>2, AboveBounds
    <3> QED
      BY <1>1, <2>1, <3>2, <3>3, <3>4, <3>5
  <2>4. CASE ts \notin first..u
    <3>1. /\ Len(a) \in Nat /\ Len(b) = Len(a) + 1
          /\ (\A i \in 1..Len(a) : b[i] = a[i]) /\ b[Len(a) + 1] = ts
      OBVIOUS
    <3> HIDE DEF b
    <3>2. \A i : i \in 1..Len(b) <=> i \in 1..Len(a) \/ i = Len(a) + 1
      BY <3>1
    <3>3. {i \in 1..Len(b) : b[i] \in first..u} = {i \in 1..Len(a) : a[i] \in first..u}
      BY <2>4, <3>1, <3>2
    <3> QED
      BY <2>1, <2>2, <3>3 DEF Within
  <2> QED
    BY <2>3, <2>4
<1> QED
  BY <1>2 DEF Bounded

LEMMA ClockMoves ==
    ASSUME NEW a \in Seq(Nat), NEW s \in Seq(Nat), NEW t \in Nat,
           \A i \in 1..Len(a) : a[i] <= t, Covered(a, s, t), Bounded(a, t)
    PROVE  Covered(a, s, t + 1) /\ Bounded(a, t + 1)
<1>1. Window \in Nat /\ Skew \in Nat /\ RateLimit \in Nat /\ Skew < Window
  BY AdminAssumption
<1>2. Covered(a, s, t + 1)
  <2>1. \A first \in Int : first >= (t + 1) - Window => first >= t - Window
    BY <1>1
  <2> QED
    BY <2>1 DEF Covered
<1>3. ASSUME NEW u \in 0..(t + 1) PROVE Within(a, u - (Window - Skew), u) <= RateLimit
  <2>1. CASE u \in 0..t
    BY <2>1 DEF Bounded
  <2>2. CASE u \notin 0..t
    <3>1. PICK f, g : f = (t + 1) - (Window - Skew) /\ g = t - (Window - Skew)
      OBVIOUS
    <3>2. u = t + 1 /\ f \in Int /\ g \in Int /\ f = g + 1
      BY <1>1, <2>2, <3>1
    <3>3. Within(a, g, t) <= RateLimit
      BY <3>1 DEF Bounded
    <3> DEFINE A == {i \in 1..Len(a) : a[i] \in f..(t + 1)}
               B == {i \in 1..Len(a) : a[i] \in g..t}
    <3>4. Len(a) \in Nat /\ \A i \in 1..Len(a) : a[i] \in Nat
      OBVIOUS
    <3>5. A \in SUBSET B /\ A \subseteq 1..Len(a) /\ B \subseteq 1..Len(a)
      BY <3>2, <3>4
    <3>6. Within(a, f, t + 1) = Cardinality(A) /\ Within(a, g, t) = Cardinality(B)
      BY DEF Within
    <3> HIDE DEF A, B
    <3>7. /\ IsFiniteSet(B) /\ Cardinality(B) \in Nat /\ Cardinality(A) \in Nat
      BY <3>4, <3>5, PositionsFinite
    <3>8. Cardinality(A) <= Cardinality(B)
      BY <3>5, <3>7, FS_Subset
    <3>9. Within(a, f, t + 1) <= RateLimit
      BY <1>1, <3>3, <3>6, <3>7, <3>8
    <3> QED
      BY <3>1, <3>2, <3>9
  <2> QED
    BY <2>1, <2>2
<1> QED
  BY <1>2, <1>3 DEF Bounded

LEMMA ChosenSeq ==
    ASSUME NEW X, NEW s \in Seq(X), NEW S, S \subseteq 1..Len(s), NEW q,
           Lists(q, S, LessOn(S)), NEW k, k = [n \in DOMAIN q |-> s[q[n]]]
    PROVE  k \in Seq(X)
<1>1. Len(s) \in Nat /\ \A i \in 1..Len(s) : s[i] \in X
  OBVIOUS
<1>2. PICK c : c = Cardinality(S)
  OBVIOUS
<1>3. c \in Nat
  BY <1>1, <1>2, PositionsFinite
<1>4. q \in [1..c -> S]
  BY <1>2 DEF Lists
<1>5. k = [n \in 1..c |-> s[q[n]]] /\ \A n \in 1..c : s[q[n]] \in X
  BY <1>1, <1>4
<1> QED
  BY <1>3, <1>5

\* k is what s has at the positions S, in their order.
Picks(k, s, S) ==
    \E q : Lists(q, S, LessOn(S)) /\ k = [n \in DOMAIN q |-> s[q[n]]]

LEMMA ChosenLists ==
    ASSUME NEW s, Len(s) \in Nat, NEW S, S \subseteq 1..Len(s)
    PROVE  Picks(Chosen(s, S), s, S)
<1>1. PICK q : q = Sorted(S, Less)
  OBVIOUS
<1>2. S \in SUBSET Int /\ IsFiniteSet(S)
  <2>1. \A i \in S : i \in Int
    OBVIOUS
  <2> QED
    BY <2>1, PositionsFinite
<1>3. PICK p : p = [n \in 1..Cardinality(S) |->
                      CHOOSE x \in S : Cardinality({y \in S : y < x}) = n - 1]
  OBVIOUS
<1>4. q = p
  BY <1>1, <1>3 DEF Sorted, Less
<1>5. Lists(q, S, LessOn(S))
  BY <1>2, <1>3, <1>4, LessSorted
<1>6. Chosen(s, S) = [n \in DOMAIN q |-> s[q[n]]]
  BY <1>1 DEF Chosen
<1> QED
  BY <1>5, <1>6 DEF Picks

CallShapes == [stage : {"off", "posted", "allowed"}, refs : Requests \cup {<<>>}, ts : Nat]

AdminTypes ==
    /\ dead \in Seq(Refs) /\ seconds \in Nat
    /\ recent \in Seq(Nat) /\ admitted \in Seq(Nat)
    /\ call \in [Clients -> CallShapes]

\* A request that waits for the mutex has read the clock at most Skew seconds ago.
WaitsAreShort ==
    \A c \in Clients : call[c].stage = "posted" => call[c].ts <= seconds /\ seconds <= call[c].ts + Skew

RateInv ==
    /\ \A i \in 1..Len(admitted) : admitted[i] <= seconds
    /\ RateLimit > 0 => Covered(admitted, recent, seconds) /\ Bounded(admitted, seconds)

AdminInv == AdminTypes /\ WaitsAreShort /\ RateInv

LEMMA InitAdmin == RequeueInit => AdminInv
<1> SUFFICES ASSUME RequeueInit PROVE AdminInv
  OBVIOUS
<1>1. /\ dead = <<>> /\ recent = <<>> /\ seconds = 0 /\ admitted = <<>>
      /\ call = [c \in Clients |-> NoPost]
  BY DEF RequeueInit
<1>2. NoPost \in CallShapes /\ NoPost.stage = "off"
  BY DEF NoPost, CallShapes
<1>3. AdminTypes
  BY <1>1, <1>2 DEF AdminTypes
<1>4. WaitsAreShort
  BY <1>1, <1>2 DEF WaitsAreShort
<1>5. Covered(<<>>, <<>>, 0)
  <2>1. \A first \in Int : Above(<<>>, first) \in Nat
    <3>1. <<>> \in Seq(Nat)
      OBVIOUS
    <3>2. ASSUME NEW first \in Int PROVE Above(<<>>, first) \in Nat
      BY <3>1, AboveBounds
    <3> QED
      BY <3>2
  <2>2. \A first \in Int : Above(<<>>, first) <= Above(<<>>, first)
    BY <2>1
  <2> QED
    BY <2>2 DEF Covered
<1>6. Bounded(<<>>, 0)
  <2>1. \A f, u : Within(<<>>, f, u) = 0
    <3>1. \A f, u : {i \in 1..Len(<<>>) : <<>>[i] \in f..u} = {}
      OBVIOUS
    <3> QED
      BY <3>1, FS_EmptySet DEF Within
  <2> QED
    BY <2>1, AdminAssumption DEF Bounded
<1> QED
  BY <1>1, <1>3, <1>4, <1>5, <1>6 DEF AdminInv, RateInv

LEMMA BuryKeeps ==
    ASSUME AdminInv, NEW ref \in Refs, Bury(ref)
    PROVE  AdminInv'
<1>1. dead' \in Seq(Refs) /\ UNCHANGED <<recent, call, seconds, admitted>>
  BY DEF Bury, AdminInv, AdminTypes
<1> QED
  BY <1>1 DEF AdminInv, AdminTypes, WaitsAreShort, RateInv

LEMMA PostKeeps ==
    ASSUME AdminInv, NEW c \in Clients, NEW refs \in Requests,
           NEW confirmed \in BOOLEAN, PostRequeue(c, refs, confirmed)
    PROVE  AdminInv'
<1>1. UNCHANGED <<dead, recent, seconds, admitted>>
  BY DEF PostRequeue
<1>2. PICK r : r = [stage |-> "posted", refs |-> refs, ts |-> seconds]
  OBVIOUS
<1>3. r \in CallShapes /\ r.stage = "posted" /\ r.ts = seconds
  BY <1>2 DEF CallShapes, AdminInv, AdminTypes
<1>4. call' = [call EXCEPT ![c] = r]
  BY <1>2 DEF PostRequeue
<1>5. AdminTypes'
  BY <1>1, <1>3, <1>4 DEF AdminInv, AdminTypes
<1>6. WaitsAreShort'
  <2>1. \A d \in Clients : call'[d] = IF d = c THEN r ELSE call[d]
    BY <1>4 DEF AdminInv, AdminTypes
  <2>2. seconds \in Nat /\ Skew \in Nat
    BY AdminAssumption DEF AdminInv, AdminTypes
  <2> QED
    BY <1>1, <1>3, <2>1, <2>2 DEF AdminInv, WaitsAreShort
<1> QED
  BY <1>1, <1>5, <1>6 DEF AdminInv, RateInv

LEMMA LimiterKeeps ==
    ASSUME AdminInv, NEW c \in Clients, call[c].stage = "posted"
    PROVE  /\ Kept(c) \in Seq(Nat)
           /\ RateLimit > 0 => Covered(admitted, Kept(c), seconds)
           /\ call[c].ts \in Nat /\ call[c].ts <= seconds /\ seconds <= call[c].ts + Skew
<1>1. PICK a, s, t, ts, k : /\ a = admitted /\ s = recent /\ t = seconds
                            /\ ts = call[c].ts /\ k = Kept(c)
  OBVIOUS
<1>2. call[c] \in CallShapes
  BY DEF AdminInv, AdminTypes
<1>3. ts \in Nat /\ ts <= t /\ t <= ts + Skew
  BY <1>1, <1>2 DEF CallShapes, AdminInv, WaitsAreShort
<1>4. a \in Seq(Nat) /\ s \in Seq(Nat) /\ t \in Nat /\ (RateLimit > 0 => Covered(a, s, t))
  BY <1>1 DEF AdminInv, AdminTypes, RateInv
<1>5. PICK S : S = {i \in 1..Len(s) : s[i] >= ts - Window}
  OBVIOUS
<1>6. k = Chosen(s, S)
  BY <1>1, <1>5 DEF Kept
<1>7. S \subseteq 1..Len(s)
  BY <1>5
<1>8. PICK q : Lists(q, S, LessOn(S)) /\ k = [n \in DOMAIN q |-> s[q[n]]]
  <2>1. Len(s) \in Nat
    BY <1>4
  <2>2. Picks(k, s, S)
    BY <1>6, <1>7, <2>1, ChosenLists
  <2> QED
    BY <2>2 DEF Picks
<1>9. k \in Seq(Nat)
  BY <1>4, <1>7, <1>8, ChosenSeq
<1>10. RateLimit > 0 => Covered(a, k, t)
  BY <1>3, <1>4, <1>5, <1>8, CoverKept
<1> QED
  BY <1>1, <1>3, <1>9, <1>10

LEMMA RefuseKeeps ==
    ASSUME AdminInv, NEW c \in Clients, RefuseRequeue(c)
    PROVE  AdminInv'
<1>1. /\ call[c].stage = "posted" /\ recent' = Kept(c) /\ UNCHANGED <<dead, seconds, admitted>>
      /\ call' = [call EXCEPT ![c] = NoPost]
  BY DEF RefuseRequeue
<1>2. recent' \in Seq(Nat) /\ (RateLimit > 0 => Covered(admitted, recent', seconds))
  BY <1>1, LimiterKeeps
<1>3. NoPost \in CallShapes /\ NoPost.stage = "off"
  BY DEF NoPost, CallShapes
<1>4. AdminTypes'
  BY <1>1, <1>2, <1>3 DEF AdminInv, AdminTypes
<1>5. WaitsAreShort'
  BY <1>1, <1>3 DEF AdminInv, AdminTypes, WaitsAreShort
<1> QED
  BY <1>1, <1>2, <1>4, <1>5 DEF AdminInv, RateInv

LEMMA AllowKeeps ==
    ASSUME AdminInv, NEW c \in Clients, AllowRequeue(c)
    PROVE  AdminInv'
<1>1. PICK a, t, ts, k : a = admitted /\ t = seconds /\ ts = call[c].ts /\ k = Kept(c)
  OBVIOUS
<1>2. /\ call[c].stage = "posted" /\ (RateLimit > 0 => Len(k) < RateLimit)
      /\ recent' = (IF RateLimit > 0 THEN Append(k, ts) ELSE recent)
      /\ call' = [call EXCEPT ![c].stage = "allowed"]
      /\ admitted' = Append(a, ts) /\ UNCHANGED <<dead, seconds>>
  BY <1>1 DEF AllowRequeue
<1>3. /\ k \in Seq(Nat) /\ (RateLimit > 0 => Covered(a, k, t))
      /\ ts \in Nat /\ ts <= t /\ t <= ts + Skew
  BY <1>1, <1>2, LimiterKeeps
<1>4. /\ a \in Seq(Nat) /\ t \in Nat /\ (RateLimit > 0 => Bounded(a, t))
      /\ \A i \in 1..Len(a) : a[i] <= t
  BY <1>1 DEF AdminInv, AdminTypes, RateInv
<1>5. Append(a, ts) \in Seq(Nat) /\ \A i \in 1..Len(Append(a, ts)) : Append(a, ts)[i] <= t
  BY <1>3, <1>4
<1>6. RateLimit > 0 =>
        Covered(Append(a, ts), Append(k, ts), t) /\ Bounded(Append(a, ts), t)
  BY <1>2, <1>3, <1>4, CoverAppend, BoundedAppend
<1>7. PICK r : r = [call[c] EXCEPT !.stage = "allowed"]
  OBVIOUS
<1>8. call[c] \in CallShapes
  BY DEF AdminInv, AdminTypes
<1>9. r \in CallShapes /\ r.stage = "allowed"
  BY <1>7, <1>8 DEF CallShapes
<1>10. call' = [call EXCEPT ![c] = r]
  BY <1>2, <1>7
<1>11. recent' \in Seq(Nat)
  BY <1>2, <1>3 DEF AdminInv, AdminTypes
<1>12. AdminTypes'
  BY <1>2, <1>5, <1>9, <1>10, <1>11 DEF AdminInv, AdminTypes
<1>13. WaitsAreShort'
  BY <1>2, <1>9, <1>10 DEF AdminInv, AdminTypes, WaitsAreShort
<1>14. RateInv'
  BY <1>1, <1>2, <1>5, <1>6 DEF RateInv
<1> QED
  BY <1>12, <1>13, <1>14 DEF AdminInv

LEMMA RequeueKeeps ==
    ASSUME AdminInv, NEW c \in Clients, Requeue(c)
    PROVE  AdminInv'
<1>1. /\ UNCHANGED <<recent, seconds, admitted>>
      /\ call' = [call EXCEPT ![c] = NoPost]
  BY DEF Requeue
<1>2. dead' \in Seq(Refs)
  <2>1. PICK s, S : s = dead /\ S = 1..Len(dead) \ Requeued(call[c].refs)
    OBVIOUS
  <2>2. dead' = s \/ dead' = Chosen(s, S)
    BY <2>1 DEF Requeue
  <2>3. s \in Seq(Refs) /\ S \subseteq 1..Len(s)
    BY <2>1 DEF AdminInv, AdminTypes
  <2>4. PICK k : k = Chosen(s, S)
    OBVIOUS
  <2>5. PICK q : Lists(q, S, LessOn(S)) /\ k = [n \in DOMAIN q |-> s[q[n]]]
    <3>1. Len(s) \in Nat
      BY <2>3
    <3>2. Picks(k, s, S)
      BY <2>3, <2>4, <3>1, ChosenLists
    <3> QED
      BY <3>2 DEF Picks
  <2>6. k \in Seq(Refs)
    BY <2>3, <2>5, ChosenSeq
  <2> QED
    BY <2>2, <2>3, <2>4, <2>6
<1>3. NoPost \in CallShapes /\ NoPost.stage = "off"
  BY DEF NoPost, CallShapes
<1>4. AdminTypes'
  BY <1>1, <1>2, <1>3 DEF AdminInv, AdminTypes
<1>5. WaitsAreShort'
  BY <1>1, <1>3 DEF AdminInv, AdminTypes, WaitsAreShort
<1> QED
  BY <1>1, <1>4, <1>5 DEF AdminInv, RateInv

LEMMA TickKeeps ==
    ASSUME AdminInv, SecondPasses
    PROVE  AdminInv'
<1>1. PICK a, s, t : a = admitted /\ s = recent /\ t = seconds
  OBVIOUS
<1>2. /\ a \in Seq(Nat) /\ s \in Seq(Nat) /\ t \in Nat /\ (\A i \in 1..Len(a) : a[i] <= t)
      /\ RateLimit > 0 => Covered(a, s, t) /\ Bounded(a, t)
  BY <1>1 DEF AdminInv, AdminTypes, RateInv
<1>3. seconds' = t + 1 /\ UNCHANGED <<dead, recent, call, admitted>>
  BY <1>1 DEF SecondPasses
<1>4. RateLimit > 0 => Covered(a, s, t + 1) /\ Bounded(a, t + 1)
  BY <1>2, ClockMoves
<1>5. \A i \in 1..Len(a) : a[i] <= t + 1
  <2>1. \A i \in 1..Len(a) : a[i] \in Nat
    BY <1>2
  <2> QED
    BY <1>2, <2>1
<1>6. RateInv'
  BY <1>1, <1>3, <1>4, <1>5 DEF RateInv
<1>7. AdminTypes'
  BY <1>1, <1>2, <1>3 DEF AdminInv, AdminTypes
<1>8. ASSUME NEW c \in Clients, call[c].stage = "posted"
      PROVE  call[c].ts <= t + 1 /\ t + 1 <= call[c].ts + Skew
  <2>1. PICK ts : ts = call[c].ts
    OBVIOUS
  <2>2. call[c] \in CallShapes
    BY DEF AdminInv, AdminTypes
  <2>3. ts \in Nat /\ ts <= t /\ Skew \in Nat
    BY <1>1, <1>8, <2>1, <2>2, AdminAssumption DEF CallShapes, AdminInv, WaitsAreShort
  <2>4. t < ts + Skew
    BY <1>1, <1>8, <2>1 DEF SecondPasses
  <2>5. ts <= t + 1 /\ t + 1 <= ts + Skew
    BY <1>2, <2>3, <2>4
  <2> QED
    BY <2>1, <2>5
<1>9. WaitsAreShort'
  BY <1>3, <1>8 DEF WaitsAreShort
<1> QED
  BY <1>6, <1>7, <1>9 DEF AdminInv

LEMMA StepAdmin == AdminInv /\ [RequeueNext]_requeueVars => AdminInv'
<1> SUFFICES ASSUME AdminInv, [RequeueNext]_requeueVars PROVE AdminInv'
  OBVIOUS
<1>1. CASE UNCHANGED requeueVars
  BY <1>1 DEF requeueVars, AdminInv, AdminTypes, WaitsAreShort, RateInv
<1>2. CASE RequeueNext
  BY <1>2, BuryKeeps, PostKeeps, RefuseKeeps, AllowKeeps, RequeueKeeps, TickKeeps DEF RequeueNext
<1> QED
  BY <1>1, <1>2

\* In no span of Window - Skew + 1 seconds more than RateLimit requeue requests get
\* past allowRequeue, although handlers read the clock before they wait for its mutex
\* and reach it in any order.
THEOREM RequeuesAreLimited == RequeueSpec => []RequeueRateHolds
<1>1. AdminInv => RequeueRateHolds
  BY DEF AdminInv, RateInv, Bounded, Within, RequeueRateHolds
<1>2. RequeueInit => AdminInv
  BY InitAdmin
<1>3. AdminInv /\ [RequeueNext]_requeueVars => AdminInv'
  BY StepAdmin
<1> QED
  BY <1>1, <1>2, <1>3, PTL DEF RequeueSpec

---------------------------------------------------------------------------
(* DeadLetterAdmin: dry runs. *)

LEMMA PrefixOccurrences ==
    ASSUME NEW X, NEW s \in Seq(X), NEW i \in 1..Len(s)
    PROVE  Occurrences(SubSeq(s, 1, i), s[i]) = Nth(s, i)
<1>1. PICK p : p = SubSeq(s, 1, i)
  OBVIOUS
<1>2. Len(s) \in Nat /\ Len(p) = i /\ \A j \in 1..i : p[j] = s[j]
  BY <1>1
<1>3. {j \in 1..Len(p) : p[j] = s[i]} = {j \in 1..i : s[j] = s[i]}
  BY <1>2
<1> QED
  BY <1>1, <1>3 DEF Occurrences, Nth

LEMMA OccurrencesPositions ==
    ASSUME NEW s, NEW x
    PROVE  Occurrences(s, x) = Cardinality(Positions(s, Len(s), x))
BY DEF Occurrences, Positions

\* countMatchingRefs and RequeueDeadLetters count the same pairs.
LEMMA CountsAgree ==
    ASSUME NEW X, NEW s \in Seq(X), NEW Y, NEW t \in Seq(Y)
    PROVE  Cardinality({i \in 1..Len(s) :
                Occurrences(SubSeq(s, 1, i), s[i]) <= Occurrences(t, s[i])})
             = Cardinality({i \in 1..Len(t) :
                 Occurrences(SubSeq(t, 1, i), t[i]) <= Occurrences(s, t[i])})
<1>1. {i \in 1..Len(s) : Occurrences(SubSeq(s, 1, i), s[i]) <= Occurrences(t, s[i])}
        = Answered(s, Len(s), t, Len(t))
  BY PrefixOccurrences, OccurrencesPositions DEF Answered
<1>2. {i \in 1..Len(t) : Occurrences(SubSeq(t, 1, i), t[i]) <= Occurrences(s, t[i])}
        = Answered(t, Len(t), s, Len(s))
  BY PrefixOccurrences, OccurrencesPositions DEF Answered
<1>3. Len(s) \in Nat /\ Len(t) \in Nat
  OBVIOUS
<1>4. Cardinality(Answered(s, Len(s), t, Len(t))) = Cardinality(Answered(t, Len(t), s, Len(s)))
  <2>1. PICK n, m : n = Len(s) /\ m = Len(t)
    OBVIOUS
  <2>2. Cardinality(Answered(s, n, t, m)) = Cardinality(Answered(t, m, s, n))
    BY <1>3, <2>1, AnswersMatch
  <2> QED
    BY <2>1, <2>2
<1> QED
  BY <1>1, <1>2, <1>4

LEMMA DryRunCounts ==
    ASSUME AdminTypes, NEW refs \in Requests, Len(dead) <= 4 * Len(refs)
    PROVE  DryRun(refs) = Cardinality(Requeued(refs))
<1>1. refs \in Seq(Refs \cup {NoRef})
  <2>1. PICK m \in 0..(MaxBatch + 1) : refs \in [1..m -> Refs \cup {NoRef}]
    BY AdminAssumption DEF Requests, BoundedSeq, SeqOf
  <2>2. m \in Nat
    BY <2>1, AdminAssumption
  <2> QED
    BY <2>1, <2>2
<1>2. PICK t \in Seq(Refs) : t = dead
  BY DEF AdminTypes
<1>3. ListDeadLetters(4 * Len(refs)) = t
  <2>1. Len(refs) \in Nat /\ Len(t) \in Nat /\ Len(t) <= 4 * Len(refs)
    BY <1>1, <1>2
  <2>2. ~(4 * Len(refs) < Len(t))
    BY <2>1
  <2>3. ListDeadLetters(4 * Len(refs)) = SubSeq(t, 1, Len(t))
    BY <1>2, <2>2 DEF ListDeadLetters
  <2> QED
    BY <2>3
<1>4. DryRun(refs) =
        Cardinality({i \in 1..Len(refs) :
            Occurrences(SubSeq(refs, 1, i), refs[i]) <= Occurrences(t, refs[i])})
  BY <1>3 DEF DryRun, countMatchingRefs
<1>5. Requeued(refs) =
        {i \in 1..Len(t) : Occurrences(SubSeq(t, 1, i), t[i]) <= Occurrences(refs, t[i])}
  BY <1>2 DEF Requeued, Taken
<1> QED
  BY <1>1, <1>4, <1>5, CountsAgree

\* A dry run of POST /v1/admin/queue/dead-letter answers the number of letters a
\* requeue at this moment would move, repeated and absent refs included, as long as
\* the letters it lists are all.
THEOREM DryRunsAreExact == RequeueSpec => []DryRunExact
<1>1. AdminInv => DryRunExact
  BY DryRunCounts DEF AdminInv, DryRunExact
<1>2. RequeueInit => AdminInv
  BY InitAdmin
<1>3. AdminInv /\ [RequeueNext]_requeueVars => AdminInv'
  BY StepAdmin
<1> QED
  BY <1>1, <1>2, <1>3, PTL DEF RequeueSpec
=============================================================================
