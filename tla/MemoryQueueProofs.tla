------------------------- MODULE MemoryQueueProofs -------------------------
(***************************************************************************)
(* Proofs about MemoryQueue for every set of refs, batch size, error limit *)
(* and bound: its types, that no copy is doubled or lost, and that every   *)
(* step of it is a step of TaskQueue or none.                              *)
(***************************************************************************)
EXTENDS MemoryQueue, TLAPS

\* All copies the queue has or had.
Copied == Waiting \cup Claimed \cup DeadLettered \cup acked

\* The claims outside q.inflight: those of the callers and the rest of a batch.
Hands == held \cup (IF mu.op = "nack" THEN Range(mu.rest) ELSE {})

\* Copy numbers were given out, each to one copy.
IdsKnown ==
    /\ \A c \in Copied : c.id \in 1..issued
    /\ \A c, d \in Copied : c.id = d.id => c = d

\* The dead letters a RequeueDeadLetters call has passed are others than those
\* it has not reached.
KeptApart ==
    mu.op = "revive" => IsInjective(mu.kept) /\ Range(mu.kept) \cap Range(dead) = {}

\* A receipt names the copy it was issued for, or nothing that is in flight.
HandsKnown ==
    \A c \in Hands :
        /\ c.receipt \in 1..counter
        /\ c.copy \in Copied
        /\ c.receipt \in DOMAIN inflight => inflight[c.receipt].copy = c.copy

QInv == TypeOK /\ NoCopyInTwoPlaces /\ NoCopyLost /\ IdsKnown /\ KeptApart /\ HandsKnown

---------------------------------------------------------------------------
\* What the operations on sequences do to the set of elements, and that they
\* keep the elements distinct.
LEMMA SeqRange ==
    ASSUME NEW S, NEW s \in Seq(S)
    PROVE  /\ Len(s) \in Nat
           /\ DOMAIN s = 1..Len(s)
           /\ Range(s) = {s[i] : i \in 1..Len(s)}
           /\ Range(s) \subseteq S
           /\ s = <<>> <=> Range(s) = {}
           /\ s = <<>> <=> Len(s) = 0
<1>1. Len(s) \in Nat /\ DOMAIN s = 1..Len(s) /\ \A i \in 1..Len(s) : s[i] \in S
  OBVIOUS
<1>2. Range(s) = {s[i] : i \in 1..Len(s)}
  BY <1>1 DEF Range
<1>3. s = <<>> <=> Len(s) = 0
  OBVIOUS
<1>4. Len(s) # 0 => 1 \in 1..Len(s)
  BY <1>1
<1>5. Len(s) = 0 => Range(s) = {}
  BY <1>1, <1>2
<1> QED
  BY <1>1, <1>2, <1>3, <1>4, <1>5

LEMMA AppendRange ==
    ASSUME NEW S, NEW s \in Seq(S), NEW e \in S
    PROVE  /\ Append(s, e) \in Seq(S)
           /\ Range(Append(s, e)) = Range(s) \cup {e}
           /\ IsInjective(s) /\ e \notin Range(s) => IsInjective(Append(s, e))
<1> DEFINE t == Append(s, e)
<1>1. t \in Seq(S) /\ Len(t) = Len(s) + 1 /\ Len(s) \in Nat
  OBVIOUS
<1>2. \A i \in 1..Len(s) : t[i] = s[i]
  OBVIOUS
<1>3. t[Len(s) + 1] = e
  OBVIOUS
<1> HIDE DEF t
<1>4. /\ Range(s) = {s[i] : i \in 1..Len(s)} /\ DOMAIN s = 1..Len(s)
      /\ Range(t) = {t[i] : i \in 1..Len(t)} /\ DOMAIN t = 1..Len(t)
  BY <1>1, SeqRange
<1>5. \A i \in 1..Len(t) : i \in 1..Len(s) \/ i = Len(s) + 1
  BY <1>1
<1>6. 1..Len(s) \subseteq 1..Len(t) /\ Len(s) + 1 \in 1..Len(t)
  BY <1>1
<1>7. Range(t) = Range(s) \cup {e}
  BY <1>2, <1>3, <1>4, <1>5, <1>6
<1>8. ASSUME IsInjective(s), e \notin Range(s) PROVE IsInjective(t)
  BY <1>2, <1>3, <1>4, <1>5, <1>8 DEF IsInjective
<1> QED
  BY <1>1, <1>7, <1>8 DEF t

LEMMA ConcatRange ==
    ASSUME NEW S, NEW s \in Seq(S), NEW t \in Seq(S)
    PROVE  /\ s \o t \in Seq(S)
           /\ Range(s \o t) = Range(s) \cup Range(t)
           /\ IsInjective(s) /\ IsInjective(t) /\ Range(s) \cap Range(t) = {}
                => IsInjective(s \o t)
<1> DEFINE u == s \o t
<1>1. u \in Seq(S) /\ Len(u) = Len(s) + Len(t) /\ Len(s) \in Nat /\ Len(t) \in Nat
  OBVIOUS
<1>2. \A i \in 1..Len(s) : u[i] = s[i]
  OBVIOUS
<1>3. \A i \in 1..Len(t) : u[Len(s) + i] = t[i]
  OBVIOUS
<1> HIDE DEF u
<1>4. /\ Range(s) = {s[i] : i \in 1..Len(s)} /\ DOMAIN s = 1..Len(s)
      /\ Range(t) = {t[i] : i \in 1..Len(t)} /\ DOMAIN t = 1..Len(t)
      /\ Range(u) = {u[i] : i \in 1..Len(u)} /\ DOMAIN u = 1..Len(u)
  BY <1>1, SeqRange
<1>5. \A i \in 1..Len(u) : i \in 1..Len(s)
                           \/ (i - Len(s) \in 1..Len(t) /\ i = Len(s) + (i - Len(s)))
  BY <1>1
<1>6. 1..Len(s) \subseteq 1..Len(u) /\ \A i \in 1..Len(t) : Len(s) + i \in 1..Len(u)
  BY <1>1
<1>7. Range(u) = Range(s) \cup Range(t)
  <2>1. \A i \in 1..Len(u) : u[i] \in Range(s) \cup Range(t)
    BY <1>2, <1>3, <1>4, <1>5
  <2>2. \A i \in 1..Len(s) : s[i] \in Range(u)
    BY <1>2, <1>4, <1>6
  <2>3. \A i \in 1..Len(t) : t[i] \in Range(u)
    BY <1>3, <1>4, <1>6
  <2> QED
    BY <2>1, <2>2, <2>3, <1>4
<1>8. ASSUME IsInjective(s), IsInjective(t), Range(s) \cap Range(t) = {}
      PROVE  IsInjective(u)
  <2> SUFFICES ASSUME NEW i \in 1..Len(u), NEW j \in 1..Len(u), u[i] = u[j] PROVE i = j
    BY <1>4 DEF IsInjective
  <2>1. CASE i \in 1..Len(s) /\ j \in 1..Len(s)
    BY <2>1, <1>2, <1>4, <1>8 DEF IsInjective
  <2>2. CASE i \in 1..Len(s) /\ j \notin 1..Len(s)
    <3>1. u[i] \in Range(s) /\ u[j] \in Range(t)
      BY <2>2, <1>2, <1>3, <1>4, <1>5
    <3> QED
      BY <3>1, <1>8
  <2>3. CASE i \notin 1..Len(s) /\ j \in 1..Len(s)
    <3>1. u[j] \in Range(s) /\ u[i] \in Range(t)
      BY <2>3, <1>2, <1>3, <1>4, <1>5
    <3> QED
      BY <3>1, <1>8
  <2>4. CASE i \notin 1..Len(s) /\ j \notin 1..Len(s)
    <3>1. /\ i - Len(s) \in 1..Len(t) /\ u[i] = t[i - Len(s)]
          /\ j - Len(s) \in 1..Len(t) /\ u[j] = t[j - Len(s)]
      BY <2>4, <1>3, <1>5
    <3>2. i - Len(s) = j - Len(s)
      BY <3>1, <1>4, <1>8 DEF IsInjective
    <3> QED
      BY <3>2, <1>1
  <2> QED
    BY <2>1, <2>2, <2>3, <2>4
<1> QED
  BY <1>1, <1>7, <1>8 DEF u

LEMMA DropRange ==
    ASSUME NEW S, NEW s \in Seq(S), NEW n \in 0..Len(s), IsInjective(s)
    PROVE  LET t == SubSeq(s, n + 1, Len(s))
           IN  /\ t \in Seq(S)
               /\ IsInjective(t)
               /\ Range(t) = Range(s) \ {s[i] : i \in 1..n}
<1> DEFINE t == SubSeq(s, n + 1, Len(s))
<1>1. t \in Seq(S) /\ Len(t) = Len(s) - n /\ Len(s) \in Nat
  OBVIOUS
<1>2. \A i \in 1..Len(t) : t[i] = s[n + i]
  OBVIOUS
<1> HIDE DEF t
<1>3. /\ Range(s) = {s[i] : i \in 1..Len(s)} /\ DOMAIN s = 1..Len(s)
      /\ Range(t) = {t[i] : i \in 1..Len(t)} /\ DOMAIN t = 1..Len(t)
  BY <1>1, SeqRange
<1>4. \A i \in 1..Len(t) : n + i \in 1..Len(s) /\ n + i \notin 1..n
  BY <1>1
<1>5. \A i \in 1..Len(s) : i \in 1..n \/ (i - n \in 1..Len(t) /\ n + (i - n) = i)
  BY <1>1
<1>6. 1..n \subseteq 1..Len(s)
  BY <1>1
<1>7. IsInjective(t)
  <2> SUFFICES ASSUME NEW i \in 1..Len(t), NEW j \in 1..Len(t), t[i] = t[j] PROVE i = j
    BY <1>3 DEF IsInjective
  <2>1. n + i = n + j
    BY <1>2, <1>3, <1>4 DEF IsInjective
  <2> QED
    BY <2>1, <1>1
<1>8. \A i \in 1..Len(t) : t[i] \in Range(s) /\ \A j \in 1..n : t[i] # s[j]
  <2> SUFFICES ASSUME NEW i \in 1..Len(t) PROVE t[i] \in Range(s) /\ \A j \in 1..n : t[i] # s[j]
    OBVIOUS
  <2>1. n + i \in 1..Len(s) /\ t[i] = s[n + i]
    BY <1>2, <1>4
  <2>2. \A j \in 1..n : j \in 1..Len(s) /\ j # n + i
    BY <1>4, <1>6
  <2> QED
    BY <2>1, <2>2, <1>3 DEF IsInjective
<1>9. \A i \in 1..Len(s) : (\A j \in 1..n : s[i] # s[j]) => s[i] \in Range(t)
  <2> SUFFICES ASSUME NEW i \in 1..Len(s), \A j \in 1..n : s[i] # s[j] PROVE s[i] \in Range(t)
    OBVIOUS
  <2>1. i \notin 1..n
    OBVIOUS
  <2>2. i - n \in 1..Len(t) /\ t[i - n] = s[i]
    BY <2>1, <1>2, <1>5
  <2> QED
    BY <2>2, <1>3
<1>10. Range(t) = Range(s) \ {s[i] : i \in 1..n}
  BY <1>3, <1>8, <1>9
<1> QED
  BY <1>1, <1>7, <1>10 DEF t

LEMMA TailRange ==
    ASSUME NEW S, NEW s \in Seq(S), s # <<>>
    PROVE  /\ Head(s) \in S
           /\ Head(s) \in Range(s)
           /\ Tail(s) \in Seq(S)
           /\ Range(Tail(s)) \subseteq Range(s)
           /\ Range(s) = Range(Tail(s)) \cup {Head(s)}
           /\ IsInjective(s) => /\ IsInjective(Tail(s))
                                /\ Head(s) \notin Range(Tail(s))
<1> DEFINE t == Tail(s)
<1>1. t \in Seq(S) /\ Len(t) = Len(s) - 1 /\ Len(s) \in Nat /\ Len(s) > 0 /\ Head(s) = s[1]
  OBVIOUS
<1>2. \A i \in 1..Len(t) : t[i] = s[i + 1]
  OBVIOUS
<1> HIDE DEF t
<1>3. /\ Range(s) = {s[i] : i \in 1..Len(s)} /\ DOMAIN s = 1..Len(s)
      /\ Range(t) = {t[i] : i \in 1..Len(t)} /\ DOMAIN t = 1..Len(t)
  BY <1>1, SeqRange
<1>4. 1 \in 1..Len(s) /\ \A i \in 1..Len(t) : i + 1 \in 1..Len(s) /\ i + 1 # 1
  BY <1>1
<1>5. \A i \in 1..Len(s) : i = 1 \/ (i - 1 \in 1..Len(t) /\ (i - 1) + 1 = i)
  BY <1>1
<1>6. Range(t) \subseteq Range(s) /\ Range(s) \subseteq Range(t) \cup {Head(s)}
  <2>1. \A i \in 1..Len(t) : t[i] \in Range(s)
    BY <1>2, <1>3, <1>4
  <2>2. \A i \in 1..Len(s) : s[i] \in Range(t) \cup {Head(s)}
    BY <1>1, <1>2, <1>3, <1>5
  <2> QED
    BY <2>1, <2>2, <1>3
<1>7. Head(s) \in Range(s) /\ Head(s) \in S
  BY <1>1, <1>3, <1>4
<1>8. ASSUME IsInjective(s) PROVE IsInjective(t) /\ Head(s) \notin Range(t)
  <2>1. ASSUME NEW i \in 1..Len(t), NEW j \in 1..Len(t), t[i] = t[j] PROVE i = j
    <3>1. i + 1 = j + 1
      BY <2>1, <1>2, <1>3, <1>4, <1>8 DEF IsInjective
    <3> QED
      BY <3>1, <1>1
  <2>2. \A i \in 1..Len(t) : t[i] # Head(s)
    BY <1>1, <1>2, <1>3, <1>4, <1>8 DEF IsInjective
  <2> QED
    BY <2>1, <2>2, <1>3 DEF IsInjective
<1> QED
  BY <1>1, <1>6, <1>7, <1>8 DEF t

\* A bounded sequence is a sequence.
LEMMA BoundedIsSeq ==
    ASSUME NEW S, NEW n \in Nat, NEW s \in BoundedSeq(S, n)
    PROVE  s \in Seq(S) /\ Len(s) \in 0..n
<1>1. PICK m \in 0..n : s \in [1..m -> S]
  BY DEF BoundedSeq, SeqOf
<1> QED
  BY <1>1

---------------------------------------------------------------------------
LEMMA InitQInv == Init => QInv
<1> SUFFICES ASSUME Init PROVE QInv
  OBVIOUS
<1>1. /\ Range(items) = {} /\ Range(dead) = {} /\ DOMAIN inflight = {}
      /\ DOMAIN items = {} /\ DOMAIN dead = {}
  BY DEF Init, Range
<1>2. mu.op = "free" /\ Copied = {} /\ Hands = {}
  BY <1>1 DEF Init, Free, Copied, Waiting, Claimed, DeadLettered, Hands
<1>3. TypeOK
  BY <1>1 DEF Init, TypeOK
<1>4. NoCopyInTwoPlaces
  BY <1>1, <1>2 DEF Init, NoCopyInTwoPlaces, IsInjective, Waiting, Claimed, DeadLettered, Copied
<1> QED
  BY <1>2, <1>3, <1>4 DEF QInv, NoCopyLost, IdsKnown, KeptApart, HandsKnown, Init

\* A step that moves copies between places keeps what is about all of them.
LEMMA CopiesKept ==
    ASSUME QInv, Copied' = Copied, UNCHANGED issued
    PROVE  NoCopyLost' /\ IdsKnown'
<1>1. NoCopyLost'
  <2> SUFFICES ASSUME NEW k \in 1..issued PROVE \E copy \in Copied' : copy.id = k
    BY DEF NoCopyLost, Copied
  <2> QED
    BY DEF QInv, NoCopyLost, Copied
<1>2. IdsKnown'
  BY DEF QInv, IdsKnown
<1> QED
  BY <1>1, <1>2

\* The places of a copy exclude each other.
LEMMA PlacesApart ==
    ASSUME QInv
    PROVE  /\ IsInjective(items) /\ IsInjective(dead)
           /\ items \in Seq(Copies) /\ dead \in Seq(Copies)
           /\ Waiting \cap Claimed = {}
           /\ Waiting \cap DeadLettered = {}
           /\ Claimed \cap DeadLettered = {}
           /\ acked \cap (Waiting \cup Claimed \cup DeadLettered) = {}
           /\ Waiting \subseteq Copies
           /\ Claimed \subseteq Copies
BY SeqRange DEF QInv, NoCopyInTwoPlaces, TypeOK, Waiting, Claimed, Inflight

\* EnqueueMany adds copies with new numbers to those that wait.
LEMMA EnqueueStep ==
    ASSUME QInv, NEW refs \in BoundedSeq(Refs, MaxBatch), EnqueueMany(refs)
    PROVE  /\ QInv'
           /\ \E S \in SUBSET Copies :
                 /\ Waiting' = Waiting \cup S
                 /\ \A c \in S : c.id \in (issued + 1)..(issued + Len(refs))
                 /\ \A k \in (issued + 1)..(issued + Len(refs)) : \E c \in S : c.id = k
<1> DEFINE n == Len(refs)
           new == [i \in 1..n |-> [ref |-> refs[i], id |-> issued + i]]
           S == Range(new)
<1>1. refs \in Seq(Refs) /\ n \in Nat
  BY BoundedIsSeq, MaxBatchAssumption
<1>2. items \in Seq(Copies) /\ issued \in Nat
  BY DEF QInv, TypeOK
<1>3. items' = items \o new /\ issued' = issued + n
  BY DEF EnqueueMany
<1>4. UNCHANGED <<inflight, nack, dead, counter, mu, held, acked>>
  BY DEF EnqueueMany
<1>5. \A i \in 1..n : refs[i] \in Refs /\ issued + i \in (issued + 1)..(issued + n)
  BY <1>1, <1>2
<1>6. new \in [1..n -> Copies]
  BY <1>1, <1>2, <1>5 DEF Copies
<1>7. new \in Seq(Copies) /\ DOMAIN new = 1..n /\ \A i \in 1..n : new[i].id = issued + i
  BY <1>1, <1>6
<1> HIDE DEF new
<1>8. S = {new[i] : i \in 1..n} /\ S \subseteq Copies
  BY <1>7, SeqRange DEF Range
<1> HIDE DEF S
<1>9. \A c \in S : c.id \in (issued + 1)..(issued + n) /\ c.id \notin 1..issued
  BY <1>1, <1>2, <1>5, <1>7, <1>8
<1>10. \A k \in (issued + 1)..(issued + n) : \E c \in S : c.id = k
  <2> SUFFICES ASSUME NEW k \in (issued + 1)..(issued + n) PROVE \E c \in S : c.id = k
    OBVIOUS
  <2>1. k - issued \in 1..n /\ issued + (k - issued) = k
    BY <1>1, <1>2
  <2> QED
    BY <2>1, <1>7, <1>8
<1>11. S \cap Copied = {}
  BY <1>9 DEF QInv, IdsKnown
<1>12. IsInjective(new)
  <2> SUFFICES ASSUME NEW i \in 1..n, NEW j \in 1..n, new[i] = new[j] PROVE i = j
    BY <1>7 DEF IsInjective
  <2>1. issued + i = issued + j
    BY <1>7
  <2> QED
    BY <2>1, <1>1, <1>2
<1>13. /\ items' \in Seq(Copies)
       /\ Waiting' = Waiting \cup S
       /\ IsInjective(items')
  BY <1>2, <1>3, <1>7, <1>11, <1>12, ConcatRange, PlacesApart DEF Waiting, S, Copied
<1>14. Claimed' = Claimed /\ DeadLettered' = DeadLettered /\ Hands' = Hands
  BY <1>4 DEF Claimed, DeadLettered, Hands
<1>15. Copied' = Copied \cup S
  BY <1>4, <1>13, <1>14 DEF Copied
<1>16. TypeOK'
  <2>1. TypeOK /\ issued' \in Nat
    BY <1>1, <1>2, <1>3 DEF QInv
  <2> QED
    BY <2>1, <1>13, <1>4 DEF TypeOK
<1>17. NoCopyInTwoPlaces'
  BY <1>4, <1>11, <1>13, <1>14 DEF QInv, NoCopyInTwoPlaces, Copied
<1>18. NoCopyLost'
  <2> SUFFICES ASSUME NEW k \in 1..issued' PROVE \E c \in Copied' : c.id = k
    BY DEF NoCopyLost, Copied
  <2>1. k \in 1..issued \/ k \in (issued + 1)..(issued + n)
    BY <1>1, <1>2, <1>3
  <2>2. \A l \in 1..issued : \E c \in Copied : c.id = l
    BY DEF QInv, NoCopyLost, Copied
  <2> QED
    BY <2>1, <2>2, <1>10, <1>15
<1>19. IdsKnown'
  <2>1. \A c \in S : c.id \in 1..issued'
    BY <1>1, <1>2, <1>3, <1>9
  <2>2. \A c \in Copied : c.id \in 1..issued /\ c.id \in 1..issued'
    BY <1>1, <1>2, <1>3 DEF QInv, IdsKnown
  <2>3. \A c, d \in S : c.id = d.id => c = d
    <3> SUFFICES ASSUME NEW i \in 1..n, NEW j \in 1..n, new[i].id = new[j].id PROVE new[i] = new[j]
      BY <1>8
    <3>1. issued + i = issued + j
      BY <1>7
    <3>2. i = j
      BY <3>1, <1>1, <1>2
    <3> QED
      BY <3>2
  <2>4. \A c, d \in Copied : c.id = d.id => c = d
    BY DEF QInv, IdsKnown
  <2> QED
    BY <2>1, <2>2, <2>3, <2>4, <1>9, <1>15 DEF IdsKnown
<1>20. KeptApart' /\ HandsKnown'
  BY <1>4, <1>14, <1>15 DEF QInv, KeptApart, HandsKnown
<1> QED
  BY <1>8, <1>9, <1>10, <1>13, <1>16, <1>17, <1>18, <1>19, <1>20 DEF QInv

\* Claim moves the first n items, each under a receipt of its own.
LEMMA ClaimStep ==
    ASSUME QInv, NEW max \in 1..MaxBatch, Claim(max)
    PROVE  /\ QInv'
           /\ \E n \in 1..Len(items) :
                 /\ Waiting' = Waiting \ {items[i] : i \in 1..n}
                 /\ Claimed' = Claimed \cup {items[i] : i \in 1..n}
                 /\ DOMAIN inflight' = DOMAIN inflight \cup (counter + 1)..(counter + n)
                 /\ \A r \in DOMAIN inflight : inflight'[r] = inflight[r]
                 /\ \A i \in 1..n : inflight'[counter + i].copy = items[i]
                 /\ held' = held \cup {[receipt |-> counter + i, copy |-> items[i]] : i \in 1..n}
<1> DEFINE n == IF max > Len(items) THEN Len(items) ELSE max
           S == {items[i] : i \in 1..n}
           news == (counter + 1)..(counter + n)
<1>1. /\ items \in Seq(Copies) /\ Len(items) \in Nat /\ counter \in Nat /\ max \in Nat
      /\ DOMAIN inflight \subseteq 1..counter
      /\ inflight \in [DOMAIN inflight -> Inflight]
      /\ DOMAIN items = 1..Len(items)
  BY MaxBatchAssumption DEF QInv, TypeOK
<1>2. /\ mu = Free /\ n > 0
      /\ items' = SubSeq(items, n + 1, Len(items))
      /\ inflight' = [r \in DOMAIN inflight \cup news |->
                        IF r \in news THEN [copy |-> items[r - counter], lapsed |-> FALSE]
                        ELSE inflight[r]]
      /\ held' = held \cup {[receipt |-> counter + i, copy |-> items[i]] : i \in 1..n}
      /\ counter' = counter + n
  BY DEF Claim
<1>3. UNCHANGED <<nack, dead, mu, issued, acked>>
  BY DEF Claim
<1>4. n \in 1..Len(items) /\ n \in Nat /\ n \in 0..Len(items)
  BY <1>1, <1>2
<1> HIDE DEF n
<1>5. 1..n \subseteq 1..Len(items) /\ S \subseteq Waiting
  BY <1>1, <1>4 DEF Waiting, Range
<1>6. \A r \in news : r \notin DOMAIN inflight /\ r - counter \in 1..n
  BY <1>1, <1>4
<1>7. \A i \in 1..n : counter + i \in news /\ (counter + i) - counter = i
  BY <1>1, <1>4
<1>8. /\ items' \in Seq(Copies) /\ IsInjective(items') /\ Waiting' = Waiting \ S
  BY <1>1, <1>2, <1>4, DropRange, PlacesApart DEF Waiting
<1>9. DOMAIN inflight' = DOMAIN inflight \cup news
  BY <1>2
<1>10. \A r \in DOMAIN inflight : inflight'[r] = inflight[r]
  BY <1>2, <1>6
<1>11. \A r \in news : inflight'[r] = [copy |-> items[r - counter], lapsed |-> FALSE]
  BY <1>2
<1> HIDE DEF news
<1>12. ASSUME NEW r \in news
       PROVE  /\ inflight'[r].copy = items[r - counter] /\ items[r - counter] \in S
              /\ inflight'[r].lapsed = FALSE
  <2>1. r - counter \in 1..n
    BY <1>6
  <2>2. items[r - counter] \in S
    BY <2>1
  <2>3. inflight'[r] = [copy |-> items[r - counter], lapsed |-> FALSE]
    BY <1>11
  <2> HIDE DEF S
  <2> QED
    BY <2>2, <2>3
<1>13. ASSUME NEW i \in 1..n PROVE inflight'[counter + i].copy = items[i]
  BY <1>7, <1>12
<1>14. Claimed' = Claimed \cup S
  <2>1. \A r \in DOMAIN inflight' : inflight'[r].copy \in Claimed \cup S
    BY <1>9, <1>10, <1>12 DEF Claimed
  <2>2. \A r \in DOMAIN inflight : inflight[r].copy \in Claimed'
    BY <1>9, <1>10 DEF Claimed
  <2>3. \A i \in 1..n : items[i] \in Claimed'
    BY <1>7, <1>9, <1>13 DEF Claimed
  <2> QED
    BY <2>1, <2>2, <2>3 DEF Claimed
<1>15. DeadLettered' = DeadLettered
  BY <1>3 DEF DeadLettered
<1>16. Copied' = Copied
  BY <1>3, <1>5, <1>8, <1>14, <1>15 DEF Copied
<1>17. NoCopyLost' /\ IdsKnown'
  BY <1>3, <1>16, CopiesKept
<1>18. mu.op # "revive" /\ mu.op # "nack"
  BY <1>2 DEF Free
<1>19. KeptApart'
  BY <1>3, <1>18 DEF KeptApart
<1>20. S \subseteq Copies /\ S \subseteq Copied
  BY <1>5, PlacesApart DEF Copied
<1>21. TypeOK'
  <2>1. counter' \in Nat /\ DOMAIN inflight' \subseteq 1..counter'
    BY <1>1, <1>2, <1>4, <1>9 DEF news
  <2>2. \A r \in DOMAIN inflight' : inflight'[r] \in Inflight
    <3>2. ASSUME NEW r \in news PROVE inflight'[r] \in Inflight
      <4>1. items[r - counter] \in Copies
        BY <1>12, <1>20
      <4>2. [copy |-> items[r - counter], lapsed |-> FALSE] \in Inflight
        BY <4>1 DEF Inflight
      <4> QED
        BY <4>2, <1>11
    <3> QED
      BY <3>2, <1>1, <1>9, <1>10
  <2>3. inflight' \in [DOMAIN inflight' -> Inflight]
    BY <2>2, <1>2
  <2>4. \A i \in 1..n : [receipt |-> counter + i, copy |-> items[i]] \in Claims
    BY <1>1, <1>4, <1>20 DEF Claims
  <2>5. held' \subseteq Claims
    BY <2>4, <1>2 DEF QInv, TypeOK
  <2> QED
    BY <2>1, <2>3, <2>5, <1>3, <1>8 DEF QInv, TypeOK
<1>22. NoCopyInTwoPlaces'
  <2>1. \A r, s \in DOMAIN inflight' : inflight'[r].copy = inflight'[s].copy => r = s
    <3> SUFFICES ASSUME NEW r \in DOMAIN inflight', NEW s \in DOMAIN inflight',
                        inflight'[r].copy = inflight'[s].copy
                 PROVE  r = s
      OBVIOUS
    <3>1. \A q \in DOMAIN inflight : inflight'[q].copy \in Claimed /\ inflight'[q].copy = inflight[q].copy
      BY <1>10 DEF Claimed
    <3>2. Claimed \cap S = {}
      BY <1>5, PlacesApart
    <3>3. CASE r \in DOMAIN inflight /\ s \in DOMAIN inflight
      BY <3>3, <3>1 DEF QInv, NoCopyInTwoPlaces
    <3>4. CASE r \in news /\ s \in news
      <4>1. r - counter \in 1..n /\ s - counter \in 1..n /\ items[r - counter] = items[s - counter]
        BY <3>4, <1>6, <1>12
      <4>2. r - counter = s - counter
        BY <4>1, <1>1, <1>5, PlacesApart DEF IsInjective
      <4>3. r \in Int /\ s \in Int
        BY <3>4, <1>1, <1>4 DEF news
      <4> QED
        BY <4>2, <4>3, <1>1
    <3> QED
      BY <3>1, <3>2, <3>3, <3>4, <1>9, <1>12
  <2>2. /\ Waiting' \cap Claimed' = {} /\ Waiting' \cap DeadLettered' = {}
        /\ Claimed' \cap DeadLettered' = {}
        /\ acked' \cap (Waiting' \cup Claimed' \cup DeadLettered') = {}
    BY <1>3, <1>5, <1>8, <1>14, <1>15, PlacesApart
  <2> QED
    BY <2>1, <2>2, <1>3, <1>8, PlacesApart DEF NoCopyInTwoPlaces
<1>23. HandsKnown'
  <2> SUFFICES ASSUME NEW c \in held'
               PROVE  /\ c.receipt \in 1..counter'
                      /\ c.copy \in Copied
                      /\ c.receipt \in DOMAIN inflight' => inflight'[c.receipt].copy = c.copy
    BY <1>3, <1>16, <1>18 DEF HandsKnown, Hands
  <2>1. CASE c \in held
    <3>1. /\ c.receipt \in 1..counter /\ c.copy \in Copied
          /\ c.receipt \in DOMAIN inflight => inflight[c.receipt].copy = c.copy
      BY <2>1 DEF QInv, HandsKnown, Hands
    <3>2. c.receipt \notin news /\ c.receipt \in 1..counter'
      BY <3>1, <1>1, <1>2, <1>4 DEF news
    <3> QED
      BY <3>1, <3>2, <1>9, <1>10
  <2>2. CASE c \notin held
    <3>1. PICK i \in 1..n : c = [receipt |-> counter + i, copy |-> items[i]]
      BY <2>2, <1>2
    <3>2. c.receipt = counter + i /\ c.copy = items[i] /\ counter + i \in 1..counter'
      BY <3>1, <1>1, <1>2, <1>4
    <3> QED
      BY <3>2, <1>13, <1>20
  <2> QED
    BY <2>1, <2>2
<1>24. QInv'
  BY <1>17, <1>19, <1>21, <1>22, <1>23 DEF QInv
<1> QED
  BY <1>2, <1>4, <1>8, <1>9, <1>10, <1>13, <1>14, <1>24 DEF news

\* Lapse changes no place.
LEMMA LapseStep ==
    ASSUME QInv, NEW r \in DOMAIN inflight, Lapse(r)
    PROVE  /\ QInv'
           /\ Claimed' = Claimed /\ DOMAIN inflight' = DOMAIN inflight
           /\ \A s \in DOMAIN inflight : inflight'[s].copy = inflight[s].copy
<1>1. UNCHANGED <<items, nack, dead, counter, mu, held, issued, acked>>
  BY DEF Lapse
<1>2. inflight' = [inflight EXCEPT ![r].lapsed = TRUE]
  BY DEF Lapse
<1>3. inflight \in [DOMAIN inflight -> Inflight]
  BY DEF QInv, TypeOK
<1>4. /\ DOMAIN inflight' = DOMAIN inflight
      /\ inflight' \in [DOMAIN inflight -> Inflight]
      /\ \A s \in DOMAIN inflight : inflight'[s].copy = inflight[s].copy
  BY <1>2, <1>3 DEF Inflight
<1>5. /\ Claimed' = Claimed /\ Waiting' = Waiting /\ DeadLettered' = DeadLettered
      /\ Hands' = Hands
  BY <1>1, <1>4 DEF Claimed, Waiting, DeadLettered, Hands
<1>6. Copied' = Copied
  BY <1>1, <1>5 DEF Copied
<1>7. NoCopyLost' /\ IdsKnown'
  BY <1>1, <1>6, CopiesKept
<1>8. TypeOK'
  BY <1>1, <1>4 DEF QInv, TypeOK
<1>9. NoCopyInTwoPlaces'
  BY <1>1, <1>4, <1>5 DEF QInv, NoCopyInTwoPlaces
<1>10. KeptApart'
  BY <1>1 DEF QInv, KeptApart
<1>11. HandsKnown'
  BY <1>1, <1>4, <1>5, <1>6 DEF QInv, HandsKnown
<1> QED
  BY <1>4, <1>5, <1>7, <1>8, <1>9, <1>10, <1>11 DEF QInv

\* The copies under the receipts G.
Under(G) == {inflight[r].copy : r \in G}

\* Deleting receipts takes their copies, and only these, out of flight.
LEMMA DropReceipts ==
    ASSUME QInv, NEW G \in SUBSET DOMAIN inflight,
           inflight' = [r \in DOMAIN inflight \ G |-> inflight[r]]
    PROVE  /\ DOMAIN inflight' = DOMAIN inflight \ G
           /\ DOMAIN inflight' \subseteq 1..counter
           /\ \A r \in DOMAIN inflight' : inflight'[r] = inflight[r]
           /\ inflight' \in [DOMAIN inflight' -> Inflight]
           /\ Claimed' = Claimed \ Under(G)
           /\ Under(G) \subseteq Claimed
           /\ \A r, s \in DOMAIN inflight' : inflight'[r].copy = inflight'[s].copy => r = s
<1>1. /\ DOMAIN inflight' = DOMAIN inflight \ G
      /\ \A r \in DOMAIN inflight' : inflight'[r] = inflight[r]
  OBVIOUS
<1>2. DOMAIN inflight \subseteq 1..counter /\ inflight \in [DOMAIN inflight -> Inflight]
  BY DEF QInv, TypeOK
<1>3. inflight' \in [DOMAIN inflight' -> Inflight]
  BY <1>1, <1>2
<1>4. \A r, s \in DOMAIN inflight : inflight[r].copy = inflight[s].copy => r = s
  BY DEF QInv, NoCopyInTwoPlaces
<1>5. Under(G) \subseteq Claimed
  BY DEF Under, Claimed
<1>6. Claimed' = Claimed \ Under(G)
  <2>1. ASSUME NEW r \in DOMAIN inflight'
        PROVE  inflight'[r].copy \in Claimed /\ inflight'[r].copy \notin Under(G)
    BY <1>1, <1>4 DEF Claimed, Under
  <2>2. ASSUME NEW r \in DOMAIN inflight, inflight[r].copy \notin Under(G)
        PROVE  inflight[r].copy \in Claimed'
    <3>1. r \in DOMAIN inflight'
      BY <2>2, <1>1 DEF Under
    <3> QED
      BY <3>1, <1>1 DEF Claimed
  <2> QED
    BY <2>1, <2>2 DEF Claimed
<1> QED
  BY <1>1, <1>2, <1>3, <1>4, <1>5, <1>6

\* Claims in hand stay known when receipts are deleted.
LEMMA HandsKept ==
    ASSUME QInv, NEW G \in SUBSET DOMAIN inflight,
           inflight' = [r \in DOMAIN inflight \ G |-> inflight[r]],
           Hands' \subseteq Hands, Copied' = Copied, UNCHANGED counter
    PROVE  HandsKnown'
<1>1. /\ DOMAIN inflight' \subseteq DOMAIN inflight
      /\ \A r \in DOMAIN inflight' : inflight'[r] = inflight[r]
  OBVIOUS
<1> QED
  BY <1>1 DEF QInv, HandsKnown

\* Ack removes the copies whose receipts are in flight.
LEMMA AckStep ==
    ASSUME QInv, NEW claims \in SUBSET held, Ack(claims)
    PROVE  /\ QInv'
           /\ \E G \in SUBSET DOMAIN inflight :
                 /\ G = DOMAIN inflight \cap {c.receipt : c \in claims}
                 /\ inflight' = [r \in DOMAIN inflight \ G |-> inflight[r]]
                 /\ Claimed' = Claimed \ Under(G)
                 /\ acked' = acked \cup Under(G)
<1> DEFINE G == DOMAIN inflight \cap {c.receipt : c \in claims}
<1>1. /\ inflight' = [r \in DOMAIN inflight \ G |-> inflight[r]]
      /\ held' = held \ claims
      /\ acked' = acked \cup Under(G)
      /\ mu = Free
  BY DEF Ack, Under
<1>2. nack' = [ref \in Refs |-> IF \E c \in claims : c.copy.ref = ref THEN 0 ELSE nack[ref]]
  BY DEF Ack
<1>3. UNCHANGED <<items, dead, counter, mu, issued>>
  BY DEF Ack
<1>4. G \in SUBSET DOMAIN inflight
  OBVIOUS
<1> HIDE DEF G
<1>5. /\ DOMAIN inflight' \subseteq 1..counter
      /\ inflight' \in [DOMAIN inflight' -> Inflight]
      /\ Claimed' = Claimed \ Under(G)
      /\ Under(G) \subseteq Claimed
      /\ \A r, s \in DOMAIN inflight' : inflight'[r].copy = inflight'[s].copy => r = s
  BY <1>1, <1>4, DropReceipts
<1>6. Waiting' = Waiting /\ DeadLettered' = DeadLettered
  BY <1>3 DEF Waiting, DeadLettered
<1>7. Copied' = Copied
  BY <1>1, <1>5, <1>6 DEF Copied
<1>8. NoCopyLost' /\ IdsKnown'
  BY <1>3, <1>7, CopiesKept
<1>9. Hands' \subseteq Hands
  BY <1>1, <1>3 DEF Hands
<1>10. HandsKnown'
  BY <1>1, <1>3, <1>4, <1>7, <1>9, HandsKept
<1>11. KeptApart'
  BY <1>3 DEF QInv, KeptApart
<1>12. NoCopyInTwoPlaces'
  BY <1>1, <1>3, <1>5, <1>6, PlacesApart DEF NoCopyInTwoPlaces
<1>13. TypeOK'
  <2>1. nack' \in [Refs -> Nat]
    BY <1>2 DEF QInv, TypeOK
  <2>2. acked' \subseteq Copies /\ held' \subseteq Claims
    BY <1>1, <1>5, PlacesApart DEF QInv, TypeOK
  <2> QED
    BY <2>1, <2>2, <1>3, <1>5 DEF QInv, TypeOK
<1>14. QInv'
  BY <1>8, <1>10, <1>11, <1>12, <1>13 DEF QInv
<1> QED
  BY <1>1, <1>4, <1>5, <1>14 DEF G

\* Nack takes the claims out of the callers' hands and starts its loop.
LEMMA NackStep ==
    ASSUME QInv, NEW claims \in Batches, NEW reason \in Reasons, Nack(claims, reason)
    PROVE  /\ QInv'
           /\ DeadLettered' = DeadLettered
<1>1. mu = Free /\ mu' = Nacking(claims, reason) /\ held' = held \ Range(claims)
  BY DEF Nack
<1>2. UNCHANGED <<items, inflight, nack, dead, counter, issued, acked>>
  BY DEF Nack
<1>3. claims \in Seq(held)
  BY MaxBatchAssumption, BoundedIsSeq DEF Batches
<1>4. claims \in Seq(Claims) /\ Range(claims) \subseteq held
  BY <1>3, SeqRange DEF QInv, TypeOK
<1>5. mu.op = "free" /\ mu'.op = "nack" /\ mu'.rest = claims /\ mu'.reason = reason
  BY <1>1 DEF Free, Nacking
<1>6. Hands' \subseteq Hands
  BY <1>1, <1>4, <1>5 DEF Hands
<1>7. Waiting' = Waiting /\ Claimed' = Claimed /\ DeadLettered' = DeadLettered
  BY <1>2, <1>5 DEF Waiting, Claimed, DeadLettered
<1>8. Copied' = Copied
  BY <1>2, <1>7 DEF Copied
<1>9. NoCopyLost' /\ IdsKnown'
  BY <1>2, <1>8, CopiesKept
<1>10. HandsKnown'
  BY <1>2, <1>6, <1>8 DEF QInv, HandsKnown
<1>11. NoCopyInTwoPlaces'
  BY <1>2, <1>7 DEF QInv, NoCopyInTwoPlaces
<1>12. KeptApart'
  BY <1>5 DEF KeptApart
<1>13. TypeOK'
  <2>1. mu' = Nacking(mu'.rest, mu'.reason) /\ mu'.rest \in Seq(Claims) /\ mu'.reason \in Reasons
    BY <1>1, <1>4, <1>5
  <2>2. held' \subseteq Claims
    BY <1>1 DEF QInv, TypeOK
  <2> QED
    BY <2>1, <2>2, <1>2, <1>5 DEF QInv, TypeOK
<1> QED
  BY <1>7, <1>9, <1>10, <1>11, <1>12, <1>13 DEF QInv

\* An iteration of Nack whose claim is no longer in flight, and the end of it.
LEMMA NackStaleStep ==
    ASSUME QInv, NackNext, UNCHANGED <<items, inflight, nack, dead>>
    PROVE  QInv' /\ DeadLettered' = DeadLettered
<1>1. mu.op = "nack" /\ UNCHANGED <<counter, held, issued, acked>>
  BY DEF NackNext
<1>2. /\ mu.rest \in Seq(Claims) /\ mu.reason \in Reasons
  BY <1>1 DEF QInv, TypeOK, Free
<1>3. mu' = Free \/ (mu.rest # <<>> /\ mu' = Nacking(Tail(mu.rest), mu.reason))
  BY DEF NackNext
<1>4. /\ mu'.op # "revive"
      /\ mu' # Free =>
            /\ mu'.op = "nack" /\ mu'.rest \in Seq(Claims) /\ Range(mu'.rest) \subseteq Range(mu.rest)
            /\ mu'.reason \in Reasons /\ mu' = Nacking(mu'.rest, mu'.reason)
  <2>1. CASE mu' = Free
    BY <2>1 DEF Free
  <2>2. CASE mu.rest # <<>> /\ mu' = Nacking(Tail(mu.rest), mu.reason)
    <3>1. mu'.op = "nack" /\ mu'.rest = Tail(mu.rest) /\ mu'.reason = mu.reason
      BY <2>2 DEF Nacking
    <3>2. Tail(mu.rest) \in Seq(Claims) /\ Range(Tail(mu.rest)) \subseteq Range(mu.rest)
      BY <2>2, <1>2, TailRange
    <3> QED
      BY <3>1, <3>2, <2>2, <1>2
  <2> QED
    BY <2>1, <2>2, <1>3
<1>5. Hands' \subseteq Hands
  BY <1>1, <1>4 DEF Hands, Free
<1>6. Waiting' = Waiting /\ Claimed' = Claimed /\ DeadLettered' = DeadLettered
  BY <1>1, <1>4 DEF Waiting, Claimed, DeadLettered
<1>7. Copied' = Copied
  BY <1>1, <1>6 DEF Copied
<1>8. NoCopyLost' /\ IdsKnown'
  BY <1>1, <1>7, CopiesKept
<1>9. HandsKnown'
  BY <1>1, <1>5, <1>7 DEF QInv, HandsKnown
<1>10. NoCopyInTwoPlaces'
  BY <1>1, <1>6 DEF QInv, NoCopyInTwoPlaces
<1>11. KeptApart'
  BY <1>4 DEF KeptApart
<1>12. TypeOK'
  BY <1>1, <1>4 DEF QInv, TypeOK
<1> QED
  BY <1>6, <1>8, <1>9, <1>10, <1>11, <1>12 DEF QInv

\* An iteration of Nack whose claim is in flight: the copy is put back, or
\* dead-lettered.
LEMMA NackLiveStep ==
    ASSUME QInv, NackNext, mu.rest # <<>>, Head(mu.rest).receipt \in DOMAIN inflight
    PROVE  /\ QInv'
           /\ \E G \in SUBSET DOMAIN inflight :
                 /\ G # {}
                 /\ inflight' = [r \in DOMAIN inflight \ G |-> inflight[r]]
                 /\ Claimed' = Claimed \ Under(G)
                 /\ \/ Waiting' = Waiting \cup Under(G) /\ DeadLettered' = DeadLettered
                    \/ Waiting' = Waiting /\ DeadLettered' = DeadLettered \cup Under(G)
<1> DEFINE q == Head(mu.rest).receipt
           G == {q}
           copy == inflight[q].copy
           errors == IF mu.reason = "error" THEN nack[copy.ref] + 1 ELSE nack[copy.ref]
           bury == mu.reason = "error" /\ errors >= NackLimit
<1>1. mu.op = "nack" /\ UNCHANGED <<counter, held, issued, acked>>
  BY DEF NackNext
<1>2. mu.rest \in Seq(Claims) /\ mu.reason \in Reasons
  BY <1>1 DEF QInv, TypeOK, Free
<1>3. mu' = Nacking(Tail(mu.rest), mu.reason) /\ NackLive(Head(mu.rest), mu.reason)
  BY DEF NackNext
<1>4. /\ inflight' = [r \in DOMAIN inflight \ G |-> inflight[r]]
      /\ nack' = [nack EXCEPT ![copy.ref] = IF bury THEN 0 ELSE errors]
      /\ dead' = IF bury THEN Append(dead, copy) ELSE dead
      /\ items' = IF bury THEN items ELSE Append(items, copy)
  BY <1>3 DEF NackLive
<1>5. /\ mu'.op = "nack" /\ mu'.rest \in Seq(Claims) /\ Range(mu'.rest) \subseteq Range(mu.rest)
      /\ mu'.reason \in Reasons /\ mu' = Nacking(mu'.rest, mu'.reason)
  BY <1>2, <1>3, TailRange DEF Nacking
<1>6. G \in SUBSET DOMAIN inflight /\ Under(G) = {copy}
  BY DEF Under
<1>7. copy \in Claimed /\ copy \in Copies /\ copy.ref \in Refs
  BY PlacesApart DEF Claimed, Copies
<1>8. nack' \in [Refs -> Nat]
  <2>1. nack \in [Refs -> Nat]
    BY DEF QInv, TypeOK
  <2>2. errors \in Nat
    BY <2>1, <1>7
  <2> HIDE DEF errors, bury, copy
  <2> QED
    BY <2>1, <2>2, <1>4, <1>7
<1> HIDE DEF bury, copy, G
<1>9. /\ DOMAIN inflight' \subseteq 1..counter
      /\ inflight' \in [DOMAIN inflight' -> Inflight]
      /\ Claimed' = Claimed \ {copy}
      /\ \A r, s \in DOMAIN inflight' : inflight'[r].copy = inflight'[s].copy => r = s
  BY <1>4, <1>6, DropReceipts
<1>10. DeadLettered = Range(dead) /\ DeadLettered' = Range(dead')
  BY <1>1, <1>5 DEF DeadLettered
<1>11. copy \notin Waiting /\ copy \notin DeadLettered /\ copy \notin acked
  BY <1>7, PlacesApart
<1>12. ASSUME bury
       PROVE  /\ Copied' = Copied /\ NoCopyInTwoPlaces' /\ TypeOK'
              /\ Claimed' = Claimed \ Under(G)
              /\ \/ Waiting' = Waiting \cup Under(G) /\ DeadLettered' = DeadLettered
                 \/ Waiting' = Waiting /\ DeadLettered' = DeadLettered \cup Under(G)
  <2>1. items' = items /\ Waiting' = Waiting /\ dead' = Append(dead, copy)
    BY <1>4, <1>12 DEF Waiting
  <2>2. dead' \in Seq(Copies) /\ DeadLettered' = DeadLettered \cup {copy} /\ IsInjective(dead')
    BY <2>1, <1>7, <1>10, <1>11, AppendRange, PlacesApart
  <2>3. Copied' = Copied
    BY <2>1, <2>2, <1>1, <1>7, <1>9 DEF Copied
  <2>4. NoCopyInTwoPlaces'
    BY <2>1, <2>2, <1>1, <1>9, <1>11, PlacesApart DEF NoCopyInTwoPlaces
  <2>5. TypeOK'
    BY <2>1, <2>2, <1>1, <1>5, <1>8, <1>9 DEF QInv, TypeOK
  <2> QED
    BY <2>1, <2>2, <2>3, <2>4, <2>5, <1>6, <1>9
<1>13. ASSUME ~bury
       PROVE  /\ Copied' = Copied /\ NoCopyInTwoPlaces' /\ TypeOK'
              /\ Claimed' = Claimed \ Under(G)
              /\ \/ Waiting' = Waiting \cup Under(G) /\ DeadLettered' = DeadLettered
                 \/ Waiting' = Waiting /\ DeadLettered' = DeadLettered \cup Under(G)
  <2>1. dead' = dead /\ DeadLettered' = DeadLettered /\ items' = Append(items, copy)
    BY <1>4, <1>10, <1>13
  <2>2. items' \in Seq(Copies) /\ Waiting' = Waiting \cup {copy} /\ IsInjective(items')
    BY <2>1, <1>7, <1>11, AppendRange, PlacesApart DEF Waiting
  <2>3. Copied' = Copied
    BY <2>1, <2>2, <1>1, <1>7, <1>9 DEF Copied
  <2>4. NoCopyInTwoPlaces'
    BY <2>1, <2>2, <1>1, <1>9, <1>11, PlacesApart DEF NoCopyInTwoPlaces
  <2>5. TypeOK'
    BY <2>1, <2>2, <1>1, <1>5, <1>8, <1>9 DEF QInv, TypeOK
  <2> QED
    BY <2>1, <2>2, <2>3, <2>4, <2>5, <1>6, <1>9
<1>14. /\ Copied' = Copied /\ NoCopyInTwoPlaces' /\ TypeOK'
       /\ Claimed' = Claimed \ Under(G)
       /\ \/ Waiting' = Waiting \cup Under(G) /\ DeadLettered' = DeadLettered
          \/ Waiting' = Waiting /\ DeadLettered' = DeadLettered \cup Under(G)
  BY <1>12, <1>13
<1>15. NoCopyLost' /\ IdsKnown'
  BY <1>1, <1>14, CopiesKept
<1>16. Hands' \subseteq Hands
  BY <1>1, <1>5 DEF Hands
<1>17. HandsKnown'
  BY <1>1, <1>4, <1>6, <1>14, <1>16, HandsKept
<1>18. KeptApart'
  BY <1>5 DEF KeptApart
<1>19. QInv'
  BY <1>14, <1>15, <1>17, <1>18 DEF QInv
<1>20. G # {}
  BY DEF G
<1> QED
  BY <1>4, <1>6, <1>14, <1>19, <1>20

\* RequeueExpired puts the copies of lapsed claims back.
LEMMA RequeueStep ==
    ASSUME QInv, NEW max \in 1..MaxBatch, RequeueExpired(max)
    PROVE  /\ QInv'
           /\ \E G \in SUBSET DOMAIN inflight :
                 /\ G # {}
                 /\ inflight' = [r \in DOMAIN inflight \ G |-> inflight[r]]
                 /\ Claimed' = Claimed \ Under(G)
                 /\ Waiting' = Waiting \cup Under(G)
<1>1. PICK order \in Visits(max) :
        /\ order # <<>>
        /\ items' = items \o [i \in 1..Len(order) |-> inflight[order[i]].copy]
        /\ inflight' = [r \in DOMAIN inflight \ Range(order) |-> inflight[r]]
        /\ UNCHANGED <<nack, dead, counter, mu, held, issued, acked>>
  BY DEF RequeueExpired
<1> DEFINE G == Range(order)
           back == [i \in 1..Len(order) |-> inflight[order[i]].copy]
<1>2. order \in Seq(DOMAIN inflight) /\ IsInjective(order)
  <2>1. max \in Nat
    BY MaxBatchAssumption
  <2>2. /\ order \in BoundedSeq({r \in DOMAIN inflight : inflight[r].lapsed}, max)
        /\ IsInjective(order)
    BY DEF Visits
  <2>3. order \in Seq({r \in DOMAIN inflight : inflight[r].lapsed})
    BY <2>1, <2>2, BoundedIsSeq
  <2> QED
    BY <2>2, <2>3
<1>3. /\ Len(order) \in Nat /\ DOMAIN order = 1..Len(order)
      /\ G = {order[i] : i \in 1..Len(order)} /\ G \subseteq DOMAIN inflight /\ G # {}
      /\ \A i \in 1..Len(order) : order[i] \in DOMAIN inflight
  BY <1>1, <1>2, SeqRange
<1>4. /\ inflight' = [r \in DOMAIN inflight \ G |-> inflight[r]]
      /\ items' = items \o back
      /\ UNCHANGED <<nack, dead, counter, mu, held, issued, acked>>
  BY <1>1
<1> HIDE DEF G
<1>5. /\ DOMAIN inflight' \subseteq 1..counter
      /\ inflight' \in [DOMAIN inflight' -> Inflight]
      /\ Claimed' = Claimed \ Under(G)
      /\ Under(G) \subseteq Claimed
      /\ \A r, s \in DOMAIN inflight' : inflight'[r].copy = inflight'[s].copy => r = s
  BY <1>3, <1>4, DropReceipts
<1>6. \A i \in 1..Len(order) : inflight[order[i]].copy \in Copies
  BY <1>3, PlacesApart DEF Claimed
<1>7. /\ back \in [1..Len(order) -> Copies] /\ DOMAIN back = 1..Len(order)
      /\ \A i \in 1..Len(order) : back[i] = inflight[order[i]].copy
  BY <1>6
<1>8. back \in Seq(Copies)
  BY <1>3, <1>7
<1> HIDE DEF back
<1>9. IsInjective(back)
  <2> SUFFICES ASSUME NEW i \in 1..Len(order), NEW j \in 1..Len(order), back[i] = back[j]
               PROVE  i = j
    BY <1>7 DEF IsInjective
  <2>1. order[i] = order[j]
    BY <1>3, <1>7 DEF QInv, NoCopyInTwoPlaces
  <2> QED
    BY <2>1, <1>2, <1>3 DEF IsInjective
<1>10. Range(back) = Under(G)
  BY <1>3, <1>7 DEF Range, Under
<1>11. /\ items' \in Seq(Copies)
       /\ Waiting' = Waiting \cup Under(G)
       /\ IsInjective(items')
  BY <1>4, <1>5, <1>8, <1>9, <1>10, ConcatRange, PlacesApart DEF Waiting
<1>12. DeadLettered' = DeadLettered /\ Hands' = Hands
  BY <1>4 DEF DeadLettered, Hands
<1>13. Copied' = Copied
  BY <1>4, <1>5, <1>11, <1>12 DEF Copied
<1>14. NoCopyLost' /\ IdsKnown'
  BY <1>4, <1>13, CopiesKept
<1>15. HandsKnown'
  BY <1>3, <1>4, <1>12, <1>13, HandsKept
<1>16. KeptApart'
  BY <1>4 DEF QInv, KeptApart
<1>17. NoCopyInTwoPlaces'
  BY <1>4, <1>5, <1>11, <1>12, PlacesApart DEF NoCopyInTwoPlaces
<1>18. TypeOK'
  BY <1>4, <1>5, <1>11 DEF QInv, TypeOK
<1>19. QInv'
  BY <1>14, <1>15, <1>16, <1>17, <1>18 DEF QInv
<1> QED
  BY <1>3, <1>4, <1>5, <1>11, <1>19

\* RequeueDeadLetters starts its loop.
LEMMA RequeueDeadStep ==
    ASSUME QInv, NEW target \in [Refs -> 0..MaxBatch], RequeueDeadLetters(target)
    PROVE  QInv' /\ DeadLettered' = DeadLettered
<1>1. mu = Free /\ mu' = Reviving(<<>>, target)
  BY DEF RequeueDeadLetters
<1>2. UNCHANGED <<items, inflight, nack, dead, counter, held, issued, acked>>
  BY DEF RequeueDeadLetters
<1>3. /\ mu.op = "free" /\ mu'.op = "revive" /\ mu'.kept = <<>> /\ mu'.target = target
      /\ mu' = Reviving(mu'.kept, mu'.target)
  BY <1>1 DEF Free, Reviving
<1>4. mu'.kept \in Seq(Copies) /\ Range(mu'.kept) = {} /\ IsInjective(mu'.kept)
  BY <1>3 DEF Range, IsInjective
<1>5. mu'.target \in [Refs -> Nat]
  BY <1>3, MaxBatchAssumption
<1>6. /\ Waiting' = Waiting /\ Claimed' = Claimed /\ DeadLettered' = DeadLettered
      /\ Hands' = Hands
  BY <1>2, <1>3, <1>4 DEF Waiting, Claimed, DeadLettered, Hands
<1>7. Copied' = Copied
  BY <1>2, <1>6 DEF Copied
<1>8. NoCopyLost' /\ IdsKnown'
  BY <1>2, <1>7, CopiesKept
<1>9. HandsKnown'
  BY <1>2, <1>6, <1>7 DEF QInv, HandsKnown
<1>10. KeptApart'
  BY <1>2, <1>4 DEF KeptApart
<1>11. NoCopyInTwoPlaces'
  BY <1>2, <1>6 DEF QInv, NoCopyInTwoPlaces
<1>12. TypeOK'
  BY <1>2, <1>3, <1>4, <1>5 DEF QInv, TypeOK
<1> QED
  BY <1>6, <1>8, <1>9, <1>10, <1>11, <1>12 DEF QInv

LEMMA RevivingExcept ==
    ASSUME NEW k, NEW t, NEW u
    PROVE  /\ [Reviving(k, t) EXCEPT !.target = u] = Reviving(k, u)
           /\ [Reviving(k, t) EXCEPT !.kept = u] = Reviving(u, t)
BY DEF Reviving

\* An iteration of RequeueDeadLetters requeues a letter or keeps it.
LEMMA ReviveStep ==
    ASSUME QInv, ReviveNext
    PROVE  /\ QInv'
           /\ \E S \in SUBSET DeadLettered :
                 /\ Waiting' = Waiting \cup S
                 /\ DeadLettered' = DeadLettered \ S
<1>1. mu.op = "revive" /\ UNCHANGED <<inflight, nack, counter, held, issued, acked>>
  BY DEF ReviveNext
<1>2. /\ mu = Reviving(mu.kept, mu.target) /\ mu.kept \in Seq(Copies) /\ mu.target \in [Refs -> Nat]
      /\ IsInjective(mu.kept) /\ Range(mu.kept) \cap Range(dead) = {}
  BY <1>1 DEF QInv, TypeOK, Free, KeptApart
<1>3. DeadLettered = Range(dead) \cup Range(mu.kept)
  BY <1>1 DEF DeadLettered
<1>4. dead \in Seq(Copies) /\ IsInjective(dead)
  BY PlacesApart
<1>5. Claimed' = Claimed
  BY <1>1 DEF Claimed
<1> DEFINE Moved == \E S \in SUBSET DeadLettered :
                       Waiting' = Waiting \cup S /\ DeadLettered' = DeadLettered \ S
           Lists == /\ items' \in Seq(Copies) /\ dead' \in Seq(Copies)
                    /\ IsInjective(items') /\ IsInjective(dead')
           Loop == \/ mu' = Free
                   \/ /\ mu'.op = "revive" /\ mu' = Reviving(mu'.kept, mu'.target)
                      /\ mu'.kept \in Seq(Copies) /\ mu'.target \in [Refs -> Nat]
<1>6. ASSUME Moved, Lists, Loop, KeptApart' PROVE QInv'
  <2>0. PICK S \in SUBSET DeadLettered : Waiting' = Waiting \cup S /\ DeadLettered' = DeadLettered \ S
    BY <1>6
  <2>1. Copied' = Copied
    BY <1>1, <1>5, <2>0 DEF Copied
  <2>2. NoCopyLost' /\ IdsKnown'
    BY <1>1, <2>1, CopiesKept
  <2>3. NoCopyInTwoPlaces'
    <3>1. \A r, s \in DOMAIN inflight' : inflight'[r].copy = inflight'[s].copy => r = s
      BY <1>1 DEF QInv, NoCopyInTwoPlaces
    <3> QED
      BY <3>1, <1>1, <1>5, <1>6, <2>0, PlacesApart DEF NoCopyInTwoPlaces
  <2>4. TypeOK'
    BY <1>1, <1>6 DEF QInv, TypeOK
  <2>5. Hands' \subseteq Hands
    BY <1>1, <1>6 DEF Hands, Free
  <2>6. HandsKnown'
    BY <1>1, <2>1, <2>5 DEF QInv, HandsKnown
  <2> QED
    BY <1>6, <2>2, <2>3, <2>4, <2>6 DEF QInv
<1> HIDE DEF Moved, Lists, Loop
<1>7. CASE dead = <<>>
  <2>1. mu' = Free /\ dead' = mu.kept /\ items' = items
    BY <1>7 DEF ReviveNext
  <2>2. Range(dead) = {} /\ mu'.op = "free" /\ Waiting' = Waiting
    BY <1>7, <2>1 DEF Range, Free, Waiting
  <2>3. DeadLettered' = DeadLettered
    BY <1>3, <2>1, <2>2 DEF DeadLettered
  <2>4. KeptApart'
    BY <2>2 DEF KeptApart
  <2>5. Moved
    BY <2>2, <2>3 DEF Moved
  <2>6. Lists /\ Loop
    BY <1>2, <2>1, PlacesApart DEF Lists, Loop
  <2>7. QInv'
    BY <1>6, <2>4, <2>5, <2>6
  <2> QED
    BY <2>5, <2>7 DEF Moved
<1>8. CASE dead # <<>>
  <2> DEFINE copy == Head(dead)
  <2>1. /\ copy \in Copies /\ copy \in Range(dead) /\ Tail(dead) \in Seq(Copies)
        /\ Range(dead) = Range(Tail(dead)) \cup {copy}
        /\ IsInjective(Tail(dead)) /\ copy \notin Range(Tail(dead))
    BY <1>4, <1>8, TailRange
  <2>2. dead' = Tail(dead)
    BY <1>8 DEF ReviveNext
  <2>3. copy.ref \in Refs /\ copy \in DeadLettered
    BY <1>3, <2>1 DEF Copies
  <2>4. CASE mu.target[copy.ref] > 0
    <3>1. items' = Append(items, copy) /\ mu' = [mu EXCEPT !.target[copy.ref] = @ - 1]
      BY <1>8, <2>4 DEF ReviveNext
    <3> HIDE DEF copy
    <3>2. mu.target[copy.ref] - 1 \in Nat
      BY <1>2, <2>3, <2>4
    <3>3. mu' = Reviving(mu.kept, [mu.target EXCEPT ![copy.ref] = @ - 1])
      <4> DEFINE u == [mu.target EXCEPT ![copy.ref] = @ - 1]
      <4>1. mu' = [mu EXCEPT !.target = u]
        BY <3>1
      <4> HIDE DEF u
      <4>2. [Reviving(mu.kept, mu.target) EXCEPT !.target = u] = Reviving(mu.kept, u)
        BY RevivingExcept
      <4> QED
        BY <1>2, <4>1, <4>2 DEF u
    <3>4. mu'.op = "revive" /\ mu'.kept = mu.kept /\ mu'.target = [mu.target EXCEPT ![copy.ref] = @ - 1]
      BY <3>3 DEF Reviving
    <3>5. mu'.target \in [Refs -> Nat] /\ mu' = Reviving(mu'.kept, mu'.target)
      BY <1>2, <3>2, <3>3, <3>4
    <3>6. /\ items' \in Seq(Copies) /\ Waiting' = Waiting \cup {copy} /\ IsInjective(items')
      BY <2>1, <2>3, <3>1, AppendRange, PlacesApart DEF Waiting
    <3>7. DeadLettered' = DeadLettered \ {copy}
      BY <1>2, <1>3, <2>1, <2>2, <3>4 DEF DeadLettered
    <3>8. KeptApart'
      BY <1>2, <2>1, <2>2, <3>4 DEF KeptApart
    <3>9. Moved
      <4>1. {copy} \in SUBSET DeadLettered
        BY <2>3
      <4> QED
        BY <4>1, <3>6, <3>7 DEF Moved
    <3>10. Lists /\ Loop
      BY <1>2, <2>1, <2>2, <3>4, <3>5, <3>6 DEF Lists, Loop
    <3>11. QInv'
      BY <1>6, <3>8, <3>9, <3>10
    <3> QED
      BY <3>9, <3>11 DEF Moved
  <2>5. CASE ~(mu.target[copy.ref] > 0)
    <3>1. items' = items /\ mu' = [mu EXCEPT !.kept = Append(@, copy)]
      BY <1>8, <2>5 DEF ReviveNext
    <3> HIDE DEF copy
    <3>2. mu' = Reviving(Append(mu.kept, copy), mu.target)
      <4> DEFINE u == Append(mu.kept, copy)
      <4>1. mu' = [mu EXCEPT !.kept = u]
        BY <3>1
      <4> HIDE DEF u
      <4>2. [Reviving(mu.kept, mu.target) EXCEPT !.kept = u] = Reviving(u, mu.target)
        BY RevivingExcept
      <4> QED
        BY <1>2, <4>1, <4>2 DEF u
    <3>3. mu'.op = "revive" /\ mu'.kept = Append(mu.kept, copy) /\ mu'.target = mu.target
      BY <3>2 DEF Reviving
    <3>4. /\ mu'.kept \in Seq(Copies) /\ Range(mu'.kept) = Range(mu.kept) \cup {copy}
          /\ IsInjective(mu'.kept) /\ mu' = Reviving(mu'.kept, mu'.target)
      BY <1>2, <2>1, <3>2, <3>3, AppendRange
    <3>5. Waiting' = Waiting /\ DeadLettered' = DeadLettered
      BY <1>3, <2>1, <2>2, <3>1, <3>3, <3>4 DEF Waiting, DeadLettered
    <3>6. KeptApart'
      BY <1>2, <2>1, <2>2, <3>4 DEF KeptApart
    <3>7. Moved
      BY <3>5 DEF Moved
    <3>8. Lists /\ Loop
      BY <1>2, <2>1, <2>2, <3>1, <3>3, <3>4, PlacesApart DEF Lists, Loop
    <3>9. QInv'
      BY <1>6, <3>6, <3>7, <3>8
    <3> QED
      BY <3>7, <3>9 DEF Moved
  <2> QED
    BY <2>4, <2>5
<1> QED
  BY <1>7, <1>8

---------------------------------------------------------------------------
\* Every step keeps the inductive invariant.
LEMMA NextQInv == QInv /\ [Next]_vars => QInv'
<1> SUFFICES ASSUME QInv, [Next]_vars PROVE QInv'
  OBVIOUS
<1>1. CASE UNCHANGED vars
  <2>1. /\ Waiting' = Waiting /\ Claimed' = Claimed /\ DeadLettered' = DeadLettered
        /\ Hands' = Hands
    BY <1>1 DEF vars, Waiting, Claimed, DeadLettered, Hands
  <2>2. Copied' = Copied
    BY <1>1, <2>1 DEF vars, Copied
  <2>3. TypeOK'
    BY <1>1 DEF vars, QInv, TypeOK
  <2>4. NoCopyInTwoPlaces'
    BY <1>1, <2>1 DEF vars, QInv, NoCopyInTwoPlaces
  <2>5. NoCopyLost' /\ IdsKnown'
    BY <1>1, <2>2, CopiesKept DEF vars
  <2>6. KeptApart' /\ HandsKnown'
    BY <1>1, <2>1, <2>2 DEF vars, QInv, KeptApart, HandsKnown
  <2> QED
    BY <2>3, <2>4, <2>5, <2>6 DEF QInv
<1>2. ASSUME NackNext PROVE QInv'
  <2>1. CASE mu.rest # <<>> /\ Head(mu.rest).receipt \in DOMAIN inflight
    BY <1>2, <2>1, NackLiveStep
  <2>2. CASE ~(mu.rest # <<>> /\ Head(mu.rest).receipt \in DOMAIN inflight)
    <3>1. UNCHANGED <<items, inflight, nack, dead>>
      BY <1>2, <2>2 DEF NackNext
    <3> QED
      BY <1>2, <3>1, NackStaleStep
  <2> QED
    BY <2>1, <2>2
<1> QED
  BY <1>1, <1>2, EnqueueStep, ClaimStep, LapseStep, AckStep, NackStep, RequeueStep,
     RequeueDeadStep, ReviveStep DEF Next

\* The fields of the queue keep their types.
THEOREM TypesHold == Spec => []TypeOK
<1>1. QInv => TypeOK
  BY DEF QInv
<1> QED
  BY <1>1, InitQInv, NextQInv, PTL DEF Spec

\* No copy is in two places, whatever calls of Claim, Ack, Nack, RequeueExpired
\* and RequeueDeadLetters follow each other, with claims however late.
THEOREM CopiesAreSingle == Spec => []NoCopyInTwoPlaces
<1>1. QInv => NoCopyInTwoPlaces
  BY DEF QInv
<1> QED
  BY <1>1, InitQInv, NextQInv, PTL DEF Spec

\* No copy is lost: only Ack removes one from the queue.
THEOREM CopiesAreKept == Spec => []NoCopyLost
<1>1. QInv => NoCopyLost
  BY DEF QInv
<1> QED
  BY <1>1, InitQInv, NextQInv, PTL DEF Spec

---------------------------------------------------------------------------
\* The refinement.  The place of the copy with number k, for given sets.
PlaceIn(W, C, D, A, k) ==
    CASE \E c \in W : c.id = k -> "waiting"
      [] \E c \in C : c.id = k -> "claimed"
      [] \E c \in D : c.id = k -> "dead"
      [] \E c \in A : c.id = k -> "done"
      [] OTHER -> "none"

LEMMA PlaceInFacts ==
    ASSUME NEW W, NEW C, NEW D, NEW A, NEW k,
           \A c, d \in W \cup C \cup D \cup A : c.id = d.id => c = d,
           W \cap C = {}, W \cap D = {}, C \cap D = {}, A \cap (W \cup C \cup D) = {}
    PROVE  /\ PlaceIn(W, C, D, A, k) = "waiting" <=> \E c \in W : c.id = k
           /\ PlaceIn(W, C, D, A, k) = "claimed" <=> \E c \in C : c.id = k
           /\ PlaceIn(W, C, D, A, k) = "dead" <=> \E c \in D : c.id = k
           /\ PlaceIn(W, C, D, A, k) = "done" <=> \E c \in A : c.id = k
           /\ PlaceIn(W, C, D, A, k) = "none" <=> ~\E c \in W \cup C \cup D \cup A : c.id = k
<1> DEFINE w == \E c \in W : c.id = k
           b == \E c \in C : c.id = k
           d == \E c \in D : c.id = k
           a == \E c \in A : c.id = k
<1>1. /\ ~(w /\ b) /\ ~(w /\ d) /\ ~(b /\ d)
      /\ ~(a /\ w) /\ ~(a /\ b) /\ ~(a /\ d)
  OBVIOUS
<1>2. (\E c \in W \cup C \cup D \cup A : c.id = k) <=> (w \/ b \/ d \/ a)
  OBVIOUS
<1>3. PlaceIn(W, C, D, A, k) = CASE w -> "waiting" [] b -> "claimed" [] d -> "dead"
                                 [] a -> "done" [] OTHER -> "none"
  BY DEF PlaceIn
<1> HIDE DEF w, b, d, a
<1>4. /\ PlaceIn(W, C, D, A, k) = "waiting" <=> w
      /\ PlaceIn(W, C, D, A, k) = "claimed" <=> b
      /\ PlaceIn(W, C, D, A, k) = "dead" <=> d
      /\ PlaceIn(W, C, D, A, k) = "done" <=> a
      /\ PlaceIn(W, C, D, A, k) = "none" <=> ~(w \/ b \/ d \/ a)
  BY <1>1, <1>3
<1> QED
  BY <1>2, <1>4 DEF w, b, d, a

LEMMA PlaceFacts ==
    ASSUME QInv, NEW k
    PROVE  /\ PlaceOf(k) = "waiting" <=> \E c \in Waiting : c.id = k
           /\ PlaceOf(k) = "claimed" <=> \E c \in Claimed : c.id = k
           /\ PlaceOf(k) = "dead" <=> \E c \in DeadLettered : c.id = k
           /\ PlaceOf(k) = "done" <=> \E c \in acked : c.id = k
           /\ PlaceOf(k) = "none" <=> ~\E c \in Copied : c.id = k
<1>1. PlaceOf(k) = PlaceIn(Waiting, Claimed, DeadLettered, acked, k)
  BY DEF PlaceOf, PlaceIn
<1>2. \A c, d \in Waiting \cup Claimed \cup DeadLettered \cup acked : c.id = d.id => c = d
  BY DEF QInv, IdsKnown, Copied
<1> QED
  BY <1>1, <1>2, PlacesApart, PlaceInFacts DEF Copied

LEMMA PlaceFactsNext ==
    ASSUME QInv', NEW k
    PROVE  /\ PlaceOf(k)' = "waiting" <=> \E c \in Waiting' : c.id = k
           /\ PlaceOf(k)' = "claimed" <=> \E c \in Claimed' : c.id = k
           /\ PlaceOf(k)' = "dead" <=> \E c \in DeadLettered' : c.id = k
           /\ PlaceOf(k)' = "done" <=> \E c \in acked' : c.id = k
           /\ PlaceOf(k)' = "none" <=> ~\E c \in Copied' : c.id = k
<1>1. PlaceOf(k)' = PlaceIn(Waiting', Claimed', DeadLettered', acked', k)
  BY DEF PlaceOf, PlaceIn
<1>2. \A c, d \in Waiting' \cup Claimed' \cup DeadLettered' \cup acked' : c.id = d.id => c = d
  BY DEF QInv, IdsKnown, Copied
<1>3. /\ Waiting' \cap Claimed' = {} /\ Waiting' \cap DeadLettered' = {}
      /\ Claimed' \cap DeadLettered' = {}
      /\ acked' \cap (Waiting' \cup Claimed' \cup DeadLettered') = {}
  BY DEF QInv, NoCopyInTwoPlaces
<1> QED
  BY <1>1, <1>2, <1>3, PlaceInFacts DEF Copied

\* The receipt under which the copy with number k is in flight.
LEMMA ChosenReceipt ==
    ASSUME NEW f, NEW r \in DOMAIN f, NEW k, f[r].copy.id = k,
           \A q, s \in DOMAIN f : f[q].copy.id = f[s].copy.id => q = s
    PROVE  (CHOOSE q \in DOMAIN f : f[q].copy.id = k) = r
OBVIOUS

LEMMA HolderFacts ==
    ASSUME QInv, NEW k
    PROVE  /\ PlaceOf(k) # "claimed" => HolderOf(k) = 0
           /\ \A r \in DOMAIN inflight : inflight[r].copy.id = k => HolderOf(k) = r
           /\ HolderOf(k) # 0 => HolderOf(k) \in DOMAIN inflight
<1>1. PlaceOf(k) # "claimed" => HolderOf(k) = 0
  BY DEF HolderOf
<1>2. ASSUME NEW r \in DOMAIN inflight, inflight[r].copy.id = k PROVE HolderOf(k) = r
  <2>1. PlaceOf(k) = "claimed"
    BY <1>2, PlaceFacts DEF Claimed
  <2>2. \A q, s \in DOMAIN inflight : inflight[q].copy.id = inflight[s].copy.id => q = s
    BY DEF QInv, IdsKnown, Copied, Claimed, NoCopyInTwoPlaces
  <2>3. (CHOOSE q \in DOMAIN inflight : inflight[q].copy.id = k) = r
    BY <1>2, <2>2, ChosenReceipt
  <2> QED
    BY <2>1, <2>3 DEF HolderOf
<1>3. ASSUME HolderOf(k) # 0 PROVE HolderOf(k) \in DOMAIN inflight
  <2>1. PICK r \in DOMAIN inflight : inflight[r].copy.id = k
    BY <1>1, <1>3, PlaceFacts DEF Claimed
  <2> QED
    BY <2>1, <1>2
<1> QED
  BY <1>1, <1>2, <1>3

LEMMA HolderFactsNext ==
    ASSUME QInv', NEW k
    PROVE  /\ PlaceOf(k)' # "claimed" => HolderOf(k)' = 0
           /\ \A r \in DOMAIN inflight' : inflight'[r].copy.id = k => HolderOf(k)' = r
<1>1. PlaceOf(k)' # "claimed" => HolderOf(k)' = 0
  BY DEF HolderOf
<1>2. ASSUME NEW r \in DOMAIN inflight', inflight'[r].copy.id = k PROVE HolderOf(k)' = r
  <2>1. PlaceOf(k)' = "claimed"
    BY <1>2, PlaceFactsNext DEF Claimed
  <2>2. \A q, s \in DOMAIN inflight' : inflight'[q].copy.id = inflight'[s].copy.id => q = s
    BY DEF QInv, IdsKnown, Copied, Claimed, NoCopyInTwoPlaces
  <2>3. (CHOOSE q \in DOMAIN inflight' : inflight'[q].copy.id = k) = r
    BY <1>2, <2>2, ChosenReceipt
  <2> QED
    BY <2>1, <2>3 DEF HolderOf
<1> QED
  BY <1>1, <1>2

\* A number none of whose copies moves stays where it is.
LEMMA PlaceSame ==
    ASSUME NEW k,
           (\E c \in Waiting' : c.id = k) <=> (\E c \in Waiting : c.id = k),
           (\E c \in Claimed' : c.id = k) <=> (\E c \in Claimed : c.id = k),
           (\E c \in DeadLettered' : c.id = k) <=> (\E c \in DeadLettered : c.id = k),
           (\E c \in acked' : c.id = k) <=> (\E c \in acked : c.id = k)
    PROVE  PlaceOf(k)' = PlaceOf(k)
BY DEF PlaceOf

LEMMA HolderSame ==
    ASSUME QInv, QInv', NEW k, PlaceOf(k)' = PlaceOf(k),
           \A r \in DOMAIN inflight : inflight[r].copy.id = k =>
               r \in DOMAIN inflight' /\ inflight'[r].copy = inflight[r].copy
    PROVE  HolderOf(k)' = HolderOf(k)
<1>1. CASE PlaceOf(k) = "claimed"
  <2>1. PICK r \in DOMAIN inflight : inflight[r].copy.id = k
    BY <1>1, PlaceFacts DEF Claimed
  <2>2. r \in DOMAIN inflight' /\ inflight'[r].copy.id = k
    BY <2>1
  <2> QED
    BY <2>1, <2>2, HolderFacts, HolderFactsNext
<1>2. CASE PlaceOf(k) # "claimed"
  BY <1>2, HolderFacts, HolderFactsNext
<1> QED
  BY <1>1, <1>2

\* The variables of TaskQueue.
At == [k \in 1..MaxCopies |-> PlaceOf(k)]
Holder == [k \in 1..MaxCopies |-> HolderOf(k)]
InHands == {[claim |-> c.receipt, copy |-> c.copy.id] : c \in held}

\* The numbers of the copies in S.
Numbers(S) == {c.id : c \in S}

Bounded == issued \in Nat /\ issued <= MaxCopies

LEMMA NumbersBounded ==
    ASSUME QInv, Bounded, NEW S \in SUBSET Copied
    PROVE  Numbers(S) \in SUBSET (1..MaxCopies)
<1>1. \A c \in S : c.id \in 1..issued
  BY DEF QInv, IdsKnown
<1> QED
  BY <1>1, BoundsAssumption DEF Numbers, Bounded

LEMMA BoundedStep == Bounded /\ QInv /\ [Next]_vars => Bounded'
<1> SUFFICES ASSUME Bounded, QInv, [Next]_vars PROVE Bounded'
  OBVIOUS
<1>1. ASSUME NEW refs \in BoundedSeq(Refs, MaxBatch), EnqueueMany(refs) PROVE Bounded'
  <2>1. Len(refs) \in Nat
    BY MaxBatchAssumption, BoundedIsSeq
  <2> QED
    BY <1>1, <2>1 DEF EnqueueMany, Bounded
<1>2. ASSUME UNCHANGED issued PROVE Bounded'
  BY <1>2 DEF Bounded
<1> QED
  BY <1>1, <1>2
  DEF Next, vars, Claim, Lapse, Ack, Nack, NackNext, RequeueExpired, RequeueDeadLetters, ReviveNext

LEMMA AbstractEnqueue ==
    ASSUME QInv, Bounded, NEW refs \in BoundedSeq(Refs, MaxBatch), refs # <<>>, EnqueueMany(refs)
    PROVE  Abstract!Next
<1>1. QInv'
  BY EnqueueStep
<1>2. PICK S \in SUBSET Copies :
        /\ Waiting' = Waiting \cup S
        /\ \A c \in S : c.id \in (issued + 1)..(issued + Len(refs))
        /\ \A k \in (issued + 1)..(issued + Len(refs)) : \E c \in S : c.id = k
  BY EnqueueStep
<1>3. UNCHANGED <<inflight, nack, dead, counter, mu, held, acked>>
  BY DEF EnqueueMany
<1>4. Claimed' = Claimed /\ DeadLettered' = DeadLettered /\ InHands' = InHands
  BY <1>3 DEF Claimed, DeadLettered, InHands
<1> DEFINE K == (issued + 1)..(issued + Len(refs))
<1>5. Len(refs) \in Nat /\ Len(refs) > 0 /\ issued + Len(refs) <= MaxCopies
  BY MaxBatchAssumption, BoundedIsSeq DEF EnqueueMany
<1>6. K # {} /\ K \in SUBSET (1..MaxCopies) /\ K \cap (1..issued) = {}
  <2>1. issued + 1 \in K
    BY <1>5 DEF Bounded
  <2>2. \A k \in K : k \in 1..MaxCopies /\ k \notin 1..issued
    BY <1>5, BoundsAssumption DEF Bounded
  <2> QED
    BY <2>1, <2>2
<1> HIDE DEF K
<1>7. ASSUME NEW k \in K PROVE PlaceOf(k) = "none" /\ PlaceOf(k)' = "waiting"
  <2>1. ~\E c \in Copied : c.id = k
    BY <1>6 DEF QInv, IdsKnown
  <2>2. \E c \in Waiting' : c.id = k
    BY <1>2 DEF K
  <2> QED
    BY <1>1, <2>1, <2>2, PlaceFacts, PlaceFactsNext
<1>8. ASSUME NEW k, k \notin K PROVE PlaceOf(k)' = PlaceOf(k)
  <2>1. (\E c \in Waiting' : c.id = k) <=> (\E c \in Waiting : c.id = k)
    BY <1>2, <1>8 DEF K
  <2> QED
    BY <2>1, <1>3, <1>4, PlaceSame
<1>9. \A k : HolderOf(k)' = HolderOf(k)
  <2> SUFFICES ASSUME NEW k PROVE HolderOf(k)' = HolderOf(k)
    OBVIOUS
  <2>1. CASE k \in K
    BY <2>1, <1>1, <1>7, HolderFacts, HolderFactsNext
  <2>2. CASE k \notin K
    BY <2>2, <1>1, <1>3, <1>8, HolderSame
  <2> QED
    BY <2>1, <2>2
<1>10. At' = [k \in 1..MaxCopies |-> IF k \in K THEN "waiting" ELSE At[k]]
  BY <1>7, <1>8 DEF At
<1>11. \A k \in K : At[k] = "none"
  BY <1>6, <1>7 DEF At
<1>12. Holder' = Holder
  BY <1>9 DEF Holder
<1>13. Abstract!Enqueue(K)
  BY <1>4, <1>6, <1>10, <1>11, <1>12
  DEF Abstract!Enqueue, Abstract!Move, Abstract!Copy, At, Holder, InHands
<1> QED
  BY <1>6, <1>13 DEF Abstract!Next, Abstract!Copy

LEMMA AbstractClaim ==
    ASSUME QInv, Bounded, NEW max \in 1..MaxBatch, Claim(max)
    PROVE  Abstract!Next
<1>1. QInv'
  BY ClaimStep
<1>2. PICK n \in 1..Len(items) :
        /\ Waiting' = Waiting \ {items[i] : i \in 1..n}
        /\ Claimed' = Claimed \cup {items[i] : i \in 1..n}
        /\ DOMAIN inflight' = DOMAIN inflight \cup (counter + 1)..(counter + n)
        /\ \A r \in DOMAIN inflight : inflight'[r] = inflight[r]
        /\ \A i \in 1..n : inflight'[counter + i].copy = items[i]
        /\ held' = held \cup {[receipt |-> counter + i, copy |-> items[i]] : i \in 1..n}
  BY ClaimStep
<1> DEFINE S == {items[i] : i \in 1..n}
<1>3. UNCHANGED <<nack, dead, mu, issued, acked>> /\ DeadLettered' = DeadLettered
  BY DEF Claim, DeadLettered
<1>4. /\ Len(items) \in Nat /\ counter \in Nat /\ DOMAIN items = 1..Len(items)
      /\ 1..n \subseteq 1..Len(items) /\ 1 \in 1..n
  BY PlacesApart DEF QInv, TypeOK
<1>5. S \subseteq Waiting /\ S \in SUBSET Copied
  BY <1>4 DEF Waiting, Range, Copied
<1>6. PICK K \in SUBSET (1..MaxCopies) : K = Numbers(S)
  BY <1>5, NumbersBounded
<1>7. K # {}
  BY <1>4, <1>6 DEF Numbers
<1>8. ASSUME NEW i \in 1..n
      PROVE  /\ items[i].id \in K /\ items[i] \in S
             /\ counter + i \in DOMAIN inflight' /\ inflight'[counter + i].copy = items[i]
  <2>1. items[i] \in S
    OBVIOUS
  <2>2. counter + i \in (counter + 1)..(counter + n)
    BY <1>4
  <2> HIDE DEF S
  <2> QED
    BY <2>1, <2>2, <1>2, <1>6 DEF Numbers
<1>9. ASSUME NEW k \in K PROVE \E i \in 1..n : items[i].id = k
  BY <1>6 DEF Numbers
<1>10. ASSUME NEW k \in K PROVE PlaceOf(k) = "waiting" /\ PlaceOf(k)' = "claimed"
  <2>1. PICK i \in 1..n : items[i].id = k
    BY <1>9
  <2>2. items[i] \in Waiting /\ items[i] \in Claimed'
    BY <1>2, <1>5, <1>8
  <2> QED
    BY <2>1, <2>2, <1>1, PlaceFacts, PlaceFactsNext
<1>11. ASSUME NEW k, k \notin K PROVE PlaceOf(k)' = PlaceOf(k)
  <2>1. \A c \in S : c.id # k
    BY <1>6, <1>11 DEF Numbers
  <2>2. (\E c \in Waiting' : c.id = k) <=> (\E c \in Waiting : c.id = k)
    BY <1>2, <2>1
  <2>3. (\E c \in Claimed' : c.id = k) <=> (\E c \in Claimed : c.id = k)
    BY <1>2, <2>1
  <2> QED
    BY <2>2, <2>3, <1>3, PlaceSame
<1>12. ASSUME NEW k, k \notin K PROVE HolderOf(k)' = HolderOf(k)
  <2>1. \A r \in DOMAIN inflight : r \in DOMAIN inflight' /\ inflight'[r].copy = inflight[r].copy
    BY <1>2
  <2> QED
    BY <2>1, <1>1, <1>11, <1>12, HolderSame
<1>13. ASSUME NEW k, NEW i \in 1..n, items[i].id = k PROVE HolderOf(k)' = counter + i
  <2>1. counter + i \in DOMAIN inflight' /\ inflight'[counter + i].copy.id = k
    BY <1>8, <1>13
  <2> QED
    BY <2>1, <1>1, HolderFactsNext
<1> HIDE DEF S
<1>14. At' = [k \in 1..MaxCopies |-> IF k \in K THEN "claimed" ELSE At[k]]
  BY <1>10, <1>11 DEF At
<1>15. \A k \in K : At[k] = "waiting"
  BY <1>6, <1>10 DEF At
<1>16. \A k \in 1..MaxCopies : k \notin K => Holder'[k] = Holder[k]
  BY <1>12 DEF Holder
<1>17. ASSUME NEW k \in K
       PROVE  \E i \in 1..n : items[i].id = k /\ Holder'[k] = counter + i
  <2>1. PICK i \in 1..n : items[i].id = k
    BY <1>9
  <2> QED
    BY <2>1, <1>6, <1>13 DEF Holder
<1>18. ASSUME NEW k \in K, NEW c \in InHands PROVE c.claim # Holder'[k]
  <2>1. PICK h \in held : c = [claim |-> h.receipt, copy |-> h.copy.id]
    BY DEF InHands
  <2>2. c.claim \in 1..counter
    BY <2>1 DEF QInv, HandsKnown, Hands
  <2>3. PICK i \in 1..n : Holder'[k] = counter + i
    BY <1>17
  <2> QED
    BY <2>2, <2>3, <1>4
<1>19. ASSUME NEW k \in K, NEW l \in K, Holder'[l] = Holder'[k] PROVE l = k
  <2>1. PICK i \in 1..n : items[i].id = k /\ Holder'[k] = counter + i
    BY <1>17
  <2>2. PICK j \in 1..n : items[j].id = l /\ Holder'[l] = counter + j
    BY <1>17
  <2>3. counter + i = counter + j
    BY <2>1, <2>2, <1>19
  <2>4. i = j
    BY <2>3, <1>4
  <2> QED
    BY <2>1, <2>2, <2>4
<1>20. InHands' = InHands \cup {[claim |-> Holder'[k], copy |-> k] : k \in K}
  <2>1. ASSUME NEW i \in 1..n
        PROVE  /\ items[i].id \in K
               /\ [claim |-> Holder'[items[i].id], copy |-> items[i].id]
                    = [claim |-> counter + i, copy |-> items[i].id]
    <3>1. items[i].id \in K /\ items[i].id \in 1..MaxCopies
      BY <1>6, <1>8
    <3>2. PICK k \in K : k = items[i].id
      BY <3>1
    <3>3. Holder'[k] = counter + i
      BY <3>1, <3>2, <1>13 DEF Holder
    <3> QED
      BY <3>1, <3>2, <3>3
  <2> DEFINE new == {[receipt |-> counter + i, copy |-> items[i]] : i \in 1..n}
             anew == {[claim |-> counter + i, copy |-> items[i].id] : i \in 1..n}
  <2>2. held' = held \cup new
    BY <1>2
  <2>3. {[claim |-> c.receipt, copy |-> c.copy.id] : c \in new} = anew
    <3>1. ASSUME NEW i \in 1..n
          PROVE  LET c == [receipt |-> counter + i, copy |-> items[i]]
                 IN  [claim |-> c.receipt, copy |-> c.copy.id]
                       = [claim |-> counter + i, copy |-> items[i].id]
      OBVIOUS
    <3> QED
      BY <3>1
  <2> HIDE DEF new
  <2>4. InHands' = InHands \cup anew
    BY <2>2, <2>3 DEF InHands
  <2>5. anew \subseteq {[claim |-> Holder'[k], copy |-> k] : k \in K}
    BY <2>1
  <2>6. ASSUME NEW k \in K PROVE [claim |-> Holder'[k], copy |-> k] \in anew
    BY <1>17
  <2> HIDE DEF anew
  <2> QED
    BY <2>4, <2>5, <2>6
<1>21. Abstract!Claim(K)
  <2>1. Abstract!Move(K, "waiting", "claimed")
    BY <1>6, <1>7, <1>14, <1>15 DEF Abstract!Move, Abstract!Copy, At
  <2> QED
    BY <2>1, <1>16, <1>18, <1>19, <1>20 DEF Abstract!Claim, Abstract!Copy, Holder, InHands
<1> QED
  BY <1>6, <1>21 DEF Abstract!Next, Abstract!Copy

\* Taking the receipts G out of flight releases the numbers under them.
LEMMA Released ==
    ASSUME QInv, QInv', NEW G \in SUBSET DOMAIN inflight,
           inflight' = [r \in DOMAIN inflight \ G |-> inflight[r]],
           NEW k
    PROVE  /\ k \in Numbers(Under(G)) => PlaceOf(k) = "claimed"
           /\ k \notin Numbers(Under(G)) =>
                 ((\E c \in Claimed' : c.id = k) <=> (\E c \in Claimed : c.id = k))
           /\ k \notin Numbers(Under(G)) /\ PlaceOf(k)' = PlaceOf(k) =>
                 HolderOf(k)' = HolderOf(k)
<1>1. Under(G) \subseteq Claimed /\ Claimed' = Claimed \ Under(G)
  BY DropReceipts
<1>2. \A c \in Under(G) : c.id \in Numbers(Under(G))
  BY DEF Numbers
<1>3. k \in Numbers(Under(G)) => \E c \in Under(G) : c.id = k
  BY DEF Numbers
<1>4. k \in Numbers(Under(G)) => PlaceOf(k) = "claimed"
  BY <1>1, <1>3, PlaceFacts
<1>5. k \notin Numbers(Under(G)) =>
        ((\E c \in Claimed' : c.id = k) <=> (\E c \in Claimed : c.id = k))
  BY <1>1, <1>2
<1>6. ASSUME k \notin Numbers(Under(G)), PlaceOf(k)' = PlaceOf(k)
      PROVE  HolderOf(k)' = HolderOf(k)
  <2>1. ASSUME NEW r \in DOMAIN inflight, inflight[r].copy.id = k
        PROVE  r \in DOMAIN inflight' /\ inflight'[r].copy = inflight[r].copy
    <3>1. r \notin G
      BY <2>1, <1>2, <1>6 DEF Under
    <3> QED
      BY <3>1
  <2> QED
    BY <2>1, <1>6, HolderSame
<1> QED
  BY <1>4, <1>5, <1>6

LEMMA AbstractRelease ==
    ASSUME QInv, QInv', Bounded, NEW G \in SUBSET DOMAIN inflight, G # {},
           inflight' = [r \in DOMAIN inflight \ G |-> inflight[r]],
           \/ Waiting' = Waiting \cup Under(G) /\ DeadLettered' = DeadLettered
           \/ Waiting' = Waiting /\ DeadLettered' = DeadLettered \cup Under(G),
           UNCHANGED <<held, acked>>
    PROVE  Abstract!Next
<1>1. Under(G) \subseteq Claimed /\ Claimed' = Claimed \ Under(G)
  BY DropReceipts
<1>2. PICK K \in SUBSET (1..MaxCopies) : K = Numbers(Under(G))
  <2>1. Under(G) \in SUBSET Copied
    BY <1>1 DEF Copied
  <2> QED
    BY <2>1, NumbersBounded
<1>3. K # {}
  BY <1>2 DEF Numbers, Under
<1>4. PICK to \in {"waiting", "dead"} :
        /\ to = "waiting" => Waiting' = Waiting \cup Under(G) /\ DeadLettered' = DeadLettered
        /\ to = "dead" => Waiting' = Waiting /\ DeadLettered' = DeadLettered \cup Under(G)
  OBVIOUS
<1>5. ASSUME NEW k \in K PROVE PlaceOf(k) = "claimed" /\ PlaceOf(k)' = to /\ HolderOf(k)' = 0
  <2>1. PlaceOf(k) = "claimed"
    BY <1>2, Released
  <2>2. PICK c \in Under(G) : c.id = k
    BY <1>2 DEF Numbers
  <2>3. PlaceOf(k)' = to
    BY <2>2, <1>4, PlaceFactsNext
  <2> QED
    BY <2>1, <2>3, <1>4, HolderFactsNext
<1>6. ASSUME NEW k, k \notin K PROVE PlaceOf(k)' = PlaceOf(k) /\ HolderOf(k)' = HolderOf(k)
  <2>1. \A c \in Under(G) : c.id # k
    BY <1>2, <1>6 DEF Numbers
  <2>2. (\E c \in Waiting' : c.id = k) <=> (\E c \in Waiting : c.id = k)
    BY <2>1
  <2>3. (\E c \in DeadLettered' : c.id = k) <=> (\E c \in DeadLettered : c.id = k)
    BY <2>1
  <2>4. (\E c \in Claimed' : c.id = k) <=> (\E c \in Claimed : c.id = k)
    BY <2>1, <1>1
  <2>5. PlaceOf(k)' = PlaceOf(k)
    BY <2>2, <2>3, <2>4, PlaceSame
  <2> QED
    BY <2>5, <1>2, <1>6, Released
<1>7. At' = [k \in 1..MaxCopies |-> IF k \in K THEN to ELSE At[k]]
  BY <1>5, <1>6 DEF At
<1>8. \A k \in K : At[k] = "claimed"
  BY <1>5 DEF At
<1>9. Holder' = [k \in 1..MaxCopies |-> IF k \in K THEN 0 ELSE Holder[k]]
  BY <1>5, <1>6 DEF Holder
<1>10. InHands' = InHands
  BY DEF InHands
<1>11. Abstract!Release(K, to)
  BY <1>3, <1>7, <1>8, <1>9, <1>10
  DEF Abstract!Release, Abstract!Move, Abstract!Copy, At, Holder, InHands
<1> QED
  BY <1>11 DEF Abstract!Next, Abstract!Copy

\* A claim in hand is seen by TaskQueue as the number of the copy it was for.
LEMMA InHandsMinus ==
    ASSUME QInv, NEW claims \in SUBSET held, held' = held \ claims
    PROVE  LET C == {[claim |-> c.receipt, copy |-> c.copy.id] : c \in claims}
           IN  C \in SUBSET InHands /\ InHands' = InHands \ C
<1> DEFINE A(c) == [claim |-> c.receipt, copy |-> c.copy.id]
           C == {A(c) : c \in claims}
<1>1. ASSUME NEW c \in held, NEW d \in held, A(c) = A(d) PROVE c = d
  <2>1. c.receipt = d.receipt /\ c.copy.id = d.copy.id
    BY <1>1
  <2>2. c.copy = d.copy
    BY <2>1 DEF QInv, HandsKnown, Hands, IdsKnown
  <2>3. c \in Claims /\ d \in Claims
    BY DEF QInv, TypeOK
  <2> QED
    BY <2>1, <2>2, <2>3 DEF Claims
<1>2. InHands = {A(c) : c \in held} /\ InHands' = {A(c) : c \in held'}
  BY DEF InHands
<1> HIDE DEF A
<1>3. C \in SUBSET InHands /\ InHands' = InHands \ C
  BY <1>1, <1>2
<1> QED
  BY <1>3 DEF A

LEMMA AbstractAck ==
    ASSUME QInv, Bounded, NEW claims \in SUBSET held, claims # {}, Ack(claims)
    PROVE  Abstract!Next
<1> DEFINE A(c) == [claim |-> c.receipt, copy |-> c.copy.id]
           R == {c.receipt : c \in claims}
<1>1. QInv'
  BY AckStep
<1>2. PICK G \in SUBSET DOMAIN inflight :
        /\ G = DOMAIN inflight \cap R
        /\ inflight' = [r \in DOMAIN inflight \ G |-> inflight[r]]
        /\ Claimed' = Claimed \ Under(G)
        /\ acked' = acked \cup Under(G)
  BY AckStep
<1>3. UNCHANGED <<items, dead, mu>> /\ held' = held \ claims
  BY DEF Ack
<1>4. Waiting' = Waiting /\ DeadLettered' = DeadLettered
  BY <1>3 DEF Waiting, DeadLettered
<1>5. PICK C \in SUBSET InHands : C = {A(c) : c \in claims} /\ InHands' = InHands \ C
  BY <1>3, InHandsMinus
<1>6. C # {}
  BY <1>5
<1>7. Under(G) \subseteq Claimed
  BY <1>2, DropReceipts
<1>8. PICK K \in SUBSET (1..MaxCopies) : K = Numbers(Under(G))
  <2>1. Under(G) \in SUBSET Copied
    BY <1>7 DEF Copied
  <2> QED
    BY <2>1, NumbersBounded
<1>9. ASSUME NEW k \in K PROVE PlaceOf(k)' = "done" /\ HolderOf(k)' = 0
  <2>1. PICK c \in Under(G) : c.id = k
    BY <1>8 DEF Numbers
  <2>2. PlaceOf(k)' = "done"
    BY <2>1, <1>1, <1>2, PlaceFactsNext
  <2> QED
    BY <2>2, <1>1, HolderFactsNext
<1>10. ASSUME NEW k, k \notin K PROVE PlaceOf(k)' = PlaceOf(k) /\ HolderOf(k)' = HolderOf(k)
  <2>1. \A c \in Under(G) : c.id # k
    BY <1>8, <1>10 DEF Numbers
  <2>2. (\E c \in acked' : c.id = k) <=> (\E c \in acked : c.id = k)
    BY <2>1, <1>2
  <2>3. (\E c \in Claimed' : c.id = k) <=> (\E c \in Claimed : c.id = k)
    BY <2>1, <1>2
  <2>4. PlaceOf(k)' = PlaceOf(k)
    BY <2>2, <2>3, <1>4, PlaceSame
  <2> QED
    BY <2>4, <1>1, <1>2, <1>8, <1>10, Released
<1>11. ASSUME NEW c \in claims
       PROVE  /\ c.copy.id \in 1..MaxCopies
              /\ HolderOf(c.copy.id) = c.receipt <=> c.receipt \in G
  <2>1. /\ c.receipt \in 1..counter /\ c.copy \in Copied
        /\ c.receipt \in DOMAIN inflight => inflight[c.receipt].copy = c.copy
    BY DEF QInv, HandsKnown, Hands
  <2>2. c.copy.id \in 1..MaxCopies
    BY <2>1, NumbersBounded DEF Numbers
  <2>3. c.receipt # 0
    BY <2>1 DEF QInv, TypeOK
  <2>4. c.receipt \in DOMAIN inflight => HolderOf(c.copy.id) = c.receipt
    BY <2>1, HolderFacts
  <2>5. HolderOf(c.copy.id) = c.receipt => c.receipt \in DOMAIN inflight
    BY <2>3, HolderFacts
  <2> QED
    BY <2>2, <2>4, <2>5, <1>2
<1> DEFINE L == {c.copy : c \in {d \in C : Holder[d.copy] = d.claim}}
<1>12. L = K
  <2>1. ASSUME NEW d \in C
        PROVE  /\ Holder[d.copy] = d.claim => d.copy \in K
    <3>1. PICK c \in claims : d = A(c)
      BY <1>5
    <3>2. d.copy = c.copy.id /\ d.claim = c.receipt
      BY <3>1
    <3>3. ASSUME Holder[d.copy] = d.claim PROVE d.copy \in K
      <4>1. c.receipt \in G
        BY <3>2, <3>3, <1>11 DEF Holder
      <4>2. inflight[c.receipt].copy = c.copy
        BY <4>1 DEF QInv, HandsKnown, Hands
      <4> QED
        BY <3>2, <4>1, <4>2, <1>8 DEF Numbers, Under
    <3> QED
      BY <3>3
  <2>2. ASSUME NEW k \in K PROVE \E d \in C : d.copy = k /\ Holder[d.copy] = d.claim
    <3>1. PICK r \in G : inflight[r].copy.id = k
      BY <1>8 DEF Numbers, Under
    <3>2. PICK c \in claims : c.receipt = r
      BY <3>1, <1>2
    <3>3. inflight[r].copy = c.copy
      BY <3>1, <3>2 DEF QInv, HandsKnown, Hands
    <3>4. HolderOf(c.copy.id) = c.receipt /\ c.copy.id = k
      BY <3>1, <3>2, <3>3, <1>11
    <3>5. A(c) \in C /\ A(c).copy = k /\ A(c).claim = c.receipt
      BY <3>4, <1>5
    <3>6. Holder[k] = c.receipt
      BY <3>4, <1>11 DEF Holder
    <3> QED
      BY <3>5, <3>6
  <2> QED
    BY <2>1, <2>2
<1>13. At' = [k \in 1..MaxCopies |-> IF k \in L THEN "done" ELSE At[k]]
  BY <1>9, <1>10, <1>12 DEF At
<1>14. Holder' = [k \in 1..MaxCopies |-> IF k \in L THEN 0 ELSE Holder[k]]
  BY <1>9, <1>10, <1>12 DEF Holder
<1>15. Abstract!Ack(C)
  BY <1>5, <1>6, <1>13, <1>14 DEF Abstract!Ack, Abstract!Copy, At, Holder, InHands
<1> QED
  BY <1>15, <1>5 DEF Abstract!Next, InHands

LEMMA AbstractRevive ==
    ASSUME QInv, Bounded, ReviveNext
    PROVE  Abstract!Next \/ UNCHANGED Abstract!qvars
<1>1. QInv' /\ UNCHANGED <<inflight, held, acked>>
  BY ReviveStep DEF ReviveNext
<1>2. PICK S \in SUBSET DeadLettered :
        Waiting' = Waiting \cup S /\ DeadLettered' = DeadLettered \ S
  BY ReviveStep
<1>3. PICK K \in SUBSET (1..MaxCopies) : K = Numbers(S)
  <2>1. S \in SUBSET Copied
    BY DEF Copied
  <2> QED
    BY <2>1, NumbersBounded
<1>4. Claimed' = Claimed /\ InHands' = InHands
  BY <1>1 DEF Claimed, InHands
<1>5. ASSUME NEW k \in K PROVE PlaceOf(k) = "dead" /\ PlaceOf(k)' = "waiting"
  <2>1. PICK c \in S : c.id = k
    BY <1>3 DEF Numbers
  <2> QED
    BY <2>1, <1>1, <1>2, PlaceFacts, PlaceFactsNext
<1>6. ASSUME NEW k, k \notin K PROVE PlaceOf(k)' = PlaceOf(k)
  <2>1. \A c \in S : c.id # k
    BY <1>3, <1>6 DEF Numbers
  <2>2. (\E c \in Waiting' : c.id = k) <=> (\E c \in Waiting : c.id = k)
    BY <2>1, <1>2
  <2>3. (\E c \in DeadLettered' : c.id = k) <=> (\E c \in DeadLettered : c.id = k)
    BY <2>1, <1>2
  <2> QED
    BY <2>2, <2>3, <1>1, <1>4, PlaceSame
<1>7. \A k : HolderOf(k)' = HolderOf(k)
  <2> SUFFICES ASSUME NEW k PROVE HolderOf(k)' = HolderOf(k)
    OBVIOUS
  <2>1. CASE k \in K
    BY <2>1, <1>1, <1>5, HolderFacts, HolderFactsNext
  <2>2. CASE k \notin K
    BY <2>2, <1>1, <1>6, HolderSame
  <2> QED
    BY <2>1, <2>2
<1>8. At' = [k \in 1..MaxCopies |-> IF k \in K THEN "waiting" ELSE At[k]]
  BY <1>5, <1>6 DEF At
<1>9. \A k \in K : At[k] = "dead"
  BY <1>5 DEF At
<1>10. Holder' = Holder
  BY <1>7 DEF Holder
<1>11. CASE K = {}
  <2>1. At' = At
    BY <1>6, <1>11 DEF At
  <2> QED
    BY <2>1, <1>4, <1>10 DEF Abstract!qvars, At, Holder, InHands
<1>12. CASE K # {}
  <2>1. Abstract!Revive(K)
    BY <1>4, <1>8, <1>9, <1>10, <1>12
    DEF Abstract!Revive, Abstract!Move, Abstract!Copy, At, Holder, InHands
  <2> QED
    BY <2>1 DEF Abstract!Next, Abstract!Copy
<1> QED
  BY <1>11, <1>12

\* A step that leaves every copy where it is.
LEMMA NothingMoves ==
    ASSUME QInv, QInv', Waiting' = Waiting, Claimed' = Claimed, DeadLettered' = DeadLettered,
           UNCHANGED acked,
           \A r \in DOMAIN inflight : r \in DOMAIN inflight' /\ inflight'[r].copy = inflight[r].copy
    PROVE  At' = At /\ Holder' = Holder
<1>1. \A k : PlaceOf(k)' = PlaceOf(k)
  BY PlaceSame
<1>2. ASSUME NEW k PROVE HolderOf(k)' = HolderOf(k)
  BY <1>1, HolderSame
<1> QED
  BY <1>1, <1>2 DEF At, Holder

LEMMA AbstractNack ==
    ASSUME QInv, NEW claims \in Batches, NEW reason \in Reasons, Nack(claims, reason)
    PROVE  Abstract!Next
<1>1. QInv' /\ DeadLettered' = DeadLettered
  BY NackStep
<1>2. UNCHANGED <<items, inflight, acked>> /\ held' = held \ Range(claims)
  BY DEF Nack
<1>3. Waiting' = Waiting /\ Claimed' = Claimed
  BY <1>2 DEF Waiting, Claimed
<1>4. At' = At /\ Holder' = Holder
  BY <1>1, <1>2, <1>3, NothingMoves
<1>5. claims \in Seq(held) /\ claims # <<>>
  BY MaxBatchAssumption, BoundedIsSeq DEF Batches
<1>6. Range(claims) \in SUBSET held /\ Range(claims) # {}
  BY <1>5, SeqRange
<1>7. PICK C \in SUBSET InHands :
        /\ C = {[claim |-> c.receipt, copy |-> c.copy.id] : c \in Range(claims)}
        /\ InHands' = InHands \ C
  BY <1>2, <1>6, InHandsMinus
<1>8. C # {}
  BY <1>6, <1>7
<1>9. Abstract!Nack(C)
  BY <1>4, <1>7, <1>8 DEF Abstract!Nack, At, Holder, InHands
<1> QED
  BY <1>9, <1>7 DEF Abstract!Next, InHands

\* Every step of the queue in memory is one of TaskQueue, or none.
LEMMA StepSimulation == QInv /\ Bounded /\ [Next]_vars => [Abstract!Next]_(Abstract!qvars)
<1> SUFFICES ASSUME QInv, Bounded, [Next]_vars
             PROVE  Abstract!Next \/ UNCHANGED Abstract!qvars
  OBVIOUS
<1>0. QInv'
  BY NextQInv
<1>1. ASSUME At' = At, Holder' = Holder, UNCHANGED held PROVE UNCHANGED Abstract!qvars
  BY <1>1 DEF Abstract!qvars, At, Holder
<1>2. CASE UNCHANGED vars
  <2>1. /\ Waiting' = Waiting /\ Claimed' = Claimed /\ DeadLettered' = DeadLettered
        /\ UNCHANGED <<inflight, acked, held>>
    BY <1>2 DEF vars, Waiting, Claimed, DeadLettered
  <2> QED
    BY <1>0, <1>1, <2>1, NothingMoves
<1>3. ASSUME NEW r \in DOMAIN inflight, Lapse(r) PROVE UNCHANGED Abstract!qvars
  <2>1. /\ Claimed' = Claimed /\ DOMAIN inflight' = DOMAIN inflight
        /\ \A s \in DOMAIN inflight : inflight'[s].copy = inflight[s].copy
    BY <1>3, LapseStep
  <2>2. /\ Waiting' = Waiting /\ DeadLettered' = DeadLettered /\ UNCHANGED <<acked, held>>
    BY <1>3 DEF Lapse, Waiting, DeadLettered
  <2> QED
    BY <1>0, <1>1, <2>1, <2>2, NothingMoves
<1>4. ASSUME NEW target \in [Refs -> 0..MaxBatch], RequeueDeadLetters(target)
      PROVE  UNCHANGED Abstract!qvars
  <2>1. DeadLettered' = DeadLettered
    BY <1>4, RequeueDeadStep
  <2>2. /\ Waiting' = Waiting /\ Claimed' = Claimed /\ UNCHANGED <<inflight, acked, held>>
    BY <1>4 DEF RequeueDeadLetters, Waiting, Claimed
  <2> QED
    BY <1>0, <1>1, <2>1, <2>2, NothingMoves
<1>5. ASSUME NackNext PROVE Abstract!Next \/ UNCHANGED Abstract!qvars
  <2>1. CASE mu.rest # <<>> /\ Head(mu.rest).receipt \in DOMAIN inflight
    <3>1. UNCHANGED <<held, acked>>
      BY <1>5 DEF NackNext
    <3>2. PICK G \in SUBSET DOMAIN inflight :
            /\ G # {}
            /\ inflight' = [r \in DOMAIN inflight \ G |-> inflight[r]]
            /\ \/ Waiting' = Waiting \cup Under(G) /\ DeadLettered' = DeadLettered
               \/ Waiting' = Waiting /\ DeadLettered' = DeadLettered \cup Under(G)
      BY <1>5, <2>1, NackLiveStep
    <3> QED
      BY <1>0, <3>1, <3>2, AbstractRelease
  <2>2. CASE ~(mu.rest # <<>> /\ Head(mu.rest).receipt \in DOMAIN inflight)
    <3>1. UNCHANGED <<items, inflight, nack, dead, acked, held>>
      BY <1>5, <2>2 DEF NackNext
    <3>2. DeadLettered' = DeadLettered
      BY <1>5, <3>1, NackStaleStep
    <3>3. Waiting' = Waiting /\ Claimed' = Claimed
      BY <3>1 DEF Waiting, Claimed
    <3> QED
      BY <1>0, <1>1, <3>1, <3>2, <3>3, NothingMoves
  <2> QED
    BY <2>1, <2>2
<1>6. ASSUME NEW max \in 1..MaxBatch, RequeueExpired(max) PROVE Abstract!Next
  <2>1. UNCHANGED <<held, acked>> /\ DeadLettered' = DeadLettered
    BY <1>6 DEF RequeueExpired, DeadLettered
  <2>2. PICK G \in SUBSET DOMAIN inflight :
          /\ G # {}
          /\ inflight' = [r \in DOMAIN inflight \ G |-> inflight[r]]
          /\ Waiting' = Waiting \cup Under(G)
    BY <1>6, RequeueStep
  <2> QED
    BY <1>0, <2>1, <2>2, AbstractRelease
<1> QED
  BY <1>2, <1>3, <1>4, <1>5, <1>6, AbstractEnqueue, AbstractClaim, AbstractAck, AbstractNack,
     AbstractRevive DEF Next

LEMMA InitSimulation == Init => Abstract!Init /\ Bounded
<1> SUFFICES ASSUME Init PROVE Abstract!Init /\ Bounded
  OBVIOUS
<1>1. QInv
  BY InitQInv
<1>2. Copied = {}
  BY DEF Init, Copied, Waiting, Claimed, DeadLettered, Free, Range
<1>3. \A k : PlaceOf(k) = "none"
  BY <1>1, <1>2, PlaceFacts
<1>4. \A k : HolderOf(k) = 0
  BY <1>1, <1>3, HolderFacts
<1>5. Bounded
  BY BoundsAssumption DEF Init, Bounded
<1> QED
  BY <1>3, <1>4, <1>5 DEF Init, Abstract!Init, Abstract!Copy

\* The queue in memory implements the safety of TaskQueue: every behaviour of
\* MemoryQueue is one of TaskQueue under PlaceOf, HolderOf and the claims in
\* hand, for every set of refs and every bound.
THEOREM QueueImplements == Spec => Abstract!SafetySpec
BY InitQInv, NextQInv, InitSimulation, BoundedStep, StepSimulation, PTL
DEF Spec, Abstract!SafetySpec
=============================================================================
