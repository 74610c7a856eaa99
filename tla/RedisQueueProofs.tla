------------------------- MODULE RedisQueueProofs -------------------------
(***************************************************************************)
(* Proofs about RedisQueue for every set of refs and clients, every batch  *)
(* size, error limit and bound: wherever the commands of concurrent calls  *)
(* interleave and connections break, no claim escapes the sweep, no ref is *)
(* lost except out of the hands of a broken call, and none is doubled      *)
(* before a timeout.                                                       *)
(***************************************************************************)
EXTENDS RedisQueue, FiniteSetTheorems, FunctionTheorems, WellFoundedInduction, TLAPS

\* The calls, and the commands each method sends.  A payload was read before it
\* is counted, pushed or stored.
Calls == [op : {"idle", "claim", "ack", "nack", "sweep", "revive"},
          cmd : {"none", "RPOP", "HSET", "ZADD", "HGET", "HINCRBY", "LPUSH", "LPUSH dead",
                 "HDEL claims", "ZREM", "HDEL nack", "LREM"},
          todo : Seq(Refs \cup Nat), copy : {NoCopy} \cup Copies, count : Nat,
          reason : {"none", "not_ready", "error"}, got : SUBSET Nat]

InOrder(k) ==
    /\ k.op = "idle" => k = Idle
    /\ k.op # "idle" => k.todo # <<>>
    /\ k.op = "claim" => k.cmd \in {"RPOP", "HSET", "ZADD"}
    /\ k.op = "ack" => k.cmd \in {"HGET", "HDEL claims", "ZREM", "HDEL nack"}
    /\ k.op = "nack" => k.cmd \in {"HGET", "HINCRBY", "LPUSH dead", "LPUSH", "HDEL nack",
                                   "HDEL claims", "ZREM"}
    /\ k.op = "sweep" => k.cmd \in {"HGET", "LPUSH", "HDEL claims", "ZREM"}
    /\ k.op = "revive" => k.cmd \in {"LREM", "LPUSH", "HDEL nack"}
    /\ k.cmd \in {"HSET", "HINCRBY", "LPUSH", "LPUSH dead", "HDEL nack"} => k.copy # NoCopy
    /\ k.op = "nack" /\ k.cmd # "HGET" => k.copy # NoCopy

\* A call that settles receipts: Ack, Nack or RequeueExpired.
Settles(k) == k.op \in {"ack", "nack", "sweep"}

\* What holds of a call through all its iterations: its receipts were issued (n
\* of them so far), those of a sweep have lapsed (they are in lp), and those of
\* an Ack or a Nack differ.
Steady(k, n, lp) ==
    /\ k.got \subseteq 1..n
    /\ Settles(k) => \A i \in 1..Len(k.todo) : k.todo[i] \in 1..n
    /\ k.op = "sweep" => \A i \in 1..Len(k.todo) : k.todo[i] \in lp
    /\ k.op \in {"ack", "nack"} => \A i, j \in 1..Len(k.todo) : k.todo[i] = k.todo[j] => i = j

\* What a call knows of the claims cl in the middle of an iteration.  What it
\* has read is what the claim says as long as there is one; after HDEL there is
\* none.  A Nack still has its claim unless the copy is late (in lt).
Informed(k, cl, lt) ==
    /\ k.cmd = "ZADD" => k.todo[1] \in k.got
    /\ Settles(k) /\ k.cmd # "HGET" /\ k.todo[1] \in DOMAIN cl => k.copy = cl[k.todo[1]]
    /\ k.cmd = "ZREM" => k.todo[1] \notin DOMAIN cl
    /\ k.op = "ack" /\ k.cmd = "HDEL nack" => k.todo[1] \notin DOMAIN cl
    /\ k.op = "sweep" /\ k.copy # NoCopy => k.copy \in lt
    /\ k.op = "nack" /\ k.cmd \notin {"HGET", "ZREM"} /\ k.copy \notin lt => k.todo[1] \in DOMAIN cl

Good(k, cl, n, lp, lt) == k \in Calls /\ InOrder(k) /\ Steady(k, n, lp) /\ Informed(k, cl, lt)

\* The receipts only this call may settle, apart from sweeps.
Owns(k) == IF k.op = "claim" THEN k.got
           ELSE IF k.op \in {"ack", "nack"} THEN Range(k.todo) ELSE {}

TypeInv ==
    /\ pending \in Seq(Copies) /\ dead \in Seq(Copies)
    /\ issuedReceipts \in Nat /\ issued \in Nat
    /\ DOMAIN claims \subseteq 1..issuedReceipts
    /\ \A r \in DOMAIN claims : claims[r] \in Copies
    /\ visibility \subseteq 1..issuedReceipts /\ lapsed \subseteq 1..issuedReceipts
    /\ held \subseteq 1..issuedReceipts
    /\ nack \in [Refs -> Nat]

CallsGood ==
    /\ call = [c \in Clients |-> call[c]]
    /\ \A c \in Clients : Good(call[c], claims, issuedReceipts, lapsed, late)

ReceiptsOwned ==
    /\ \A c \in Clients : Owns(call[c]) \cap held = {}
    /\ \A c, d \in Clients : c # d => Owns(call[c]) \cap Owns(call[d]) = {}

LapsedLate == \A r \in lapsed \cap DOMAIN claims : claims[r] \in late

CoreInv == TypeInv /\ CallsGood /\ ReceiptsOwned /\ LapsedLate

---------------------------------------------------------------------------
\* Sequences.
LEMMA HeadTail ==
    ASSUME NEW S, NEW s \in Seq(S), s # <<>>
    PROVE  /\ Len(s) \in Nat /\ Len(s) >= 1 /\ DOMAIN s = 1..Len(s)
           /\ Head(s) = s[1] /\ s[1] \in S /\ 1 \in 1..Len(s)
           /\ Tail(s) \in Seq(S) /\ Len(Tail(s)) = Len(s) - 1
           /\ \A i \in 1..Len(Tail(s)) : i + 1 \in 1..Len(s) /\ Tail(s)[i] = s[i + 1]
  OBVIOUS

LEMMA TailRange ==
    ASSUME NEW S, NEW s \in Seq(S), s # <<>>
    PROVE  /\ Range(s) = {s[i] : i \in 1..Len(s)}
           /\ Range(Tail(s)) \subseteq Range(s)
           /\ Range(s) = {s[1]} \cup Range(Tail(s))
<1>1. DOMAIN s = 1..Len(s) /\ DOMAIN Tail(s) = 1..Len(Tail(s)) /\ Len(s) \in Nat
  BY HeadTail
<1>2. \A i \in 1..Len(Tail(s)) : Tail(s)[i] \in {s[j] : j \in 1..Len(s)}
  BY HeadTail
<1>3. \A j \in 1..Len(s) : j = 1 \/ (j - 1 \in 1..Len(Tail(s)) /\ s[j] = Tail(s)[j - 1])
  BY HeadTail
<1>4. s[1] \in {s[i] : i \in 1..Len(s)}
  BY HeadTail
<1>5. Range(s) = {s[i] : i \in 1..Len(s)} /\ Range(Tail(s)) = {Tail(s)[i] : i \in 1..Len(Tail(s))}
  BY <1>1 DEF Range
<1>6. Range(Tail(s)) \subseteq Range(s)
  BY <1>2, <1>5
<1>7. \A j \in 1..Len(s) : s[j] \in {s[1]} \cup Range(Tail(s))
  BY <1>3, <1>5
<1> QED
  BY <1>4, <1>5, <1>6, <1>7

\* LREM takes the youngest letter of a ref: the greatest index.
LEMMA MaxIn ==
    ASSUME NEW n \in Nat, NEW S, S \subseteq 1..n, S # {}
    PROVE  Max(S) \in S
<1> DEFINE T == {n - x : x \in S}
           R == OpToRel(<, Nat)
<1>1. T \subseteq Nat
  BY SMT
<1>2. T # {}
  BY Zenon
<1>3. IsWellFoundedOn(R, Nat)
  BY NatLessThanWellFounded
<1>4. \A y, z \in Nat : y < z => <<y, z>> \in R
  BY DEF OpToRel
<1>5. PICK m \in T : \A y \in T : ~ (<<y, m>> \in R)
  <2> HIDE DEF T, R
  <2> QED BY <1>1, <1>2, <1>3, WFMin
<1>6. ASSUME NEW y \in T PROVE y \in Nat /\ m \in Nat /\ ~(y < m)
  <2> HIDE DEF T, R
  <2>1. y \in Nat /\ m \in Nat
    BY <1>1
  <2>2. y < m => <<y, m>> \in R
    BY <2>1, <1>4, Zenon
  <2> QED BY <2>1, <2>2, <1>5
<1>7. PICK x \in S : m = n - x
  BY <1>5
<1>8. ASSUME NEW y \in S PROVE x >= y
  <2>1. n - y \in T
    OBVIOUS
  <2>2. ~(n - y < m)
    <3> HIDE DEF T
    <3> QED BY <2>1, <1>6
  <2> QED BY <2>2, <1>7
<1> QED
  BY <1>7, <1>8 DEF Max

LEMMA RemoveAtElements ==
    ASSUME NEW S, NEW s \in Seq(S), NEW i \in 1..Len(s), NEW t, t = RemoveAt(s, i)
    PROVE  /\ t \in Seq(S) /\ Len(t) = Len(s) - 1 /\ s[i] \in S
           /\ \A j \in 1..Len(t) : t[j] = IF j < i THEN s[j] ELSE s[j + 1]
<1>1. PICK u : u = SubSeq(s, 1, i - 1)
  OBVIOUS
<1>2. PICK v : v = SubSeq(s, i + 1, Len(s))
  OBVIOUS
<1>3. Len(s) \in Nat /\ i \in Nat /\ \A j \in 1..Len(s) : s[j] \in S
  OBVIOUS
<1>4. u \in Seq(S) /\ Len(u) = i - 1 /\ \A j \in 1..(i - 1) : u[j] = s[j]
  BY <1>1, <1>3
<1>5. v \in Seq(S) /\ Len(v) = Len(s) - i /\ \A j \in 1..(Len(s) - i) : v[j] = s[j + i]
  BY <1>2, <1>3
<1>6. t = u \o v
  BY <1>1, <1>2 DEF RemoveAt
<1>7. /\ t \in Seq(S) /\ Len(t) = Len(u) + Len(v)
      /\ \A j \in 1..Len(t) : t[j] = IF j <= Len(u) THEN u[j] ELSE v[j - Len(u)]
  <2>1. t \in Seq(S) /\ Len(t) = Len(u) + Len(v) /\ Len(u) \in Nat /\ Len(v) \in Nat
    <3>1. u \in Seq(S) /\ v \in Seq(S)
      BY <1>4, <1>5
    <3>2. u \o v \in Seq(S) /\ Len(u \o v) = Len(u) + Len(v)
      BY <3>1
    <3> QED
      BY <1>6, <3>1, <3>2
  <2>2. ASSUME NEW j \in 1..Len(t), j <= Len(u) PROVE t[j] = u[j]
    BY <1>4, <1>5, <1>6, <2>1, <2>2
  <2>3. ASSUME NEW j \in 1..Len(t), ~(j <= Len(u)) PROVE t[j] = v[j - Len(u)]
    BY <1>4, <1>5, <1>6, <2>1, <2>3
  <2> QED
    BY <2>1, <2>2, <2>3
<1>8. ASSUME NEW j \in 1..Len(t) PROVE t[j] = IF j < i THEN s[j] ELSE s[j + 1]
  <2>1. CASE j < i
    BY <2>1, <1>3, <1>4, <1>7
  <2>2. CASE ~(j < i)
    <3>1. j - Len(u) \in 1..(Len(s) - i) /\ (j - Len(u)) + i = j + 1 /\ ~(j <= Len(u))
      BY <2>2, <1>3, <1>4, <1>5, <1>7
    <3>2. v[j - Len(u)] = s[j + 1]
      BY <3>1, <1>5
    <3> QED
      BY <2>2, <3>1, <3>2, <1>7
  <2> QED
    BY <2>1, <2>2
<1> QED
  BY <1>3, <1>4, <1>5, <1>7, <1>8

---------------------------------------------------------------------------
\* The control flow of the methods.
LEMMA IdleGood ==
    ASSUME NEW cl, NEW n \in Nat, NEW lp, NEW lt
    PROVE  Good(Idle, cl, n, lp, lt) /\ Owns(Idle) = {}
<1>1. Idle \in Calls
  BY DEF Idle, Calls
<1>2. InOrder(Idle) /\ Steady(Idle, n, lp) /\ Informed(Idle, cl, lt)
  BY DEF Idle, InOrder, Steady, Informed, Settles
<1> QED
  BY <1>1, <1>2 DEF Good, Owns, Idle

LEMMA FollowingKinds ==
    ASSUME NEW k \in Calls, InOrder(k)
    PROVE  /\ k.op = "claim" => Following(k) = ClaimNext(k)
           /\ k.op = "ack" => Following(k) = AckNext(k)
           /\ k.op = "nack" => Following(k) = NackNext(k)
           /\ k.op = "sweep" => Following(k) = SweepNext(k)
           /\ k.op = "revive" => Following(k) = ReviveNext(k)
  BY DEF Following

LEMMA FollowingInOrder ==
    ASSUME NEW k \in Calls, InOrder(k), k.op # "idle", Following(k) # "next",
           k.cmd = "RPOP" => k.copy # NoCopy,
           NEW a, a = [k EXCEPT !.cmd = Following(k)]
    PROVE  a \in Calls /\ InOrder(a)
<1>1. /\ k.op \in {"claim", "ack", "nack", "sweep", "revive"} /\ k.copy \in {NoCopy} \cup Copies
      /\ k.todo # <<>>
  BY DEF Calls, InOrder
<1>2. /\ Following(k) \in {"HSET", "ZADD", "HINCRBY", "LPUSH", "LPUSH dead", "HDEL claims",
                           "ZREM", "HDEL nack"}
      /\ k.op = "claim" => Following(k) \in {"HSET", "ZADD"} /\ k.copy # NoCopy
      /\ k.op = "ack" => Following(k) \in {"HDEL claims", "ZREM", "HDEL nack"}
                         /\ (Following(k) = "HDEL nack" => k.copy # NoCopy)
      /\ k.op = "nack" => Following(k) \in {"HINCRBY", "LPUSH dead", "LPUSH", "HDEL nack",
                                            "HDEL claims", "ZREM"} /\ k.copy # NoCopy
      /\ k.op = "sweep" => Following(k) \in {"LPUSH", "HDEL claims", "ZREM"}
                           /\ (Following(k) = "LPUSH" => k.copy # NoCopy)
      /\ k.op = "revive" => Following(k) \in {"LPUSH", "HDEL nack"} /\ k.copy # NoCopy
  <2>1. CASE k.op = "claim"
    BY <2>1, FollowingKinds DEF ClaimNext, InOrder
  <2>2. CASE k.op = "ack"
    BY <2>2, FollowingKinds DEF AckNext, InOrder
  <2>3. CASE k.op = "nack"
    <3>1. Following(k) = NackNext(k)
      BY <2>3, FollowingKinds
    <3>2. k.cmd = "HGET" => k.copy # NoCopy
      BY <3>1 DEF NackNext
    <3>3. k.cmd \in {"HGET", "HINCRBY", "LPUSH dead", "LPUSH", "HDEL nack", "HDEL claims", "ZREM"}
          /\ k.copy # NoCopy
      BY <2>3, <3>2 DEF InOrder
    <3>4. Following(k) \in {"HINCRBY", "LPUSH dead", "LPUSH", "HDEL nack", "HDEL claims", "ZREM"}
      BY <3>1, <3>3 DEF NackNext
    <3> QED
      BY <2>3, <3>3, <3>4
  <2>4. CASE k.op = "sweep"
    BY <2>4, FollowingKinds DEF SweepNext, InOrder
  <2>5. CASE k.op = "revive"
    BY <2>5, FollowingKinds DEF ReviveNext, InOrder
  <2> QED
    BY <1>1, <2>1, <2>2, <2>3, <2>4, <2>5
<1>3. a \in Calls /\ a.op = k.op /\ a.cmd = Following(k) /\ a.copy = k.copy /\ a.todo = k.todo
  BY <1>2 DEF Calls
<1> QED
  BY <1>1, <1>2, <1>3 DEF InOrder

\* An iteration that begins.
LEMMA RestartGood ==
    ASSUME NEW k \in Calls, InOrder(k), k.op # "idle", Len(k.todo) > 1,
           NEW cl, NEW n \in Nat, NEW lp, NEW lt, Steady(k, n, lp),
           NEW a, a = [k EXCEPT !.todo = Tail(@), !.cmd = FirstCommand(k.op),
                                !.copy = NoCopy, !.count = 0]
    PROVE  Good(a, cl, n, lp, lt) /\ Owns(a) \subseteq Owns(k)
<1>1. k.op \in {"claim", "ack", "nack", "sweep", "revive"} /\ k.todo \in Seq(Refs \cup Nat)
  BY DEF Calls
<1>2. PICK t : t = Tail(k.todo)
  OBVIOUS
<1>3. /\ t \in Seq(Refs \cup Nat) /\ Len(t) = Len(k.todo) - 1 /\ Len(k.todo) \in Nat
      /\ \A i \in 1..Len(t) : i + 1 \in 1..Len(k.todo) /\ t[i] = k.todo[i + 1]
      /\ k.todo # <<>> /\ t # <<>>
  <2>1. k.todo # <<>>
    BY DEF InOrder
  <2>2. /\ t \in Seq(Refs \cup Nat) /\ Len(t) = Len(k.todo) - 1 /\ Len(k.todo) \in Nat
        /\ \A i \in 1..Len(t) : i + 1 \in 1..Len(k.todo) /\ t[i] = k.todo[i + 1]
    BY <1>1, <1>2, <2>1, HeadTail
  <2> QED
    BY <2>1, <2>2
<1>4. /\ a \in Calls /\ a.op = k.op /\ a.cmd = FirstCommand(k.op) /\ a.copy = NoCopy
      /\ a.todo = t /\ a.got = k.got
  BY <1>1, <1>2, <1>3 DEF Calls, FirstCommand
<1>5. /\ k.op = "claim" => a.cmd = "RPOP"
      /\ k.op = "revive" => a.cmd = "LREM"
      /\ Settles(k) => a.cmd = "HGET"
  BY <1>4 DEF FirstCommand, Settles
<1>6. InOrder(a)
  BY <1>1, <1>3, <1>4, <1>5 DEF InOrder, Settles
<1>7. Steady(a, n, lp)
  <2>1. a.got \subseteq 1..n
    BY <1>4 DEF Steady
  <2>2. Settles(a) => \A i \in 1..Len(t) : t[i] \in 1..n
    BY <1>3, <1>4 DEF Steady, Settles
  <2>3. a.op = "sweep" => \A i \in 1..Len(t) : t[i] \in lp
    BY <1>3, <1>4 DEF Steady
  <2>4. a.op \in {"ack", "nack"} => \A i, j \in 1..Len(t) : t[i] = t[j] => i = j
    BY <1>3, <1>4 DEF Steady
  <2> QED
    BY <1>4, <2>1, <2>2, <2>3, <2>4 DEF Steady
<1>8. Informed(a, cl, lt)
  BY <1>1, <1>4, <1>5 DEF Informed, Settles
<1>9. Owns(a) \subseteq Owns(k)
  BY <1>1, <1>2, <1>3, <1>4, TailRange DEF Owns
<1> QED
  BY <1>4, <1>6, <1>7, <1>8, <1>9 DEF Good

\* The call after a command: good if it is where the next command is of the
\* same iteration.
LEMMA AdvanceGood ==
    ASSUME NEW k \in Calls, InOrder(k), k.op # "idle", k.cmd = "RPOP" => k.copy # NoCopy,
           NEW cl, NEW n \in Nat, NEW lp, NEW lt, Steady(k, n, lp),
           \A f : f = [k EXCEPT !.cmd = Following(k)] /\ Following(k) # "next"
                    => Informed(f, cl, lt),
           NEW a, a = Advance(k)
    PROVE  Good(a, cl, n, lp, lt) /\ Owns(a) \subseteq Owns(k)
<1>1. CASE Following(k) # "next"
  <2>1. a = [k EXCEPT !.cmd = Following(k)]
    BY <1>1 DEF Advance
  <2>2. a \in Calls /\ InOrder(a)
    BY <1>1, <2>1, FollowingInOrder
  <2>3. Informed(a, cl, lt)
    BY <1>1, <2>1
  <2>4. a.op = k.op /\ a.todo = k.todo /\ a.got = k.got
    BY <2>1 DEF Calls
  <2>5. Steady(a, n, lp) /\ Owns(a) = Owns(k)
    BY <2>4 DEF Steady, Owns, Settles
  <2> QED
    BY <2>2, <2>3, <2>5 DEF Good
<1>2. CASE Following(k) = "next" /\ Len(k.todo) > 1
  <2>1. a = [k EXCEPT !.todo = Tail(@), !.cmd = FirstCommand(k.op), !.copy = NoCopy, !.count = 0]
    BY <1>2 DEF Advance
  <2> QED
    BY <1>2, <2>1, RestartGood
<1>3. CASE Following(k) = "next" /\ ~(Len(k.todo) > 1)
  <2>1. a = Idle
    BY <1>3 DEF Advance
  <2> QED
    BY <2>1, IdleGood
<1> QED
  BY <1>1, <1>2, <1>3

\* A call in progress is not disturbed by others that make claims, or that
\* delete claims other than the one a Nack relies on.
LEMMA GoodPersists ==
    ASSUME NEW k, NEW cl, NEW n \in Nat, NEW lp, NEW lt, Good(k, cl, n, lp, lt),
           NEW cl2, NEW n2 \in Nat, NEW lp2, NEW lt2,
           n <= n2, lp \subseteq lp2, lt \subseteq lt2,
           \A r \in DOMAIN cl2 : r \in 1..n => r \in DOMAIN cl /\ cl2[r] = cl[r],
           /\ k.op = "nack" /\ k.cmd \notin {"HGET", "ZREM"} /\ k.copy \notin lt2
           /\ k.todo[1] \in DOMAIN cl
           => k.todo[1] \in DOMAIN cl2
    PROVE  Good(k, cl2, n2, lp2, lt2)
<1>1. k \in Calls /\ InOrder(k) /\ Steady(k, n, lp) /\ Informed(k, cl, lt)
  BY DEF Good
<1>2. Steady(k, n2, lp2)
  BY <1>1 DEF Steady
<1>3. Settles(k) => k.todo[1] \in 1..n
  <2>1. Settles(k) => k.todo \in Seq(Refs \cup Nat) /\ k.todo # <<>>
    BY <1>1 DEF Calls, InOrder, Settles
  <2>2. Settles(k) => 1 \in 1..Len(k.todo)
    BY <2>1, HeadTail
  <2> QED
    BY <2>2, <1>1 DEF Steady
<1>4. Informed(k, cl2, lt2)
  <2>1. k.cmd = "ZREM" => Settles(k)
    <3>1. k.op = "idle" => k.cmd = "none"
      <4>1. k.op = "idle" => k = Idle
        BY <1>1 DEF InOrder
      <4> QED
        BY <4>1 DEF Idle
    <3>2. k.op \in {"idle", "claim", "ack", "nack", "sweep", "revive"}
      BY <1>1 DEF Calls
    <3> QED
      BY <1>1, <3>1, <3>2 DEF InOrder, Settles
  <2> QED
    BY <1>1, <1>3, <2>1 DEF Informed, Settles
<1> QED
  BY <1>1, <1>2, <1>4 DEF Good

---------------------------------------------------------------------------
\* Steps that keep CoreInv.
LEMMA OwnsIssued ==
    ASSUME NEW k, NEW cl, NEW n \in Nat, NEW lp, NEW lt, Good(k, cl, n, lp, lt)
    PROVE  Owns(k) \subseteq 1..n
<1>1. k \in Calls /\ Steady(k, n, lp) /\ k.todo \in Seq(Refs \cup Nat)
  BY DEF Good, Calls
<1>2. DOMAIN k.todo = 1..Len(k.todo)
  BY <1>1
<1>3. k.op \in {"ack", "nack"} => Range(k.todo) \subseteq 1..n
  BY <1>1, <1>2 DEF Steady, Settles, Range
<1> QED
  BY <1>1, <1>3 DEF Owns, Steady

\* One call moves on to a; the others are not disturbed.
LEMMA OneCallMoves ==
    ASSUME CoreInv, NEW c \in Clients, NEW a, call' = [call EXCEPT ![c] = a],
           Good(a, claims', issuedReceipts', lapsed', late'),
           issuedReceipts' \in Nat, issuedReceipts <= issuedReceipts',
           lapsed \subseteq lapsed', late \subseteq late',
           \A r \in DOMAIN claims' : r \in 1..issuedReceipts => r \in DOMAIN claims
                                                            /\ claims'[r] = claims[r],
           \A d \in Clients :
               /\ d # c /\ call[d].op = "nack" /\ call[d].cmd \notin {"HGET", "ZREM"}
               /\ call[d].copy \notin late' /\ call[d].todo[1] \in DOMAIN claims
               => call[d].todo[1] \in DOMAIN claims',
           Owns(a) \cup held' \subseteq Owns(call[c]) \cup held \cup {issuedReceipts + 1},
           Owns(a) \cap held' = {}
    PROVE  CallsGood' /\ ReceiptsOwned'
<1>1. /\ issuedReceipts \in Nat
      /\ call = [d \in Clients |-> call[d]]
      /\ \A d \in Clients : Good(call[d], claims, issuedReceipts, lapsed, late)
  BY DEF CoreInv, TypeInv, CallsGood
<1>2. call' = [d \in Clients |-> IF d = c THEN a ELSE call[d]]
  BY <1>1
<1>3. \A d \in Clients : call'[d] = IF d = c THEN a ELSE call[d]
  BY <1>2
<1>4. ASSUME NEW d \in Clients, d # c
      PROVE  Good(call[d], claims', issuedReceipts', lapsed', late')
  <2>1. PICK cl2, n2, lp2, lt2 : cl2 = claims' /\ n2 = issuedReceipts' /\ lp2 = lapsed' /\ lt2 = late'
    OBVIOUS
  <2>2. PICK k, cl, n, lp, lt : /\ k = call[d] /\ cl = claims /\ n = issuedReceipts
                                /\ lp = lapsed /\ lt = late
    OBVIOUS
  <2>3. Good(k, cl, n, lp, lt)
    BY <1>1, <2>2
  <2>4. n2 \in Nat /\ n \in Nat /\ n <= n2 /\ lp \subseteq lp2 /\ lt \subseteq lt2
    BY <1>1, <2>1, <2>2
  <2>5. \A r \in DOMAIN cl2 : r \in 1..n => r \in DOMAIN cl /\ cl2[r] = cl[r]
    BY <2>1, <2>2
  <2>6. /\ k.op = "nack" /\ k.cmd \notin {"HGET", "ZREM"} /\ k.copy \notin lt2
        /\ k.todo[1] \in DOMAIN cl
        => k.todo[1] \in DOMAIN cl2
    BY <1>4, <2>1, <2>2
  <2>7. Good(k, cl2, n2, lp2, lt2)
    BY <2>3, <2>4, <2>5, <2>6, GoodPersists
  <2> QED
    BY <2>1, <2>2, <2>7
<1>5. \A d \in Clients : Good(call'[d], claims', issuedReceipts', lapsed', late')
  BY <1>3, <1>4
<1>6. CallsGood'
  BY <1>2, <1>3, <1>5 DEF CallsGood
<1>7. \A d \in Clients : Owns(call[d]) \subseteq 1..issuedReceipts /\ issuedReceipts + 1 \notin Owns(call[d])
  <2>1. \A d \in Clients : Owns(call[d]) \subseteq 1..issuedReceipts
    BY <1>1, OwnsIssued
  <2> QED
    BY <1>1, <2>1
<1>8. ReceiptsOwned
  BY DEF CoreInv
<1>9. ASSUME NEW d \in Clients, d # c
      PROVE  /\ Owns(call[d]) \cap (Owns(a) \cup held') = {}
  BY <1>7, <1>8, <1>9 DEF ReceiptsOwned
<1>10. \A d \in Clients : Owns(call'[d]) = IF d = c THEN Owns(a) ELSE Owns(call[d])
  BY <1>3
<1>11. (\A d \in Clients : Owns(call[d]) \cap held = {})'
  <2> SUFFICES ASSUME NEW d \in Clients PROVE Owns(call'[d]) \cap held' = {}
    OBVIOUS
  <2> QED
    BY <1>9, <1>10
<1>12. ASSUME NEW d \in Clients, NEW e \in Clients, d # e
       PROVE  Owns(call'[d]) \cap Owns(call'[e]) = {}
  <2>1. CASE d = c
    BY <2>1, <1>9, <1>10, <1>12
  <2>2. CASE e = c
    BY <2>2, <1>9, <1>10, <1>12
  <2>3. CASE d # c /\ e # c
    BY <2>3, <1>8, <1>10, <1>12 DEF ReceiptsOwned
  <2> QED
    BY <2>1, <2>2, <2>3
<1>13. ReceiptsOwned'
  BY <1>11, <1>12 DEF ReceiptsOwned
<1> QED
  BY <1>6, <1>13

\* What client c's call has, when it is about to send cmd.
LEMMA CallFacts ==
    ASSUME CoreInv, NEW c \in Clients, NEW k, k = call[c], k.cmd # "none"
    PROVE  /\ k \in Calls /\ InOrder(k) /\ k.op # "idle" /\ k # Idle
           /\ Steady(k, issuedReceipts, lapsed) /\ Informed(k, claims, late)
           /\ k.todo \in Seq(Refs \cup Nat) /\ k.todo # <<>>
           /\ 1 \in 1..Len(k.todo) /\ Head(k.todo) = k.todo[1]
           /\ k.copy \in {NoCopy} \cup Copies
           /\ k.op \in {"claim", "ack", "nack", "sweep", "revive"}
<1>1. k \in Calls /\ InOrder(k) /\ Steady(k, issuedReceipts, lapsed) /\ Informed(k, claims, late)
  BY DEF CoreInv, CallsGood, Good
<1>2. k.op # "idle" /\ k # Idle
  <2>1. k.op = "idle" => k = Idle
    BY <1>1 DEF InOrder
  <2>2. k # Idle
    BY DEF Idle
  <2> QED
    BY <2>1, <2>2
<1>3. /\ k.todo \in Seq(Refs \cup Nat) /\ k.copy \in {NoCopy} \cup Copies
      /\ k.op \in {"idle", "claim", "ack", "nack", "sweep", "revive"}
  BY <1>1 DEF Calls
<1>4. k.todo # <<>>
  BY <1>1, <1>2 DEF InOrder
<1> QED
  BY <1>1, <1>2, <1>3, <1>4, HeadTail

\* A command that leaves the claims alone.  k is the call with the answer.
LEMMA QuietCommand ==
    ASSUME CoreInv, NEW c \in Clients, NEW k \in Calls,
           k.op = call[c].op, k.todo = call[c].todo, k.got = call[c].got,
           k.op # "idle", InOrder(k), k.cmd = "RPOP" => k.copy # NoCopy,
           \A f : f = [k EXCEPT !.cmd = Following(k)] /\ Following(k) # "next"
                    => Informed(f, claims, late),
           Continue(c, k), UNCHANGED <<claims, issuedReceipts, lapsed, late>>
    PROVE  /\ CallsGood' /\ ReceiptsOwned' /\ LapsedLate' /\ held' \subseteq 1..issuedReceipts
<1>1. PICK a : a = Advance(k)
  OBVIOUS
<1>2. call' = [call EXCEPT ![c] = a] /\ held' = IF k.op = "claim" /\ a = Idle THEN held \cup k.got ELSE held
  BY <1>1 DEF Continue
<1>3. /\ issuedReceipts \in Nat /\ Good(call[c], claims, issuedReceipts, lapsed, late)
      /\ held \subseteq 1..issuedReceipts /\ ReceiptsOwned /\ LapsedLate
  BY DEF CoreInv, TypeInv, CallsGood
<1>4. Steady(k, issuedReceipts, lapsed)
  BY <1>3 DEF Good, Steady, Settles
<1>5. PICK cl, n, lp, lt : cl = claims /\ n = issuedReceipts /\ lp = lapsed /\ lt = late
  OBVIOUS
<1>6. Good(a, cl, n, lp, lt) /\ Owns(a) \subseteq Owns(k)
  BY <1>1, <1>3, <1>4, <1>5, AdvanceGood
<1>7. Good(a, claims', issuedReceipts', lapsed', late')
  BY <1>5, <1>6
<1>8. Owns(k) = Owns(call[c]) /\ (k.op = "claim" => Owns(k) = k.got)
  BY DEF Owns
<1>9. Owns(call[c]) \cap held = {} /\ Owns(Idle) = {}
  BY <1>3, IdleGood DEF ReceiptsOwned
<1>10. /\ Owns(a) \cup held' \subseteq Owns(call[c]) \cup held \cup {issuedReceipts + 1}
       /\ Owns(a) \cap held' = {}
  BY <1>2, <1>6, <1>8, <1>9
<1>11. CallsGood' /\ ReceiptsOwned'
  <2>1. call' = [call EXCEPT ![c] = a]
    BY <1>2
  <2>2. /\ issuedReceipts' \in Nat /\ issuedReceipts <= issuedReceipts'
        /\ lapsed \subseteq lapsed' /\ late \subseteq late'
    BY <1>3
  <2>3. /\ \A r \in DOMAIN claims' : r \in 1..issuedReceipts => r \in DOMAIN claims
                                                            /\ claims'[r] = claims[r]
        /\ \A d \in Clients :
               /\ d # c /\ call[d].op = "nack" /\ call[d].cmd \notin {"HGET", "ZREM"}
               /\ call[d].copy \notin late' /\ call[d].todo[1] \in DOMAIN claims
               => call[d].todo[1] \in DOMAIN claims'
    OBVIOUS
  <2> QED
    BY <1>7, <1>10, <2>1, <2>2, <2>3, OneCallMoves
<1>12. held' \subseteq 1..issuedReceipts
  BY <1>2, <1>3, <1>4 DEF Steady
<1> QED
  BY <1>3, <1>11, <1>12 DEF LapsedLate

\* The commands of a method, the answer aside.
LEMMA SentKinds ==
    ASSUME NEW k \in Calls, InOrder(k), k.op \in {"claim", "ack", "nack", "sweep", "revive"}
    PROVE  /\ k.cmd \in {"RPOP", "HSET", "ZADD"} => k.op = "claim"
           /\ k.cmd \in {"HGET", "HDEL claims", "ZREM"} => Settles(k)
           /\ k.cmd \in {"HINCRBY", "LPUSH dead"} => k.op = "nack"
           /\ k.cmd = "LPUSH" => k.op \in {"nack", "sweep", "revive"}
           /\ k.cmd = "HDEL nack" => k.op \in {"ack", "nack", "revive"}
           /\ k.cmd = "LREM" => k.op = "revive"
  BY DEF InOrder, Settles

LEMMA ZAddCore == ASSUME CoreInv, NEW c \in Clients, ZAdd(c) PROVE CoreInv'
<1>1. PICK k : k = call[c]
  OBVIOUS
<1>2. k.cmd = "ZADD" /\ Continue(c, k)
  BY <1>1 DEF ZAdd, Sent
<1>3. /\ k \in Calls /\ InOrder(k) /\ k.op = "claim" /\ Informed(k, claims, late)
      /\ Steady(k, issuedReceipts, lapsed) /\ Item(c) = k.todo[1]
  BY <1>1, <1>2, CallFacts, SentKinds DEF Item
<1>4. Following(k) = "next"
  BY <1>2, <1>3, FollowingKinds DEF ClaimNext
<1>5. CallsGood' /\ ReceiptsOwned' /\ LapsedLate' /\ held' \subseteq 1..issuedReceipts
  BY <1>1, <1>2, <1>3, <1>4, QuietCommand DEF ZAdd
<1>6. Item(c) \in 1..issuedReceipts
  BY <1>2, <1>3 DEF Informed, Steady
<1>7. TypeInv'
  BY <1>5, <1>6 DEF CoreInv, TypeInv, ZAdd
<1> QED
  BY <1>5, <1>7 DEF CoreInv

LEMMA ZRemCore == ASSUME CoreInv, NEW c \in Clients, ZRem(c) PROVE CoreInv'
<1>1. PICK k : k = call[c]
  OBVIOUS
<1>2. k.cmd = "ZREM" /\ Continue(c, k)
  BY <1>1 DEF ZRem, Sent
<1>3. k \in Calls /\ InOrder(k) /\ Settles(k) /\ Informed(k, claims, late) /\ k.op # "idle"
  BY <1>1, <1>2, CallFacts, SentKinds
<1>4. Following(k) # "next" => k.op = "ack" /\ Following(k) = "HDEL nack"
  BY <1>2, <1>3, FollowingKinds DEF AckNext, NackNext, SweepNext, Settles
<1>5. ASSUME NEW f, f = [k EXCEPT !.cmd = Following(k)], Following(k) # "next"
      PROVE  Informed(f, claims, late)
  <2>1. f.op = "ack" /\ f.cmd = "HDEL nack" /\ f.todo = k.todo /\ k.todo[1] \notin DOMAIN claims
    BY <1>2, <1>3, <1>4, <1>5 DEF Calls, Informed
  <2> QED
    BY <2>1 DEF Informed
<1>6. CallsGood' /\ ReceiptsOwned' /\ LapsedLate' /\ held' \subseteq 1..issuedReceipts
  BY <1>1, <1>2, <1>3, <1>5, QuietCommand DEF ZRem
<1>7. TypeInv'
  BY <1>6 DEF CoreInv, TypeInv, ZRem
<1> QED
  BY <1>6, <1>7 DEF CoreInv

LEMMA LPushCore == ASSUME CoreInv, NEW c \in Clients, LPush(c) PROVE CoreInv'
<1>1. PICK k : k = call[c]
  OBVIOUS
<1>2. k.cmd = "LPUSH" /\ Continue(c, k)
  BY <1>1 DEF LPush, Sent
<1>3. /\ k \in Calls /\ InOrder(k) /\ k.op \in {"nack", "sweep", "revive"} /\ k.op # "idle"
      /\ Informed(k, claims, late) /\ k.copy \in Copies
  <2>1. /\ k \in Calls /\ InOrder(k) /\ k.op \in {"nack", "sweep", "revive"} /\ k.op # "idle"
        /\ Informed(k, claims, late) /\ k.copy \in {NoCopy} \cup Copies
    BY <1>1, <1>2, CallFacts, SentKinds
  <2> QED
    BY <1>2, <2>1 DEF InOrder
<1>4. Following(k) = IF k.op = "revive" THEN "HDEL nack" ELSE "HDEL claims"
  BY <1>2, <1>3, FollowingKinds DEF NackNext, SweepNext, ReviveNext
<1>5. ASSUME NEW f, f = [k EXCEPT !.cmd = Following(k)], Following(k) # "next"
      PROVE  Informed(f, claims, late)
  <2>1. f.op = k.op /\ f.cmd = Following(k) /\ f.todo = k.todo /\ f.copy = k.copy
    BY <1>3, <1>4, <1>5 DEF Calls
  <2> QED
    BY <1>2, <1>3, <1>4, <2>1 DEF Informed, Settles
<1>6. CallsGood' /\ ReceiptsOwned' /\ LapsedLate' /\ held' \subseteq 1..issuedReceipts
  BY <1>1, <1>2, <1>3, <1>5, QuietCommand DEF LPush
<1>7. TypeInv'
  BY <1>1, <1>3, <1>6 DEF CoreInv, TypeInv, LPush
<1> QED
  BY <1>6, <1>7 DEF CoreInv

LEMMA LPushDeadCore == ASSUME CoreInv, NEW c \in Clients, LPushDead(c) PROVE CoreInv'
<1>1. PICK k : k = call[c]
  OBVIOUS
<1>2. k.cmd = "LPUSH dead" /\ Continue(c, k)
  BY <1>1 DEF LPushDead, Sent
<1>3. /\ k \in Calls /\ InOrder(k) /\ k.op = "nack"
      /\ Informed(k, claims, late) /\ k.copy \in Copies
  <2>1. /\ k \in Calls /\ InOrder(k) /\ k.op = "nack"
        /\ Informed(k, claims, late) /\ k.copy \in {NoCopy} \cup Copies
    BY <1>1, <1>2, CallFacts, SentKinds
  <2> QED
    BY <1>2, <2>1 DEF InOrder
<1>4. Following(k) = "HDEL nack"
  BY <1>2, <1>3, FollowingKinds DEF NackNext
<1>5. ASSUME NEW f, f = [k EXCEPT !.cmd = Following(k)], Following(k) # "next"
      PROVE  Informed(f, claims, late)
  <2>1. f.op = k.op /\ f.cmd = "HDEL nack" /\ f.todo = k.todo /\ f.copy = k.copy
    BY <1>3, <1>4, <1>5 DEF Calls
  <2> QED
    BY <1>2, <1>3, <2>1 DEF Informed, Settles
<1>6. CallsGood' /\ ReceiptsOwned' /\ LapsedLate' /\ held' \subseteq 1..issuedReceipts
  BY <1>1, <1>2, <1>3, <1>5, QuietCommand DEF LPushDead
<1>7. dead' \in Seq(Copies)
  <2>1. dead' = Append(dead, k.copy) /\ dead \in Seq(Copies)
    BY <1>1 DEF CoreInv, TypeInv, LPushDead
  <2> QED
    BY <1>3, <2>1
<1>8. TypeInv'
  BY <1>6, <1>7 DEF CoreInv, TypeInv, LPushDead
<1> QED
  BY <1>6, <1>8 DEF CoreInv

LEMMA HDelNackCore == ASSUME CoreInv, NEW c \in Clients, HDelNack(c) PROVE CoreInv'
<1>1. PICK k : k = call[c]
  OBVIOUS
<1>2. k.cmd = "HDEL nack" /\ Continue(c, k)
  BY <1>1 DEF HDelNack, Sent
<1>3. /\ k \in Calls /\ InOrder(k) /\ k.op \in {"ack", "nack", "revive"} /\ k.op # "idle"
      /\ Informed(k, claims, late) /\ k.copy \in Copies
  <2>1. /\ k \in Calls /\ InOrder(k) /\ k.op \in {"ack", "nack", "revive"}
        /\ Informed(k, claims, late) /\ k.copy \in {NoCopy} \cup Copies
    BY <1>1, <1>2, CallFacts, SentKinds
  <2> QED
    BY <1>2, <2>1 DEF InOrder
<1>4. Following(k) = IF k.op = "nack" THEN "HDEL claims" ELSE "next"
  BY <1>2, <1>3, FollowingKinds DEF AckNext, NackNext, ReviveNext
<1>5. ASSUME NEW f, f = [k EXCEPT !.cmd = Following(k)], Following(k) # "next"
      PROVE  Informed(f, claims, late)
  <2>1. f.op = "nack" /\ f.cmd = "HDEL claims" /\ f.todo = k.todo /\ f.copy = k.copy /\ k.op = "nack"
    BY <1>3, <1>4, <1>5 DEF Calls
  <2> QED
    BY <1>2, <1>3, <2>1 DEF Informed, Settles
<1>6. CallsGood' /\ ReceiptsOwned' /\ LapsedLate' /\ held' \subseteq 1..issuedReceipts
  BY <1>1, <1>2, <1>3, <1>5, QuietCommand DEF HDelNack
<1>7. nack' \in [Refs -> Nat]
  BY <1>1, <1>3 DEF HDelNack, CoreInv, TypeInv, Copies
<1>8. TypeInv'
  BY <1>6, <1>7 DEF CoreInv, TypeInv, HDelNack
<1> QED
  BY <1>6, <1>8 DEF CoreInv

LEMMA HIncrByCore == ASSUME CoreInv, NEW c \in Clients, HIncrBy(c) PROVE CoreInv'
<1>1. PICK k0 : k0 = call[c]
  OBVIOUS
<1>2. k0.cmd = "HINCRBY"
  BY <1>1 DEF HIncrBy, Sent
<1>3. /\ k0 \in Calls /\ InOrder(k0) /\ k0.op = "nack"
      /\ Informed(k0, claims, late) /\ k0.copy \in Copies
  <2>1. /\ k0 \in Calls /\ InOrder(k0) /\ k0.op = "nack"
        /\ Informed(k0, claims, late) /\ k0.copy \in {NoCopy} \cup Copies
    BY <1>1, <1>2, CallFacts, SentKinds
  <2> QED
    BY <1>2, <2>1 DEF InOrder
<1>4. PICK k : k = [k0 EXCEPT !.count = nack[k0.copy.ref] + 1]
  OBVIOUS
<1>5. nack' \in [Refs -> Nat] /\ nack[k0.copy.ref] + 1 \in Nat
  BY <1>1, <1>3 DEF HIncrBy, CoreInv, TypeInv, Copies
<1>6. /\ k \in Calls /\ k.op = "nack" /\ k.cmd = "HINCRBY" /\ k.todo = k0.todo /\ k.got = k0.got
      /\ k.copy = k0.copy /\ k.copy \in Copies
  BY <1>2, <1>3, <1>4, <1>5 DEF Calls
<1>7. InOrder(k) /\ k.op # "idle"
  BY <1>3, <1>6, NoCopyAssumption DEF InOrder
<1>8. Following(k) \in {"LPUSH dead", "LPUSH"}
  BY <1>6, <1>7, FollowingKinds DEF NackNext
<1>9. ASSUME NEW f, f = [k EXCEPT !.cmd = Following(k)], Following(k) # "next"
      PROVE  Informed(f, claims, late)
  <2>1. f.op = "nack" /\ f.cmd = Following(k) /\ f.todo = k.todo /\ f.copy = k.copy
    BY <1>6, <1>8, <1>9 DEF Calls
  <2> QED
    BY <1>2, <1>3, <1>6, <1>8, <2>1 DEF Informed, Settles
<1>10. Continue(c, k)
  BY <1>1, <1>4 DEF HIncrBy
<1>11. CallsGood' /\ ReceiptsOwned' /\ LapsedLate' /\ held' \subseteq 1..issuedReceipts
  <2>1. k.op = call[c].op /\ k.todo = call[c].todo /\ k.got = call[c].got
    BY <1>1, <1>3, <1>6
  <2>2. UNCHANGED <<claims, issuedReceipts, lapsed, late>>
    BY DEF HIncrBy
  <2> QED
    BY <1>6, <1>7, <1>9, <1>10, <2>1, <2>2, QuietCommand
<1>12. TypeInv'
  BY <1>5, <1>11 DEF CoreInv, TypeInv, HIncrBy
<1> QED
  BY <1>11, <1>12 DEF CoreInv

\* A claim that is read.
LEMMA HGetCore == ASSUME CoreInv, NEW c \in Clients, HGet(c) PROVE CoreInv'
<1>1. PICK k0 : k0 = call[c]
  OBVIOUS
<1>2. k0.cmd = "HGET"
  BY <1>1 DEF HGet, Sent
<1>3. /\ k0 \in Calls /\ InOrder(k0) /\ Settles(k0) /\ k0.op # "idle"
      /\ Steady(k0, issuedReceipts, lapsed) /\ Item(c) = k0.todo[1] /\ 1 \in 1..Len(k0.todo)
  BY <1>1, <1>2, CallFacts, SentKinds DEF Item
<1>4. PICK x : x = IF k0.todo[1] \in DOMAIN claims THEN claims[k0.todo[1]] ELSE NoCopy
  OBVIOUS
<1>5. PICK k : k = [k0 EXCEPT !.copy = x]
  OBVIOUS
<1>6. /\ x \in {NoCopy} \cup Copies
      /\ x # NoCopy <=> k0.todo[1] \in DOMAIN claims
      /\ k0.todo[1] \in DOMAIN claims => x = claims[k0.todo[1]]
      /\ k0.op = "sweep" /\ x # NoCopy => x \in late
  <2>1. /\ x \in {NoCopy} \cup Copies
        /\ x # NoCopy <=> k0.todo[1] \in DOMAIN claims
    BY <1>4, NoCopyAssumption DEF CoreInv, TypeInv
  <2>2. k0.op = "sweep" => k0.todo[1] \in lapsed
    BY <1>3 DEF Steady
  <2> QED
    BY <1>4, <2>1, <2>2 DEF CoreInv, LapsedLate
<1>7. /\ k \in Calls /\ k.op = k0.op /\ k.cmd = "HGET" /\ k.todo = k0.todo /\ k.got = k0.got
      /\ k.copy = x
  BY <1>2, <1>3, <1>5, <1>6 DEF Calls
<1>8. InOrder(k)
  BY <1>3, <1>7 DEF InOrder, Settles
<1>9. /\ k.op = "nack" => x # NoCopy \/ Following(k) = "next"
      /\ Following(k) \in {"next", "HDEL claims", "HINCRBY", "LPUSH"}
  BY <1>3, <1>7, <1>8, FollowingKinds DEF AckNext, NackNext, SweepNext, Settles
<1>10. ASSUME NEW f, f = [k EXCEPT !.cmd = Following(k)], Following(k) # "next"
       PROVE  Informed(f, claims, late)
  <2>1. f.op = k0.op /\ f.cmd = Following(k) /\ f.todo = k0.todo /\ f.copy = x
    BY <1>7, <1>9, <1>10 DEF Calls
  <2> QED
    BY <1>6, <1>7, <1>9, <1>10, <2>1 DEF Informed, Settles
<1>11. Continue(c, k)
  BY <1>1, <1>3, <1>4, <1>5 DEF HGet
<1>12. CallsGood' /\ ReceiptsOwned' /\ LapsedLate' /\ held' \subseteq 1..issuedReceipts
  BY <1>1, <1>3, <1>7, <1>8, <1>10, <1>11, QuietCommand DEF HGet, store
<1>13. TypeInv'
  BY <1>12 DEF CoreInv, TypeInv, HGet, store
<1> QED
  BY <1>12, <1>13 DEF CoreInv

LEMMA LRemCore == ASSUME CoreInv, NEW c \in Clients, LRem(c) PROVE CoreInv'
<1> DEFINE of == {i \in 1..Len(dead) : dead[i].ref = Item(c)}
<1>1. PICK k0 : k0 = call[c]
  OBVIOUS
<1>2. k0.cmd = "LREM"
  BY <1>1 DEF LRem, Sent
<1>3. k0 \in Calls /\ InOrder(k0) /\ k0.op = "revive" /\ k0.op # "idle"
  BY <1>1, <1>2, CallFacts, SentKinds
<1>4. dead \in Seq(Copies) /\ Len(dead) \in Nat
  BY DEF CoreInv, TypeInv
<1>5. PICK k : /\ k \in Calls /\ k.op = "revive" /\ k.cmd = "LREM" /\ k.todo = k0.todo /\ k.got = k0.got
               /\ Continue(c, k) /\ dead' \in Seq(Copies)
  <2>1. CASE of = {}
    <3>1. Continue(c, call[c]) /\ dead' = dead
      BY <2>1 DEF LRem
    <3> QED
      BY <1>1, <1>2, <1>3, <1>4, <3>1
  <2>2. CASE of # {}
    <3>1. PICK i : i = Max(of)
      OBVIOUS
    <3>2. i \in 1..Len(dead)
      <4>1. of \subseteq 1..Len(dead)
        OBVIOUS
      <4>2. Max(of) \in of
        <5> HIDE DEF of
        <5> QED
          BY <1>4, <2>2, <4>1, MaxIn
      <4> QED
        BY <3>1, <4>1, <4>2
    <3>3. dead' = RemoveAt(dead, i) /\ Continue(c, [call[c] EXCEPT !.copy = dead[i]])
      BY <2>2, <3>1 DEF LRem
    <3>4. dead' \in Seq(Copies) /\ dead[i] \in Copies
      BY <1>4, <3>2, <3>3, RemoveAtElements
    <3>5. PICK k : k = [k0 EXCEPT !.copy = dead[i]]
      OBVIOUS
    <3>6. /\ k \in Calls /\ k.op = "revive" /\ k.cmd = "LREM" /\ k.todo = k0.todo /\ k.got = k0.got
      BY <1>2, <1>3, <3>4, <3>5 DEF Calls
    <3>7. Continue(c, k)
      BY <1>1, <3>3, <3>5
    <3> QED
      BY <3>4, <3>6, <3>7
  <2> QED
    BY <2>1, <2>2
<1>6. InOrder(k) /\ k.op # "idle"
  BY <1>3, <1>5 DEF InOrder
<1>7. Following(k) \in {"next", "LPUSH"}
  BY <1>5, <1>6, FollowingKinds DEF ReviveNext
<1>8. ASSUME NEW f, f = [k EXCEPT !.cmd = Following(k)], Following(k) # "next"
      PROVE  Informed(f, claims, late)
  <2>1. f.op = "revive" /\ f.cmd = "LPUSH"
    BY <1>5, <1>7, <1>8 DEF Calls
  <2> QED
    BY <2>1 DEF Informed, Settles
<1>9. CallsGood' /\ ReceiptsOwned' /\ LapsedLate' /\ held' \subseteq 1..issuedReceipts
  <2>1. k.op = call[c].op /\ k.todo = call[c].todo /\ k.got = call[c].got
    BY <1>1, <1>3, <1>5
  <2>2. UNCHANGED <<claims, issuedReceipts, lapsed, late>>
    BY DEF LRem
  <2> QED
    BY <1>5, <1>6, <1>8, <2>1, <2>2, QuietCommand
<1>10. TypeInv'
  BY <1>5, <1>9 DEF CoreInv, TypeInv, LRem
<1> QED
  BY <1>9, <1>10 DEF CoreInv

\* A Claim that takes the oldest copy, or finds none and ends.
LEMMA RPopCore == ASSUME CoreInv, NEW c \in Clients, RPop(c) PROVE CoreInv'
<1>1. PICK k0 : k0 = call[c]
  OBVIOUS
<1>2. k0.cmd = "RPOP"
  BY <1>1 DEF RPop, Sent
<1>3. /\ k0 \in Calls /\ InOrder(k0) /\ k0.op = "claim" /\ k0.op # "idle"
      /\ Steady(k0, issuedReceipts, lapsed)
  BY <1>1, <1>2, CallFacts, SentKinds
<1>4. /\ pending \in Seq(Copies) /\ issuedReceipts \in Nat /\ held \subseteq 1..issuedReceipts
      /\ ReceiptsOwned /\ LapsedLate
  BY DEF CoreInv, TypeInv
<1>5. UNCHANGED <<claims, issuedReceipts, lapsed, late, visibility, nack, dead, issued>>
  BY DEF RPop
<1>6. CASE pending = <<>>
  <2>1. call' = [call EXCEPT ![c] = Idle] /\ held' = held \cup k0.got /\ pending' = pending
    BY <1>1, <1>6 DEF RPop
  <2>2. Good(Idle, claims', issuedReceipts', lapsed', late') /\ Owns(Idle) = {}
    BY <1>4, <1>5, IdleGood
  <2>3. Owns(call[c]) = k0.got
    BY <1>1, <1>3 DEF Owns
  <2>4. PICK a : a = Idle
    OBVIOUS
  <2>5. call' = [call EXCEPT ![c] = a] /\ Good(a, claims', issuedReceipts', lapsed', late')
    BY <2>1, <2>2, <2>4
  <2>6. /\ Owns(a) \cup held' \subseteq Owns(call[c]) \cup held \cup {issuedReceipts + 1}
        /\ Owns(a) \cap held' = {}
    BY <2>1, <2>2, <2>3, <2>4
  <2>7. CallsGood' /\ ReceiptsOwned'
    <3>1. /\ issuedReceipts' \in Nat /\ issuedReceipts <= issuedReceipts'
          /\ lapsed \subseteq lapsed' /\ late \subseteq late'
      BY <1>4, <1>5
    <3>2. /\ \A r \in DOMAIN claims' : r \in 1..issuedReceipts => r \in DOMAIN claims
                                                              /\ claims'[r] = claims[r]
          /\ \A d \in Clients :
               /\ d # c /\ call[d].op = "nack" /\ call[d].cmd \notin {"HGET", "ZREM"}
               /\ call[d].copy \notin late' /\ call[d].todo[1] \in DOMAIN claims
               => call[d].todo[1] \in DOMAIN claims'
      BY <1>5
    <3> QED
      BY <2>5, <2>6, <3>1, <3>2, OneCallMoves
  <2>8. held' \subseteq 1..issuedReceipts
    BY <1>3, <1>4, <2>1 DEF Steady
  <2>9. TypeInv' /\ LapsedLate'
    BY <1>4, <1>5, <2>1, <2>8 DEF CoreInv, TypeInv, LapsedLate
  <2> QED
    BY <2>7, <2>9 DEF CoreInv
<1>7. CASE pending # <<>>
  <2>1. PICK k : k = [k0 EXCEPT !.copy = Head(pending)]
    OBVIOUS
  <2>2. pending' = Tail(pending) /\ Continue(c, k)
    BY <1>1, <1>7, <2>1 DEF RPop
  <2>3. Head(pending) \in Copies /\ pending' \in Seq(Copies)
    BY <1>4, <1>7, <2>2
  <2>4. /\ k \in Calls /\ k.op = "claim" /\ k.cmd = "RPOP" /\ k.todo = k0.todo /\ k.got = k0.got
        /\ k.copy # NoCopy
    BY <1>2, <1>3, <2>1, <2>3, NoCopyAssumption DEF Calls
  <2>5. InOrder(k) /\ k.op # "idle"
    BY <1>3, <2>4 DEF InOrder
  <2>6. Following(k) = "HSET"
    BY <2>4, <2>5, FollowingKinds DEF ClaimNext
  <2>7. ASSUME NEW f, f = [k EXCEPT !.cmd = Following(k)], Following(k) # "next"
        PROVE  Informed(f, claims, late)
    <3>1. f.op = "claim" /\ f.cmd = "HSET"
      BY <2>4, <2>6, <2>7 DEF Calls
    <3> QED
      BY <3>1 DEF Informed, Settles
  <2>8. CallsGood' /\ ReceiptsOwned' /\ LapsedLate' /\ held' \subseteq 1..issuedReceipts
    <3>1. k.op = call[c].op /\ k.todo = call[c].todo /\ k.got = call[c].got
      BY <1>1, <1>3, <2>4
    <3> QED
      BY <1>5, <2>2, <2>4, <2>5, <2>7, <3>1, QuietCommand
  <2>9. TypeInv'
    BY <1>4, <1>5, <2>3, <2>8 DEF CoreInv, TypeInv
  <2> QED
    BY <2>8, <2>9 DEF CoreInv
<1> QED
  BY <1>6, <1>7

\* HSET in the call k0 of client c, which becomes a: a fresh claim, whose receipt
\* nobody can have yet.
HSetDone(c, k0, r, a) ==
    /\ k0 \in Calls /\ k0.op = "claim" /\ k0.cmd = "HSET" /\ k0.copy \in Copies
    /\ Steady(k0, issuedReceipts, lapsed)
    /\ r \notin DOMAIN claims /\ r \in Nat /\ r \notin 1..issuedReceipts
    /\ DOMAIN claims' = DOMAIN claims \cup {r} /\ claims'[r] = k0.copy
    /\ \A x \in DOMAIN claims : claims'[x] = claims[x]
    /\ call' = [call EXCEPT ![c] = a]
    /\ a \in Calls /\ a.op = "claim" /\ a.cmd = "ZADD" /\ a.todo[1] = r /\ a.copy = k0.copy
    /\ a.got = k0.got \cup {r} /\ Good(a, claims', r, lapsed, late)
    /\ held' = held

LEMMA HSetFacts ==
    ASSUME CoreInv, NEW c \in Clients, HSet(c),
           NEW k0, k0 = call[c], NEW r, r = issuedReceipts + 1, NEW a, a = call'[c]
    PROVE  HSetDone(c, k0, r, a)
<1>1. k0.cmd = "HSET" /\ Continue(c, [k0 EXCEPT !.got = @ \cup {r}, !.todo = <<r>> \o Tail(@)])
  BY DEF HSet, Sent
<1>2. /\ k0 \in Calls /\ InOrder(k0) /\ k0.op = "claim"
      /\ Steady(k0, issuedReceipts, lapsed) /\ k0.copy \in {NoCopy} \cup Copies
      /\ k0.todo \in Seq(Refs \cup Nat) /\ k0.todo # <<>>
  BY <1>1, CallFacts, SentKinds
<1>3. k0.copy \in Copies
  BY <1>1, <1>2 DEF InOrder
<1>4. /\ issuedReceipts \in Nat /\ r \in Nat /\ r \notin 1..issuedReceipts
      /\ DOMAIN claims \subseteq 1..issuedReceipts /\ r \notin DOMAIN claims
  BY DEF CoreInv, TypeInv
<1>5. /\ claims' = [x \in DOMAIN claims \cup {r} |-> IF x = r THEN k0.copy ELSE claims[x]]
      /\ issuedReceipts' = r
  BY DEF HSet
<1>6. /\ DOMAIN claims' = DOMAIN claims \cup {r} /\ claims'[r] = k0.copy
      /\ \A x \in DOMAIN claims : claims'[x] = claims[x]
  BY <1>4, <1>5
<1>7. PICK t : t = <<r>> \o Tail(k0.todo)
  OBVIOUS
<1>8. t \in Seq(Refs \cup Nat) /\ t # <<>> /\ t[1] = r
  <2>1. Tail(k0.todo) \in Seq(Refs \cup Nat) /\ <<r>> \in Seq(Refs \cup Nat)
    BY <1>2, <1>4
  <2>2. <<r>> \o Tail(k0.todo) \in Seq(Refs \cup Nat)
    BY <2>1
  <2>3. Len(t) = 1 + Len(Tail(k0.todo)) /\ Len(Tail(k0.todo)) \in Nat /\ t[1] = r
    BY <1>7, <2>1
  <2> QED
    BY <1>7, <2>2, <2>3
<1>9. PICK k : k = [k0 EXCEPT !.got = @ \cup {r}, !.todo = t]
  OBVIOUS
<1>10. k.got = k0.got \cup {r} /\ k0.got \subseteq 1..issuedReceipts /\ k.got \in SUBSET Nat
  BY <1>2, <1>4, <1>9 DEF Calls, Steady
<1>11. k \in Calls /\ k.op = "claim" /\ k.cmd = "HSET" /\ k.todo = t /\ k.copy = k0.copy
  BY <1>1, <1>2, <1>8, <1>9, <1>10 DEF Calls
<1>12. InOrder(k) /\ k.op # "idle"
  BY <1>3, <1>8, <1>11, NoCopyAssumption DEF InOrder
<1>13. Steady(k, r, lapsed)
  <2>1. k.got \subseteq 1..r
    BY <1>4, <1>10
  <2> QED
    BY <1>11, <2>1 DEF Steady, Settles
<1>14. Following(k) = "ZADD"
  BY <1>11, <1>12, FollowingKinds DEF ClaimNext
<1>15. a = Advance(k) /\ call' = [call EXCEPT ![c] = Advance(k)]
  <2>1. call' = [call EXCEPT ![c] = Advance(k)]
    BY <1>1, <1>7, <1>9 DEF Continue
  <2> QED
    BY <2>1 DEF CoreInv, CallsGood
<1>16. a = [k EXCEPT !.cmd = "ZADD"]
  BY <1>14, <1>15 DEF Advance
<1>17. /\ a \in Calls /\ a.op = "claim" /\ a.cmd = "ZADD" /\ a.todo = t /\ a.got = k.got
       /\ a.copy = k0.copy
  BY <1>11, <1>16 DEF Calls
<1>18. Informed(a, claims', late)
  BY <1>8, <1>10, <1>17 DEF Informed, Settles
<1>19. PICK cl2, lp, lt : cl2 = claims' /\ lp = lapsed /\ lt = late
  OBVIOUS
<1>20. Good(a, cl2, r, lp, lt)
  <2>1. \A f : f = [k EXCEPT !.cmd = Following(k)] /\ Following(k) # "next" => Informed(f, cl2, lt)
    BY <1>14, <1>16, <1>18, <1>19
  <2>2. Steady(k, r, lp) /\ k.cmd # "RPOP"
    BY <1>11, <1>13, <1>19
  <2> QED
    BY <1>4, <1>11, <1>12, <1>15, <2>1, <2>2, AdvanceGood
<1>21. Continue(c, k)
  BY <1>1, <1>7, <1>9
<1>22. a # Idle
  BY <1>17 DEF Idle
<1>23. call' = [call EXCEPT ![c] = a] /\ held' = held
  BY <1>15, <1>21, <1>22 DEF Continue
<1> QED
  BY <1>1, <1>2, <1>3, <1>4, <1>6, <1>8, <1>10, <1>17, <1>19, <1>20, <1>23 DEF HSetDone

LEMMA HSetCore == ASSUME CoreInv, NEW c \in Clients, HSet(c) PROVE CoreInv'
<1>1. PICK k0, a : k0 = call[c] /\ a = call'[c]
  OBVIOUS
<1>2. PICK r : r = issuedReceipts + 1
  OBVIOUS
<1>0. HSetDone(c, k0, r, a)
  BY <1>1, <1>2, HSetFacts
<1>3. /\ k0 \in Calls /\ k0.op = "claim" /\ k0.copy \in Copies
      /\ r \notin DOMAIN claims /\ r \in Nat /\ r \notin 1..issuedReceipts
      /\ DOMAIN claims' = DOMAIN claims \cup {r} /\ claims'[r] = k0.copy
      /\ \A x \in DOMAIN claims : claims'[x] = claims[x]
      /\ held' = held
  BY <1>0 DEF HSetDone
<1>4. /\ call' = [call EXCEPT ![c] = a]
      /\ a \in Calls /\ a.op = "claim"
      /\ a.got = k0.got \cup {r} /\ Good(a, claims', r, lapsed, late)
  BY <1>0 DEF HSetDone
<1>5. /\ issuedReceipts' = r
      /\ UNCHANGED <<pending, visibility, lapsed, nack, dead, issued, late>>
  BY <1>2 DEF HSet
<1>6. /\ issuedReceipts \in Nat /\ held \subseteq 1..issuedReceipts /\ DOMAIN claims \subseteq 1..issuedReceipts
      /\ lapsed \subseteq 1..issuedReceipts /\ visibility \subseteq 1..issuedReceipts
      /\ ReceiptsOwned /\ LapsedLate
  BY DEF CoreInv, TypeInv
<1>7. Owns(a) = Owns(call[c]) \cup {r} /\ Owns(call[c]) \cap held = {}
  BY <1>1, <1>3, <1>4, <1>6 DEF Owns, ReceiptsOwned
<1>8. CallsGood' /\ ReceiptsOwned'
  <2>1. Good(a, claims', issuedReceipts', lapsed', late')
    BY <1>4, <1>5
  <2>2. /\ issuedReceipts' \in Nat /\ issuedReceipts <= issuedReceipts'
        /\ lapsed \subseteq lapsed' /\ late \subseteq late'
    BY <1>2, <1>3, <1>5, <1>6
  <2>3. \A x \in DOMAIN claims' : x \in 1..issuedReceipts => x \in DOMAIN claims
                                                            /\ claims'[x] = claims[x]
    BY <1>3
  <2>4. \A d \in Clients :
               /\ d # c /\ call[d].op = "nack" /\ call[d].cmd \notin {"HGET", "ZREM"}
               /\ call[d].copy \notin late' /\ call[d].todo[1] \in DOMAIN claims
               => call[d].todo[1] \in DOMAIN claims'
    BY <1>3
  <2>5. /\ Owns(a) \cup held' \subseteq Owns(call[c]) \cup held \cup {issuedReceipts + 1}
        /\ Owns(a) \cap held' = {}
    BY <1>2, <1>3, <1>6, <1>7
  <2>6. call' = [call EXCEPT ![c] = a]
    BY <1>4
  <2> QED
    BY <2>1, <2>2, <2>3, <2>4, <2>5, <2>6, OneCallMoves
<1>9. LapsedLate'
  BY <1>3, <1>5, <1>6 DEF LapsedLate
<1>10. TypeInv'
  <2>1. 1..issuedReceipts \subseteq 1..r /\ r \in 1..r
    BY <1>2, <1>3, <1>6
  <2>2. DOMAIN claims' \subseteq 1..r /\ visibility \subseteq 1..r /\ lapsed \subseteq 1..r /\ held \subseteq 1..r
    BY <1>3, <1>6, <2>1
  <2>3. \A x \in DOMAIN claims' : claims'[x] \in Copies
    BY <1>3 DEF CoreInv, TypeInv
  <2> QED
    BY <1>3, <1>5, <2>2, <2>3 DEF CoreInv, TypeInv
<1> QED
  BY <1>8, <1>9, <1>10 DEF CoreInv

\* HDEL in the call k of client c, which becomes a.
HDelClaimDone(c, k, a) ==
    /\ k \in Calls /\ InOrder(k) /\ Settles(k) /\ k.cmd = "HDEL claims" /\ Item(c) = k.todo[1]
    /\ Informed(k, claims, late) /\ Steady(k, issuedReceipts, lapsed)
    /\ call' = [call EXCEPT ![c] = a]
    /\ a \in Calls /\ a.op = k.op /\ a.cmd = "ZREM" /\ a.todo = k.todo
    /\ a.got = k.got /\ a.copy = k.copy
    /\ held' = held
    /\ DOMAIN claims' = DOMAIN claims \ {k.todo[1]}
    /\ \A r \in DOMAIN claims' : claims'[r] = claims[r]

LEMMA HDelClaimFacts ==
    ASSUME CoreInv, NEW c \in Clients, HDelClaim(c), NEW k, k = call[c], NEW a, a = call'[c]
    PROVE  HDelClaimDone(c, k, a)
<1>1. k.cmd = "HDEL claims" /\ Continue(c, k)
  BY DEF HDelClaim, Sent
<1>2. /\ k \in Calls /\ InOrder(k) /\ Settles(k) /\ Item(c) = k.todo[1]
      /\ Informed(k, claims, late) /\ Steady(k, issuedReceipts, lapsed)
  BY <1>1, CallFacts, SentKinds DEF Item
<1>3. Following(k) = "ZREM"
  BY <1>1, <1>2, FollowingKinds DEF AckNext, NackNext, SweepNext, Settles
<1>4. a = Advance(k)
  <2>1. call' = [call EXCEPT ![c] = Advance(k)]
    BY <1>1 DEF Continue
  <2> QED
    BY <2>1 DEF CoreInv, CallsGood
<1>5. a = [k EXCEPT !.cmd = "ZREM"]
  BY <1>3, <1>4 DEF Advance
<1>6. /\ a \in Calls /\ a.op = k.op /\ a.cmd = "ZREM" /\ a.todo = k.todo
      /\ a.got = k.got /\ a.copy = k.copy
  BY <1>2, <1>5 DEF Calls
<1>7. call' = [call EXCEPT ![c] = a] /\ held' = held
  <2>1. k.op # "claim"
    BY <1>2 DEF Settles
  <2> QED
    BY <1>1, <1>4, <2>1 DEF Continue
<1>8. claims' = [r \in DOMAIN claims \ {k.todo[1]} |-> claims[r]]
  BY <1>2 DEF HDelClaim
<1> QED
  BY <1>1, <1>2, <1>6, <1>7, <1>8 DEF HDelClaimDone

\* The Nacks that rely on claims of copies that are not late rely on others
\* than the one deleted.
LEMMA HDelClaimCore == ASSUME CoreInv, NEW c \in Clients, HDelClaim(c) PROVE CoreInv'
<1>1. PICK k, a : k = call[c] /\ a = call'[c]
  OBVIOUS
<1>0. HDelClaimDone(c, k, a)
  BY <1>1, HDelClaimFacts
<1>2. /\ k \in Calls /\ InOrder(k) /\ Settles(k) /\ k.cmd = "HDEL claims"
      /\ Informed(k, claims, late) /\ Steady(k, issuedReceipts, lapsed)
      /\ held' = held
      /\ DOMAIN claims' = DOMAIN claims \ {k.todo[1]}
      /\ \A r \in DOMAIN claims' : claims'[r] = claims[r]
  BY <1>0 DEF HDelClaimDone
<1>3. /\ call' = [call EXCEPT ![c] = a]
      /\ a \in Calls /\ a.op = k.op /\ a.cmd = "ZREM" /\ a.todo = k.todo
      /\ a.got = k.got /\ a.copy = k.copy
  BY <1>0 DEF HDelClaimDone
<1>4. UNCHANGED <<pending, visibility, lapsed, nack, dead, issuedReceipts, issued, late>>
  BY DEF HDelClaim
<1>5. /\ issuedReceipts \in Nat /\ ReceiptsOwned /\ LapsedLate
      /\ \A d \in Clients : Good(call[d], claims, issuedReceipts, lapsed, late)
  BY DEF CoreInv, TypeInv, CallsGood
<1>6. 1 \in 1..Len(k.todo) /\ k.todo \in Seq(Refs \cup Nat)
  BY <1>1, <1>2, CallFacts
<1>7. InOrder(a)
  BY <1>2, <1>3 DEF InOrder, Settles
<1>8. Steady(a, issuedReceipts, lapsed) /\ Owns(a) = Owns(call[c])
  <2>1. Steady(a, issuedReceipts, lapsed)
    BY <1>2, <1>3 DEF Steady, Settles
  <2> QED
    BY <1>1, <1>3, <2>1 DEF Owns
<1>9. Informed(a, claims', late)
  <2>1. k.op = "sweep" /\ k.copy # NoCopy => k.copy \in late
    BY <1>2 DEF Informed
  <2> QED
    BY <1>2, <1>3, <2>1 DEF Informed, Settles
<1>10. Good(a, claims', issuedReceipts', lapsed', late')
  BY <1>3, <1>4, <1>7, <1>8, <1>9 DEF Good
<1>11. ASSUME NEW d \in Clients, d # c, call[d].op = "nack", call[d].cmd \notin {"HGET", "ZREM"},
              call[d].copy \notin late', call[d].todo[1] \in DOMAIN claims
       PROVE  call[d].todo[1] \in DOMAIN claims'
  <2> SUFFICES ASSUME call[d].todo[1] = k.todo[1] PROVE FALSE
    BY <1>2, <1>11
  <2>1. call[d] \in Calls /\ InOrder(call[d]) /\ Informed(call[d], claims, late)
    BY <1>5 DEF Good
  <2>2. call[d].todo \in Seq(Refs \cup Nat) /\ call[d].todo # <<>>
    BY <1>11, <2>1 DEF Calls, InOrder
  <2>3. call[d].todo[1] \in Range(call[d].todo)
    BY <2>2, TailRange
  <2>4. CASE k.op \in {"ack", "nack"}
    <3>1. k.todo[1] \in Range(k.todo)
      BY <1>6, TailRange
    <3>2. k.todo[1] \in Owns(call[c]) /\ k.todo[1] \in Owns(call[d])
      BY <1>1, <1>11, <2>3, <2>4, <3>1 DEF Owns
    <3> QED
      BY <1>5, <1>11, <3>2 DEF ReceiptsOwned
  <2>5. CASE k.op = "sweep"
    <3>1. k.todo[1] \in lapsed
      BY <1>2, <1>6, <2>5 DEF Steady
    <3>2. claims[k.todo[1]] \in late
      BY <1>5, <1>11, <3>1 DEF LapsedLate
    <3>3. call[d].copy = claims[k.todo[1]]
      BY <1>11, <2>1 DEF Informed, Settles
    <3> QED
      BY <1>4, <1>11, <3>2, <3>3
  <2> QED
    BY <1>2, <2>4, <2>5 DEF Settles
<1>12. CallsGood' /\ ReceiptsOwned'
  <2>1. /\ issuedReceipts' \in Nat /\ issuedReceipts <= issuedReceipts'
        /\ lapsed \subseteq lapsed' /\ late \subseteq late'
    BY <1>4, <1>5
  <2>2. \A r \in DOMAIN claims' : r \in 1..issuedReceipts => r \in DOMAIN claims
                                                            /\ claims'[r] = claims[r]
    BY <1>2
  <2>3. /\ Owns(a) \cup held' \subseteq Owns(call[c]) \cup held \cup {issuedReceipts + 1}
        /\ Owns(a) \cap held' = {}
    BY <1>2, <1>5, <1>8 DEF ReceiptsOwned
  <2>4. call' = [call EXCEPT ![c] = a]
    BY <1>3
  <2> QED
    BY <1>10, <1>11, <2>1, <2>2, <2>3, <2>4, OneCallMoves
<1>13. LapsedLate'
  BY <1>2, <1>4, <1>5 DEF LapsedLate
<1>14. TypeInv'
  BY <1>2, <1>4 DEF CoreInv, TypeInv
<1> QED
  BY <1>12, <1>13, <1>14 DEF CoreInv

LEMMA BreakCore == ASSUME CoreInv, NEW c \in Clients, Break(c) PROVE CoreInv'
<1>1. PICK a : a = Idle
  OBVIOUS
<1>2. call' = [call EXCEPT ![c] = a] /\ UNCHANGED <<store, issuedReceipts, held, issued>>
  BY <1>1 DEF Break
<1>3. issuedReceipts \in Nat /\ ReceiptsOwned /\ LapsedLate
  BY DEF CoreInv, TypeInv
<1>4. late \subseteq late' /\ UNCHANGED <<claims, lapsed, pending, visibility, nack, dead>>
  BY <1>2 DEF Break, store
<1>5. Good(a, claims', issuedReceipts', lapsed', late') /\ Owns(a) = {}
  BY <1>1, <1>2, <1>3, IdleGood
<1>6. CallsGood' /\ ReceiptsOwned'
  <2>1. /\ issuedReceipts' \in Nat /\ issuedReceipts <= issuedReceipts'
        /\ lapsed \subseteq lapsed' /\ late \subseteq late'
    BY <1>2, <1>3, <1>4
  <2>2. /\ \A r \in DOMAIN claims' : r \in 1..issuedReceipts => r \in DOMAIN claims
                                                            /\ claims'[r] = claims[r]
        /\ \A d \in Clients :
               /\ d # c /\ call[d].op = "nack" /\ call[d].cmd \notin {"HGET", "ZREM"}
               /\ call[d].copy \notin late' /\ call[d].todo[1] \in DOMAIN claims
               => call[d].todo[1] \in DOMAIN claims'
    BY <1>4
  <2>3. /\ Owns(a) \cup held' \subseteq Owns(call[c]) \cup held \cup {issuedReceipts + 1}
        /\ Owns(a) \cap held' = {}
    BY <1>2, <1>5
  <2>4. call' = [call EXCEPT ![c] = a]
    BY <1>2
  <2> QED
    BY <1>5, <2>1, <2>2, <2>3, <2>4, OneCallMoves
<1>7. TypeInv' /\ LapsedLate'
  BY <1>2, <1>3, <1>4 DEF CoreInv, TypeInv, LapsedLate
<1> QED
  BY <1>6, <1>7 DEF CoreInv

\* Calls that begin.
LEMMA BeginCore ==
    ASSUME CoreInv, NEW c \in Clients, NEW k, Begin(c, k),
           Good(k, claims, issuedReceipts, lapsed, late),
           Owns(k) \subseteq held, held' = held \ Owns(k)
    PROVE  CoreInv'
<1>1. call' = [call EXCEPT ![c] = k] /\ UNCHANGED <<store, issuedReceipts, issued, late>>
  BY DEF Begin
<1>2. issuedReceipts \in Nat /\ ReceiptsOwned /\ LapsedLate
  BY DEF CoreInv, TypeInv
<1>3. UNCHANGED <<claims, lapsed, late, pending, visibility, nack, dead>>
  BY <1>1 DEF store
<1>4. CallsGood' /\ ReceiptsOwned'
  <2>1. /\ issuedReceipts' \in Nat /\ issuedReceipts <= issuedReceipts'
        /\ lapsed \subseteq lapsed' /\ late \subseteq late'
    BY <1>1, <1>2, <1>3
  <2>2. /\ \A r \in DOMAIN claims' : r \in 1..issuedReceipts => r \in DOMAIN claims
                                                            /\ claims'[r] = claims[r]
        /\ \A d \in Clients :
               /\ d # c /\ call[d].op = "nack" /\ call[d].cmd \notin {"HGET", "ZREM"}
               /\ call[d].copy \notin late' /\ call[d].todo[1] \in DOMAIN claims
               => call[d].todo[1] \in DOMAIN claims'
    BY <1>3
  <2>3. /\ Owns(k) \cup held' \subseteq Owns(call[c]) \cup held \cup {issuedReceipts + 1}
        /\ Owns(k) \cap held' = {}
    OBVIOUS
  <2>4. Good(k, claims', issuedReceipts', lapsed', late')
    BY <1>1, <1>3
  <2>5. call' = [call EXCEPT ![c] = k]
    BY <1>1
  <2> QED
    BY <2>1, <2>2, <2>3, <2>4, <2>5, OneCallMoves
<1>5. TypeInv' /\ LapsedLate'
  BY <1>1, <1>2, <1>3 DEF CoreInv, TypeInv, LapsedLate
<1> QED
  BY <1>4, <1>5 DEF CoreInv

LEMMA SeqWidens ==
    ASSUME NEW S, NEW T, S \subseteq T, NEW s \in Seq(S)
    PROVE  s \in Seq(T)
<1>1. Len(s) \in Nat /\ s \in [1..Len(s) -> S]
  OBVIOUS
<1>2. s \in [1..Len(s) -> T]
  BY <1>1
<1> QED
  BY <1>1, <1>2

LEMMA BoundedIsSeq ==
    ASSUME NEW S, NEW n \in Nat, NEW s \in BoundedSeq(S, n)
    PROVE  s \in Seq(S) /\ Len(s) \in Nat /\ DOMAIN s = 1..Len(s)
<1>1. PICK m \in 0..n : s \in [1..m -> S]
  BY DEF BoundedSeq, SeqOf
<1>2. s \in Seq(S)
  BY <1>1
<1> QED
  BY <1>2

\* A call with its arguments.
LEMMA CallTyped ==
    ASSUME NEW op \in {"idle", "claim", "ack", "nack", "sweep", "revive"},
           NEW f \in {"none", "RPOP", "HSET", "ZADD", "HGET", "HINCRBY", "LPUSH", "LPUSH dead",
                      "HDEL claims", "ZREM", "HDEL nack", "LREM"},
           NEW todo \in Seq(Refs \cup Nat), NEW copy \in {NoCopy} \cup Copies, NEW count \in Nat,
           NEW reason \in {"none", "not_ready", "error"}, NEW got \in SUBSET Nat
    PROVE  [op |-> op, cmd |-> f, todo |-> todo, copy |-> copy, count |-> count,
            reason |-> reason, got |-> got] \in Calls
  BY DEF Calls

NewCall(op, todo, reason) ==
    [op |-> op, cmd |-> FirstCommand(op), todo |-> todo, copy |-> NoCopy, count |-> 0,
     reason |-> reason, got |-> {}]

Proper(op, todo, reason, n, lp) ==
    /\ op \in {"claim", "ack", "nack", "sweep", "revive"}
    /\ todo \in Seq(Refs \cup Nat) /\ todo # <<>>
    /\ reason \in {"none", "not_ready", "error"}
    /\ op \in {"ack", "nack", "sweep"} => Range(todo) \subseteq 1..n
    /\ op = "sweep" => Range(todo) \subseteq lp
    /\ op \in {"ack", "nack"} => IsInjective(todo)

LEMMA FreshCall ==
    ASSUME NEW op, NEW todo, NEW reason, NEW n \in Nat, NEW lp, Proper(op, todo, reason, n, lp),
           NEW cl, NEW lt, NEW k, k = NewCall(op, todo, reason)
    PROVE  /\ Good(k, cl, n, lp, lt)
           /\ op \in {"ack", "nack"} => Owns(k) = Range(todo)
           /\ op \notin {"ack", "nack"} => Owns(k) = {}
<1> USE DEF Proper
<1>0. PICK f : f = FirstCommand(op)
  OBVIOUS
<1>1. /\ f \in {"none", "RPOP", "HSET", "ZADD", "HGET", "HINCRBY", "LPUSH", "LPUSH dead",
                "HDEL claims", "ZREM", "HDEL nack", "LREM"}
      /\ op = "claim" => f = "RPOP"
      /\ op = "revive" => f = "LREM"
      /\ op \in {"ack", "nack", "sweep"} => f = "HGET"
  BY <1>0 DEF FirstCommand
<1>2. k \in Calls
  <2>1. {} \in SUBSET Nat /\ 0 \in Nat /\ NoCopy \in {NoCopy} \cup Copies
    OBVIOUS
  <2>2. op \in {"idle", "claim", "ack", "nack", "sweep", "revive"}
    OBVIOUS
  <2> QED
    BY <1>0, <1>1, <2>1, <2>2, CallTyped DEF NewCall
<1>3. k.op = op /\ k.cmd = f /\ k.todo = todo /\ k.copy = NoCopy /\ k.got = {}
  BY <1>0 DEF NewCall
<1>5. DOMAIN todo = 1..Len(todo) /\ Range(todo) = {todo[i] : i \in 1..Len(todo)}
  BY TailRange, HeadTail
<1>6. InOrder(k)
  BY <1>1, <1>3 DEF InOrder
<1>7. Steady(k, n, lp)
  BY <1>3, <1>5 DEF Steady, Settles, IsInjective
<1>8. Informed(k, cl, lt)
  BY <1>1, <1>3 DEF Informed, Settles
<1>9. /\ op \in {"ack", "nack"} => Owns(k) = Range(todo)
      /\ op \notin {"ack", "nack"} => Owns(k) = {}
  <2>1. CASE op = "claim"
    BY <2>1, <1>3 DEF Owns
  <2>2. CASE op \in {"ack", "nack"}
    BY <2>2, <1>3 DEF Owns
  <2>3. CASE op \in {"sweep", "revive"}
    BY <2>3, <1>3 DEF Owns
  <2> QED
    BY <2>1, <2>2, <2>3
<1> QED
  BY <1>2, <1>6, <1>7, <1>8, <1>9 DEF Good

LEMMA RequestsCore == ASSUME CoreInv, NEW c \in Clients, Requests(c) PROVE CoreInv'
<1>1. /\ issuedReceipts \in Nat /\ held \subseteq 1..issuedReceipts
      /\ visibility \subseteq 1..issuedReceipts /\ MaxBatch \in Nat
  BY RedisAssumption DEF CoreInv, TypeInv
<1>2. PICK n, lp, cl, lt : n = issuedReceipts /\ lp = lapsed /\ cl = claims /\ lt = late
  OBVIOUS
<1>3. ASSUME NEW op \in {"claim", "ack", "nack", "sweep", "revive"}, NEW todo \in Seq(Refs \cup Nat),
             todo # <<>>, NEW reason \in {"none", "not_ready", "error"},
             op \in {"ack", "nack"} => Range(todo) \subseteq held /\ IsInjective(todo),
             op = "sweep" => Range(todo) \subseteq visibility \cap lapsed,
             NEW k, k = NewCall(op, todo, reason), Begin(c, k),
             held' = IF op \in {"ack", "nack"} THEN held \ Range(todo) ELSE held
      PROVE  CoreInv'
  <2>1. op \in {"ack", "nack", "sweep"} => Range(todo) \subseteq 1..n
    BY <1>1, <1>2, <1>3
  <2>2. op = "sweep" => Range(todo) \subseteq lp
    BY <1>2, <1>3
  <2>3. n \in Nat
    BY <1>1, <1>2
  <2>4. /\ Good(k, cl, n, lp, lt)
        /\ op \in {"ack", "nack"} => Owns(k) = Range(todo)
        /\ op \notin {"ack", "nack"} => Owns(k) = {}
    <3>1. Proper(op, todo, reason, n, lp) /\ k = NewCall(op, todo, reason)
      BY <1>3, <2>1, <2>2 DEF Proper
    <3> QED
      BY <2>3, <3>1, FreshCall
  <2>5. Good(k, claims, issuedReceipts, lapsed, late) /\ Owns(k) \subseteq held /\ held' = held \ Owns(k)
    BY <1>2, <1>3, <2>4
  <2> QED
    BY <1>3, <2>5, BeginCore
<1>4. ASSUME NEW op, NEW f, NEW todo
      PROVE  Call(op, f, todo) = [op |-> op, cmd |-> f, todo |-> todo, copy |-> NoCopy,
                                  count |-> 0, reason |-> "none", got |-> {}]
  <2>1. Call(op, f, todo) = [Idle EXCEPT !.op = op, !.cmd = f, !.todo = todo]
    BY DEF Call
  <2>2. Idle = [op |-> "idle", cmd |-> "none", todo |-> <<>>, copy |-> NoCopy, count |-> 0,
                reason |-> "none", got |-> {}]
    BY DEF Idle
  <2> QED
    BY <2>1, <2>2
<1>5. ASSUME NEW todo, NEW reason
      PROVE  /\ Call("claim", "RPOP", todo) = NewCall("claim", todo, "none")
             /\ Call("ack", "HGET", todo) = NewCall("ack", todo, "none")
             /\ [Call("nack", "HGET", todo) EXCEPT !.reason = reason] = NewCall("nack", todo, reason)
             /\ Call("sweep", "HGET", todo) = NewCall("sweep", todo, "none")
             /\ Call("revive", "LREM", todo) = NewCall("revive", todo, "none")
  <2>1. /\ FirstCommand("claim") = "RPOP" /\ FirstCommand("revive") = "LREM"
        /\ FirstCommand("ack") = "HGET" /\ FirstCommand("nack") = "HGET" /\ FirstCommand("sweep") = "HGET"
    BY DEF FirstCommand
  <2>2. /\ Call("claim", "RPOP", todo) = NewCall("claim", todo, "none")
        /\ Call("ack", "HGET", todo) = NewCall("ack", todo, "none")
        /\ Call("sweep", "HGET", todo) = NewCall("sweep", todo, "none")
        /\ Call("revive", "LREM", todo) = NewCall("revive", todo, "none")
    BY <1>4, <2>1 DEF NewCall
  <2>3. [Call("nack", "HGET", todo) EXCEPT !.reason = reason] = NewCall("nack", todo, reason)
    BY <1>4, <2>1 DEF NewCall
  <2> QED
    BY <2>2, <2>3
<1>6. ASSUME NEW S, S \subseteq Nat, NEW s \in Batches(S)
      PROVE  s \in Seq(Refs \cup Nat) /\ s # <<>> /\ Range(s) \subseteq S /\ IsInjective(s)
  <2>1. s \in BoundedSeq(S, MaxBatch) /\ s # <<>> /\ IsInjective(s)
    BY DEF Batches
  <2>2. s \in Seq(S) /\ DOMAIN s = 1..Len(s)
    BY <1>1, <2>1, BoundedIsSeq
  <2>3. \A i \in 1..Len(s) : s[i] \in S
    BY <2>2
  <2>4. s \in Seq(Refs \cup Nat)
    BY <1>6, <2>2, SeqWidens
  <2> QED
    BY <2>1, <2>2, <2>3, <2>4 DEF Range
<1>7. CASE \E max \in 1..MaxBatch : Claim(c, max)
  <2>1. PICK max \in 1..MaxBatch : Claim(c, max)
    BY <1>7
  <2>2. PICK todo : todo = [i \in 1..max |-> 0]
    OBVIOUS
  <2>3. todo \in Seq(Refs \cup Nat) /\ todo # <<>>
    <3>1. max \in Nat /\ max >= 1
      BY <1>1
    <3>2. todo \in Seq(Nat) /\ Len(todo) = max
      BY <2>2, <3>1
    <3>3. todo \in Seq(Refs \cup Nat)
      BY <3>2, SeqWidens
    <3> QED
      BY <3>1, <3>2, <3>3
  <2>4. PICK k : k = Call("claim", "RPOP", todo)
    OBVIOUS
  <2>5. Begin(c, k) /\ held' = held
    BY <2>1, <2>2, <2>4 DEF Claim
  <2>6. k = NewCall("claim", todo, "none")
    BY <1>5, <2>4
  <2> QED
    BY <1>3, <2>3, <2>5, <2>6
<1>8. CASE \E receipts \in Batches(held) : Ack(c, receipts)
  <2>1. PICK todo \in Batches(held) : Ack(c, todo)
    BY <1>8
  <2>2. todo \in Seq(Refs \cup Nat) /\ todo # <<>> /\ Range(todo) \subseteq held /\ IsInjective(todo)
    <3>1. held \subseteq Nat
      BY <1>1
    <3> QED
      BY <1>6, <3>1
  <2>3. PICK k : k = Call("ack", "HGET", todo)
    OBVIOUS
  <2>4. Begin(c, k) /\ held' = held \ Range(todo)
    BY <2>1, <2>3 DEF Ack
  <2>5. k = NewCall("ack", todo, "none")
    BY <1>5, <2>3
  <2> QED
    BY <1>3, <2>2, <2>4, <2>5
<1>9. CASE \E receipts \in Batches(held), reason \in {"not_ready", "error"} : Nack(c, receipts, reason)
  <2>1. PICK todo \in Batches(held), reason \in {"not_ready", "error"} : Nack(c, todo, reason)
    BY <1>9
  <2>2. todo \in Seq(Refs \cup Nat) /\ todo # <<>> /\ Range(todo) \subseteq held /\ IsInjective(todo)
    <3>1. held \subseteq Nat
      BY <1>1
    <3> QED
      BY <1>6, <3>1
  <2>3. PICK k : k = [Call("nack", "HGET", todo) EXCEPT !.reason = reason]
    OBVIOUS
  <2>4. Begin(c, k) /\ held' = held \ Range(todo)
    BY <2>1, <2>3 DEF Nack
  <2>5. k = NewCall("nack", todo, reason)
    BY <1>5, <2>3
  <2> QED
    BY <1>3, <2>2, <2>4, <2>5
<1>10. CASE \E receipts \in Batches(visibility \cap lapsed) : RequeueExpired(c, receipts)
  <2>1. PICK todo \in Batches(visibility \cap lapsed) : RequeueExpired(c, todo)
    BY <1>10
  <2>2. todo \in Seq(Refs \cup Nat) /\ todo # <<>> /\ Range(todo) \subseteq visibility \cap lapsed
    <3>1. visibility \subseteq Nat
      BY <1>1
    <3>2. visibility \cap lapsed \subseteq Nat
      BY <3>1, Zenon
    <3> QED
      BY <1>6, <3>2
  <2>3. PICK k : k = Call("sweep", "HGET", todo)
    OBVIOUS
  <2>4. Begin(c, k) /\ held' = held
    BY <2>1, <2>3 DEF RequeueExpired
  <2>5. k = NewCall("sweep", todo, "none")
    BY <1>5, <2>3
  <2> QED
    BY <1>3, <2>2, <2>4, <2>5
<1>11. CASE \E refs \in BoundedSeq(Refs, MaxBatch) :
              refs # <<>> /\ dead # <<>> /\ RequeueDeadLetters(c, refs)
  <2>1. PICK todo \in BoundedSeq(Refs, MaxBatch) : todo # <<>> /\ RequeueDeadLetters(c, todo)
    BY <1>11
  <2>2. todo \in Seq(Refs \cup Nat)
    <3>1. todo \in Seq(Refs)
      BY <1>1, BoundedIsSeq
    <3> QED
      BY <3>1, SeqWidens
  <2>3. PICK k : k = Call("revive", "LREM", todo)
    OBVIOUS
  <2>4. Begin(c, k) /\ held' = held
    BY <2>1, <2>3 DEF RequeueDeadLetters
  <2>5. k = NewCall("revive", todo, "none")
    BY <1>5, <2>3
  <2> QED
    BY <1>3, <2>1, <2>2, <2>4, <2>5
<1> QED
  BY <1>7, <1>8, <1>9, <1>10, <1>11 DEF Requests

\* The copies an EnqueueMany pushes have fresh numbers.
LEMMA EnqueuePushes ==
    ASSUME CoreInv, NEW refs \in BoundedSeq(Refs, MaxBatch), EnqueueMany(refs)
    PROVE  \E new \in Seq(Copies) :
              /\ pending' = pending \o new /\ issued' = issued + Len(new) /\ Len(new) \in Nat
              /\ \A i \in 1..Len(new) : new[i].id = issued + i
<1>1. PICK n : n = Len(refs)
  OBVIOUS
<1>2. refs \in Seq(Refs) /\ n \in Nat /\ DOMAIN refs = 1..n
  BY <1>1, BoundedIsSeq, RedisAssumption
<1>3. PICK new : new = [i \in 1..n |-> [ref |-> refs[i], id |-> issued + i]]
  OBVIOUS
<1>4. issued \in Nat
  BY DEF CoreInv, TypeInv
<1>5. \A i \in 1..n : refs[i] \in Refs /\ issued + i \in Nat
  BY <1>2, <1>4
<1>6. \A i \in 1..n : new[i] \in Copies /\ new[i].id = issued + i
  BY <1>3, <1>5 DEF Copies
<1>7. new \in [1..n -> Copies]
  BY <1>3, <1>6
<1>8. new \in Seq(Copies) /\ Len(new) = n
  BY <1>2, <1>7
<1>9. pending' = pending \o new /\ issued' = issued + n
  BY <1>1, <1>3 DEF EnqueueMany
<1> QED
  BY <1>2, <1>6, <1>8, <1>9

LEMMA EnqueueCore ==
    ASSUME CoreInv, NEW refs \in BoundedSeq(Refs, MaxBatch), EnqueueMany(refs)
    PROVE  CoreInv'
<1>1. PICK new \in Seq(Copies) : pending' = pending \o new /\ issued' = issued + Len(new) /\ Len(new) \in Nat
  BY EnqueuePushes
<1>2. UNCHANGED <<claims, visibility, lapsed, nack, dead, call, issuedReceipts, held, late>>
  BY DEF EnqueueMany
<1>3. pending \in Seq(Copies) /\ issued \in Nat
  BY DEF CoreInv, TypeInv
<1>4. pending \o new \in Seq(Copies)
  BY <1>3
<1>5. pending' \in Seq(Copies) /\ issued' \in Nat
  BY <1>1, <1>3, <1>4
<1>6. TypeInv' /\ LapsedLate' /\ ReceiptsOwned'
  BY <1>2, <1>5 DEF CoreInv, TypeInv, LapsedLate, ReceiptsOwned
<1>7. CallsGood'
  BY <1>2 DEF CoreInv, CallsGood
<1> QED
  BY <1>6, <1>7 DEF CoreInv

LEMMA LapseCore == ASSUME CoreInv, NEW r \in Receipts, Lapse(r) PROVE CoreInv'
<1>1. /\ UNCHANGED <<pending, claims, visibility, nack, dead, call, issuedReceipts, held, issued>>
      /\ r \in visibility /\ lapsed' = lapsed \cup {r}
      /\ late' = IF r \in DOMAIN claims THEN late \cup {claims[r]} ELSE late
  BY DEF Lapse
<1>2. TypeInv' /\ ReceiptsOwned'
  BY <1>1 DEF CoreInv, TypeInv, ReceiptsOwned
<1>3. LapsedLate'
  BY <1>1 DEF CoreInv, LapsedLate
<1>4. ASSUME NEW d \in Clients PROVE Good(call[d], claims, issuedReceipts, lapsed', late')
  <2>1. PICK lp2, lt2 : lp2 = lapsed' /\ lt2 = late'
    OBVIOUS
  <2>2. PICK k, cl, n, lp, lt : /\ k = call[d] /\ cl = claims /\ n = issuedReceipts
                                /\ lp = lapsed /\ lt = late
    OBVIOUS
  <2>3. Good(k, cl, n, lp, lt) /\ n \in Nat
    BY <2>2 DEF CoreInv, CallsGood, TypeInv
  <2>4. n <= n /\ lp \subseteq lp2 /\ lt \subseteq lt2
    BY <1>1, <2>1, <2>2, <2>3
  <2>5. Good(k, cl, n, lp2, lt2)
    BY <2>3, <2>4, GoodPersists
  <2> QED
    BY <2>1, <2>2, <2>5
<1>5. CallsGood'
  BY <1>1, <1>4 DEF CoreInv, CallsGood
<1> QED
  BY <1>2, <1>3, <1>5 DEF CoreInv

LEMMA InitCore == Init => CoreInv
<1> SUFFICES ASSUME Init PROVE CoreInv
  OBVIOUS
<1>1. TypeInv
  BY DEF Init, TypeInv
<1>2. \A c \in Clients : call[c] = Idle
  BY DEF Init
<1>3. CallsGood
  <2>1. issuedReceipts \in Nat
    BY DEF Init
  <2>2. Good(Idle, claims, issuedReceipts, lapsed, late)
    BY <2>1, IdleGood
  <2> QED
    BY <1>2, <2>2 DEF CallsGood, Init
<1>4. ReceiptsOwned
  <2>1. \A c \in Clients : Owns(call[c]) = {}
    BY <1>2, IdleGood
  <2> QED
    BY <2>1 DEF ReceiptsOwned
<1>5. LapsedLate
  BY DEF Init, LapsedLate
<1> QED
  BY <1>1, <1>3, <1>4, <1>5 DEF CoreInv

LEMMA CoreNext == CoreInv /\ [Next]_vars => CoreInv'
<1> SUFFICES ASSUME CoreInv, [Next]_vars PROVE CoreInv'
  OBVIOUS
<1>1. CASE UNCHANGED vars
  <2>1. UNCHANGED <<pending, claims, visibility, lapsed, nack, dead, call, issuedReceipts, held, issued, late>>
    BY <1>1 DEF vars
  <2> QED
    BY <2>1 DEF CoreInv, TypeInv, CallsGood, ReceiptsOwned, LapsedLate
<1>2. ASSUME NEW refs \in BoundedSeq(Refs, MaxBatch), EnqueueMany(refs) PROVE CoreInv'
  BY <1>2, EnqueueCore
<1>3. ASSUME NEW c \in Clients, Command(c) PROVE CoreInv'
  BY <1>3, RPopCore, HSetCore, ZAddCore, HGetCore, HIncrByCore, LPushCore, LPushDeadCore,
     HDelClaimCore, ZRemCore, HDelNackCore, LRemCore DEF Command
<1>4. ASSUME NEW c \in Clients, Requests(c) \/ Break(c) PROVE CoreInv'
  BY <1>4, RequestsCore, BreakCore
<1>5. ASSUME NEW r \in Receipts, Lapse(r) PROVE CoreInv'
  BY <1>5, LapseCore
<1> QED
  BY <1>1, <1>2, <1>3, <1>4, <1>5 DEF Next

---------------------------------------------------------------------------
\* Where copies are.  A claim is doomed when a Nack or a sweep has pushed its
\* payload and is about to delete it; the other claims are firm.
Taken(k) == (k.op = "claim" /\ k.cmd = "HSET") \/ (k.op = "revive" /\ k.cmd = "LPUSH")
Hand(k, x) == Taken(k) /\ k.copy = x

Dooms(k, r) ==
    /\ \/ k.op = "nack" /\ k.cmd \in {"HDEL nack", "HDEL claims"}
       \/ k.op = "sweep" /\ k.cmd = "HDEL claims"
    /\ k.todo[1] = r
Doomed(r) == \E c \in Clients : Dooms(call[c], r)

At(s, x) == {i \in 1..Len(s) : s[i] = x}
InPending(x) == At(pending, x)
InDead(x) == At(dead, x)
Firm(x) == {r \in DOMAIN claims : claims[r] = x /\ ~Doomed(r)}

\* A copy that is neither acked nor dropped has a place that nobody is about to
\* delete.
Kept(x) ==
    \/ InPending(x) # {} \/ InDead(x) # {} \/ InHands(x) # {} \/ Firm(x) # {}
    \/ x \in acked \cup dropped

OneOf(A, B, C, D) ==
    /\ \A u, v \in A : u = v
    /\ \A u, v \in B : u = v
    /\ \A u, v \in C : u = v
    /\ \A u, v \in D : u = v
    /\ A = {} \/ (B = {} /\ C = {} /\ D = {})
    /\ B = {} \/ (C = {} /\ D = {})
    /\ C = {} \/ D = {}

\* A copy has one such place at most.
Single(x) == OneOf(InPending(x), InDead(x), InHands(x), Firm(x))

\* A copy is somewhere in the keys, or a call has read it.
Located(x) ==
    \/ InPending(x) # {} \/ InDead(x) # {} \/ \E r \in DOMAIN claims : claims[r] = x
    \/ \E d \in Clients : call[d].copy = x

\* A step keeps what is kept, doubles nothing before a timeout, and makes no
\* copy of its own.
Conserved(x) ==
    /\ Kept(x) => Kept(x)'
    /\ x \notin late' /\ Single(x) => Single(x)'
    /\ Located(x)' => Located(x)

LEMMA OneOfShrinks ==
    ASSUME NEW A, NEW B, NEW C, NEW D, OneOf(A, B, C, D), NEW A2, NEW B2, NEW C2, NEW D2,
           A2 \subseteq A, B2 \subseteq B, C2 \subseteq C, D2 \subseteq D
    PROVE  OneOf(A2, B2, C2, D2)
  BY DEF OneOf

\* Client c's call moves from k to a.
Moves(c, k, a) == k = call[c] /\ a = call'[c] /\ \A d \in Clients : d # c => call'[d] = call[d]

LEMMA MovesHands ==
    ASSUME NEW c \in Clients, NEW k, NEW a, Moves(c, k, a), NEW x
    PROVE  /\ c \in InHands(x) <=> Hand(k, x)
           /\ c \in InHands(x)' <=> Hand(a, x)
           /\ \A d \in Clients : d # c => (d \in InHands(x)' <=> d \in InHands(x))
           /\ InHands(x) \subseteq Clients /\ InHands(x)' \subseteq Clients
  BY DEF Moves, InHands, HasTaken, Hand, Taken

LEMMA MovesDooms ==
    ASSUME NEW c \in Clients, NEW k, NEW a, Moves(c, k, a), NEW r
    PROVE  /\ Doomed(r) <=> Dooms(k, r) \/ \E d \in Clients : d # c /\ Dooms(call[d], r)
           /\ Doomed(r)' <=> Dooms(a, r) \/ \E d \in Clients : d # c /\ Dooms(call[d], r)
<1>1. Doomed(r) <=> Dooms(k, r) \/ \E d \in Clients : d # c /\ Dooms(call[d], r)
  BY DEF Moves, Doomed
<1>2. Doomed(r)' <=> \E d \in Clients : Dooms(call'[d], r)
  BY DEF Doomed, Dooms
<1>3. (\E d \in Clients : Dooms(call'[d], r)) <=> Dooms(a, r) \/ \E d \in Clients : d # c /\ Dooms(call[d], r)
  BY DEF Moves
<1> QED
  BY <1>1, <1>2, <1>3

\* The call after a command, in these terms.
Follows(k, a) ==
    /\ Following(k) = "next" => /\ a.cmd \in {"RPOP", "LREM", "HGET", "none"} /\ a.copy = NoCopy
                                /\ ~Taken(a) /\ \A r : ~Dooms(a, r)
    /\ Following(k) # "next" => /\ a.op = k.op /\ a.cmd = Following(k)
                                /\ a.copy = k.copy /\ a.todo = k.todo

LEMMA AdvancePlaces ==
    ASSUME NEW k \in Calls, InOrder(k), k.op # "idle", NEW a, a = Advance(k)
    PROVE  Follows(k, a)
<1>1. CASE Following(k) # "next"
  <2>1. a = [k EXCEPT !.cmd = Following(k)]
    BY <1>1 DEF Advance
  <2> QED
    BY <1>1, <2>1 DEF Calls, Follows
<1>2. CASE Following(k) = "next" /\ Len(k.todo) > 1
  <2>1. a = [k EXCEPT !.todo = Tail(@), !.cmd = FirstCommand(k.op), !.copy = NoCopy, !.count = 0]
    BY <1>2 DEF Advance
  <2>2. a.cmd = FirstCommand(k.op) /\ a.op = k.op /\ a.copy = NoCopy
    BY <2>1 DEF Calls
  <2>3. a.cmd \in {"RPOP", "LREM", "HGET"}
    BY <2>2 DEF FirstCommand
  <2> QED
    BY <1>2, <2>2, <2>3 DEF Taken, Dooms, Follows
<1>3. CASE Following(k) = "next" /\ ~(Len(k.todo) > 1)
  <2>1. a = Idle
    BY <1>3 DEF Advance
  <2>2. a.cmd = "none" /\ a.copy = NoCopy
    BY <2>1 DEF Idle
  <2> QED
    BY <1>3, <2>2 DEF Taken, Dooms, Follows
<1> QED
  BY <1>1, <1>2, <1>3

---------------------------------------------------------------------------
\* One kind of place of a copy before and after a step: S and T.
One(S) == \A u, v \in S : u = v
Same(S, T) == (S = {} <=> T = {}) /\ (One(S) => One(T))
Loses(S, T) == S # {} /\ (One(S) => T = {})
Gains(S, T) == T # {} /\ (S = {} => One(T))

LEMMA SameRefl == \A S : Same(S, S)
  BY DEF Same

LEMMA OneOfSame ==
    ASSUME NEW A, NEW B, NEW C, NEW D, OneOf(A, B, C, D), NEW A2, NEW B2, NEW C2, NEW D2,
           Same(A, A2), Same(B, B2), Same(C, C2), Same(D, D2)
    PROVE  OneOf(A2, B2, C2, D2)
  BY DEF OneOf, Same, One

\* A copy that goes from a place of one kind to a place of another.
LEMMA PendingToHand ==
    ASSUME NEW A, NEW B, NEW C, NEW D, OneOf(A, B, C, D), NEW A2, NEW B2, NEW C2, NEW D2,
           Loses(A, A2), Gains(C, C2), Same(B, B2), Same(D, D2)
    PROVE  OneOf(A2, B2, C2, D2)
  BY DEF OneOf, Same, One, Loses, Gains

LEMMA DeadToHand ==
    ASSUME NEW A, NEW B, NEW C, NEW D, OneOf(A, B, C, D), NEW A2, NEW B2, NEW C2, NEW D2,
           Loses(B, B2), Gains(C, C2), Same(A, A2), Same(D, D2)
    PROVE  OneOf(A2, B2, C2, D2)
  BY DEF OneOf, Same, One, Loses, Gains

LEMMA HandToClaim ==
    ASSUME NEW A, NEW B, NEW C, NEW D, OneOf(A, B, C, D), NEW A2, NEW B2, NEW C2, NEW D2,
           Loses(C, C2), Gains(D, D2), Same(A, A2), Same(B, B2)
    PROVE  OneOf(A2, B2, C2, D2)
  BY DEF OneOf, Same, One, Loses, Gains

LEMMA HandToPending ==
    ASSUME NEW A, NEW B, NEW C, NEW D, OneOf(A, B, C, D), NEW A2, NEW B2, NEW C2, NEW D2,
           Loses(C, C2), Gains(A, A2), Same(B, B2), Same(D, D2)
    PROVE  OneOf(A2, B2, C2, D2)
  BY DEF OneOf, Same, One, Loses, Gains

LEMMA ClaimToPending ==
    ASSUME NEW A, NEW B, NEW C, NEW D, OneOf(A, B, C, D), NEW A2, NEW B2, NEW C2, NEW D2,
           Loses(D, D2), Gains(A, A2), Same(B, B2), Same(C, C2)
    PROVE  OneOf(A2, B2, C2, D2)
  BY DEF OneOf, Same, One, Loses, Gains

LEMMA ClaimToDead ==
    ASSUME NEW A, NEW B, NEW C, NEW D, OneOf(A, B, C, D), NEW A2, NEW B2, NEW C2, NEW D2,
           Loses(D, D2), Gains(B, B2), Same(A, A2), Same(C, C2)
    PROVE  OneOf(A2, B2, C2, D2)
  BY DEF OneOf, Same, One, Loses, Gains

\* LPUSH.
LEMMA AppendAt ==
    ASSUME NEW S, NEW s \in Seq(S), NEW y \in S, NEW t, t = Append(s, y)
    PROVE  /\ \A x : x # y => At(t, x) = At(s, x)
           /\ Gains(At(s, y), At(t, y))
<1>1. /\ t \in Seq(S) /\ Len(s) \in Nat /\ Len(t) = Len(s) + 1 /\ t[Len(s) + 1] = y
      /\ \A i \in 1..Len(s) : t[i] = s[i]
  OBVIOUS
<1>2. 1..Len(t) = 1..Len(s) \cup {Len(s) + 1}
  BY <1>1
<1>3. At(t, y) = At(s, y) \cup {Len(s) + 1}
  BY <1>1, <1>2 DEF At
<1>4. \A x : x # y => At(t, x) = At(s, x)
  BY <1>1, <1>2 DEF At
<1> QED
  BY <1>3, <1>4 DEF Gains, One

\* RPOP.
LEMMA TailAt ==
    ASSUME NEW S, NEW s \in Seq(S), s # <<>>, NEW t, t = Tail(s)
    PROVE  /\ s[1] \in S
           /\ \A x : x # s[1] => Same(At(s, x), At(t, x))
           /\ Loses(At(s, s[1]), At(t, s[1]))
<1>1. PICK n : n = Len(s)
  OBVIOUS
<1>2. /\ n \in Nat /\ n >= 1 /\ Len(t) = n - 1 /\ s[1] \in S /\ 1 \in 1..n
      /\ \A i \in 1..(n - 1) : t[i] = s[i + 1]
  BY <1>1, HeadTail
<1>3. \A x, i : i \in At(t, x) <=> i \in 1..(n - 1) /\ s[i + 1] = x
  BY <1>2 DEF At
<1>4. \A x, i : i \in At(s, x) <=> i \in 1..n /\ s[i] = x
  BY <1>1 DEF At
<1>5. \A x : \A i \in At(t, x) : i \in Nat /\ i >= 1 /\ i + 1 \in At(s, x)
  BY <1>2, <1>3, <1>4
<1>6. \A x : \A i \in At(s, x) : i # 1 => i - 1 \in At(t, x)
  BY <1>2, <1>3, <1>4
<1>7. ASSUME NEW x, x # s[1] PROVE Same(At(s, x), At(t, x))
  <2>1. 1 \notin At(s, x)
    BY <1>4, <1>7
  <2>2. At(s, x) = {} <=> At(t, x) = {}
    BY <1>5, <1>6, <2>1
  <2>3. ASSUME One(At(s, x)), NEW u \in At(t, x), NEW v \in At(t, x) PROVE u = v
    <3>1. u \in Nat /\ v \in Nat /\ u + 1 = v + 1
      BY <1>5, <2>3 DEF One
    <3> QED
      BY <3>1
  <2> QED
    BY <2>2, <2>3 DEF Same, One
<1>8. Loses(At(s, s[1]), At(t, s[1]))
  <2>1. 1 \in At(s, s[1])
    BY <1>2, <1>4
  <2>2. ASSUME One(At(s, s[1])), NEW u \in At(t, s[1]) PROVE FALSE
    <3>1. u \in Nat /\ u >= 1 /\ u + 1 = 1
      BY <1>5, <2>1, <2>2 DEF One
    <3> QED
      BY <3>1
  <2> QED
    BY <2>1, <2>2 DEF Loses
<1> QED
  BY <1>2, <1>7, <1>8

\* LREM.
LEMMA RemoveAtAt ==
    ASSUME NEW S, NEW s \in Seq(S), NEW j \in 1..Len(s), NEW t, t = RemoveAt(s, j)
    PROVE  /\ s[j] \in S
           /\ \A x : x # s[j] => Same(At(s, x), At(t, x))
           /\ Loses(At(s, s[j]), At(t, s[j]))
<1>1. PICK n : n = Len(s)
  OBVIOUS
<1>2. /\ n \in Nat /\ j \in 1..n /\ s[j] \in S /\ Len(t) = n - 1
      /\ \A i \in 1..(n - 1) : t[i] = IF i < j THEN s[i] ELSE s[i + 1]
  <2>1. /\ Len(t) = Len(s) - 1 /\ s[j] \in S
        /\ \A i \in 1..Len(t) : t[i] = IF i < j THEN s[i] ELSE s[i + 1]
    BY RemoveAtElements
  <2> QED
    BY <1>1, <2>1
<1>3. \A x, i : i \in At(t, x) <=> i \in 1..(n - 1) /\ (IF i < j THEN s[i] ELSE s[i + 1]) = x
  BY <1>2 DEF At
<1>4. \A x, i : i \in At(s, x) <=> i \in 1..n /\ s[i] = x
  BY <1>1 DEF At
<1>5. ASSUME NEW x, NEW i \in At(t, x)
      PROVE  /\ i \in Nat
             /\ i < j => i \in At(s, x)
             /\ ~(i < j) => i + 1 \in At(s, x)
  <2>1. i \in 1..(n - 1) /\ (IF i < j THEN s[i] ELSE s[i + 1]) = x
    BY <1>3, <1>5
  <2>2. i \in Nat /\ i \in 1..n /\ i + 1 \in 1..n
    BY <1>2, <2>1
  <2> QED
    BY <1>4, <2>1, <2>2
<1>6. ASSUME NEW x, NEW i \in At(s, x), i # j
      PROVE  /\ i < j => i \in At(t, x)
             /\ ~(i < j) => i - 1 \in At(t, x)
  <2>1. i \in 1..n /\ s[i] = x
    BY <1>4, <1>6
  <2>2. CASE i < j
    <3>1. i \in 1..(n - 1)
      BY <1>2, <2>1, <2>2
    <3> QED
      BY <1>3, <2>1, <2>2, <3>1
  <2>3. CASE ~(i < j)
    <3>1. i - 1 \in 1..(n - 1) /\ ~(i - 1 < j) /\ i - 1 + 1 = i
      BY <1>2, <1>6, <2>1, <2>3
    <3> QED
      BY <1>3, <2>1, <2>3, <3>1
  <2> QED
    BY <2>2, <2>3
<1>7. ASSUME NEW x, x # s[j] PROVE Same(At(s, x), At(t, x))
  <2>1. j \notin At(s, x)
    BY <1>4, <1>7
  <2>2. At(s, x) = {} <=> At(t, x) = {}
    BY <1>5, <1>6, <2>1
  <2>3. ASSUME One(At(s, x)), NEW u \in At(t, x), NEW v \in At(t, x) PROVE u = v
    <3>2. u \in Nat /\ v \in Nat /\ j \in Nat
      BY <1>2, <1>5
    <3>3. CASE u < j /\ v < j
      BY <1>5, <2>3, <3>3 DEF One
    <3>4. CASE ~(u < j) /\ ~(v < j)
      <4>1. u + 1 = v + 1
        BY <1>5, <2>3, <3>4 DEF One
      <4> QED
        BY <3>2, <4>1
    <3>5. CASE u < j /\ ~(v < j)
      <4>1. u = v + 1
        BY <1>5, <2>3, <3>5 DEF One
      <4> QED
        BY <3>2, <3>5, <4>1
    <3>6. CASE ~(u < j) /\ v < j
      <4>1. v = u + 1
        BY <1>5, <2>3, <3>6 DEF One
      <4> QED
        BY <3>2, <3>6, <4>1
    <3> QED
      BY <3>3, <3>4, <3>5, <3>6
  <2> QED
    BY <2>2, <2>3 DEF Same, One
<1>8. Loses(At(s, s[j]), At(t, s[j]))
  <2>1. j \in At(s, s[j])
    BY <1>2, <1>4
  <2>2. ASSUME One(At(s, s[j])), NEW u \in At(t, s[j]) PROVE FALSE
    <3>1. u \in Nat /\ j \in Nat
      BY <1>2, <1>5
    <3>2. CASE u < j
      <4>1. u = j
        BY <1>5, <2>1, <2>2, <3>2 DEF One
      <4> QED
        BY <3>1, <3>2, <4>1
    <3>3. CASE ~(u < j)
      <4>1. u + 1 = j
        BY <1>5, <2>1, <2>2, <3>3 DEF One
      <4> QED
        BY <3>1, <3>3, <4>1
    <3> QED
      BY <3>2, <3>3
  <2> QED
    BY <2>1, <2>2 DEF Loses
<1> QED
  BY <1>2, <1>7, <1>8

---------------------------------------------------------------------------
\* A command of the call k0 of client c, which has the answer in k and becomes a.
Onward(c, k0, k, a) ==
    /\ Moves(c, k0, a) /\ k0 \in Calls /\ InOrder(k0)
    /\ Steady(k0, issuedReceipts, lapsed) /\ Informed(k0, claims, late)
    /\ k \in Calls /\ InOrder(k) /\ k.op = k0.op /\ k.cmd = k0.cmd /\ k.todo = k0.todo
    /\ k.op \in {"claim", "ack", "nack", "sweep", "revive"}
    /\ Item(c) = k.todo[1] /\ Head(k0.todo) = k.todo[1] /\ 1 \in 1..Len(k.todo)
    /\ Follows(k, a)

LEMMA CallMoves ==
    ASSUME CoreInv, NEW c \in Clients, NEW a, call' = [call EXCEPT ![c] = a]
    PROVE  a = call'[c] /\ Moves(c, call[c], a)
  BY DEF CoreInv, CallsGood, Moves

LEMMA GoesOn ==
    ASSUME CoreInv, NEW c \in Clients, NEW k0, k0 = call[c], k0.cmd # "none",
           NEW k \in Calls, k.op = k0.op, k.cmd = k0.cmd, k.todo = k0.todo, InOrder(k),
           Continue(c, k), NEW a, a = call'[c]
    PROVE  Onward(c, k0, k, a)
<1>1. /\ k0 \in Calls /\ InOrder(k0) /\ k0.op # "idle"
      /\ Steady(k0, issuedReceipts, lapsed) /\ Informed(k0, claims, late)
      /\ 1 \in 1..Len(k0.todo) /\ Head(k0.todo) = k0.todo[1]
      /\ k0.op \in {"claim", "ack", "nack", "sweep", "revive"}
  BY CallFacts
<1>2. PICK b : b = Advance(k)
  OBVIOUS
<1>3. call' = [call EXCEPT ![c] = b]
  BY <1>2 DEF Continue
<1>4. a = b /\ Moves(c, k0, a)
  BY <1>3, CallMoves
<1>5. Follows(k, a)
  BY <1>1, <1>2, <1>4, AdvancePlaces
<1> QED
  BY <1>1, <1>4, <1>5 DEF Onward, Item

\* A command without an answer the call keeps.
LEMMA GoesPlainlyOn ==
    ASSUME CoreInv, NEW c \in Clients, NEW k, k = call[c], k.cmd # "none",
           Continue(c, call[c]), NEW a, a = call'[c]
    PROVE  Onward(c, k, k, a)
<1>1. k \in Calls /\ InOrder(k)
  BY CallFacts
<1>2. Continue(c, k)
  OBVIOUS
<1> QED
  BY <1>1, <1>2, GoesOn

\* Which command sets a call on its way to ZADD.
LEMMA ZAddFollowsHSet ==
    ASSUME NEW k \in Calls, InOrder(k), NEW a, Follows(k, a), k.cmd # "HSET",
           k.op \in {"claim", "ack", "nack", "sweep", "revive"}
    PROVE  a.cmd # "ZADD"
<1>1. Following(k) # "ZADD"
  BY FollowingKinds DEF ClaimNext, AckNext, NackNext, SweepNext, ReviveNext
<1> QED
  BY <1>1 DEF Follows

\* The commands that leave lists and claims as they are.
LEMMA RestMoves ==
    ASSUME CoreInv, NEW c \in Clients, ZAdd(c) \/ HGet(c) \/ HIncrBy(c) \/ ZRem(c) \/ HDelNack(c),
           NEW k0, k0 = call[c], NEW a, a = call'[c]
    PROVE  \E k : /\ Onward(c, k0, k, a)
                  /\ k0.cmd = "HGET" => k.copy = IF k.todo[1] \in DOMAIN claims
                                                 THEN claims[k.todo[1]] ELSE NoCopy
                  /\ k0.cmd # "HGET" => k.copy = k0.copy
<1>1. CASE ZAdd(c) \/ ZRem(c) \/ HDelNack(c)
  <2>1. k0.cmd \in {"ZADD", "ZREM", "HDEL nack"} /\ Continue(c, call[c])
    BY <1>1 DEF ZAdd, ZRem, HDelNack, Sent
  <2>2. k0.cmd # "none" /\ k0.cmd # "HGET"
    BY <2>1
  <2>3. Onward(c, k0, k0, a)
    BY <2>1, <2>2, GoesPlainlyOn
  <2> QED
    BY <2>2, <2>3
<1>2. CASE HGet(c)
  <2>1. k0.cmd = "HGET"
    BY <1>2 DEF HGet, Sent
  <2>2. PICK y : y = IF Item(c) \in DOMAIN claims THEN claims[Item(c)] ELSE NoCopy
    OBVIOUS
  <2>3. Continue(c, [k0 EXCEPT !.copy = y])
    BY <1>2, <2>2 DEF HGet
  <2>4. k0 \in Calls /\ InOrder(k0) /\ Item(c) = k0.todo[1]
    BY <2>1, CallFacts DEF Item
  <2>5. y \in {NoCopy} \cup Copies
    BY <2>2 DEF CoreInv, TypeInv
  <2>6. PICK k : k = [k0 EXCEPT !.copy = y]
    OBVIOUS
  <2>7. k \in Calls /\ k.op = k0.op /\ k.cmd = k0.cmd /\ k.todo = k0.todo /\ k.copy = y
    BY <2>4, <2>5, <2>6 DEF Calls
  <2>8. InOrder(k)
    <3>1. k.op # "idle"
      BY <2>1, <2>4, <2>7 DEF InOrder, Idle
    <3> QED
      BY <2>1, <2>4, <2>7, <3>1 DEF InOrder
  <2>9. Onward(c, k0, k, a)
    <3>1. Continue(c, k) /\ k0.cmd # "none"
      BY <2>1, <2>3, <2>6
    <3> QED
      BY <2>7, <2>8, <3>1, GoesOn
  <2> QED
    BY <2>1, <2>2, <2>4, <2>7, <2>9
<1>3. CASE HIncrBy(c)
  <2>1. k0.cmd = "HINCRBY"
    BY <1>3 DEF HIncrBy, Sent
  <2>2. PICK m : m = nack[k0.copy.ref] + 1
    OBVIOUS
  <2>3. Continue(c, [k0 EXCEPT !.count = m])
    BY <1>3, <2>2 DEF HIncrBy
  <2>4. k0 \in Calls /\ InOrder(k0) /\ k0.copy \in Copies
    <3>1. k0 \in Calls /\ InOrder(k0) /\ k0.copy \in {NoCopy} \cup Copies
      BY <2>1, CallFacts
    <3> QED
      BY <2>1, <3>1 DEF InOrder
  <2>5. m \in Nat
    BY <2>2, <2>4 DEF CoreInv, TypeInv, Copies
  <2>6. PICK k : k = [k0 EXCEPT !.count = m]
    OBVIOUS
  <2>7. k \in Calls /\ k.op = k0.op /\ k.cmd = k0.cmd /\ k.todo = k0.todo /\ k.copy = k0.copy
    BY <2>4, <2>5, <2>6 DEF Calls
  <2>8. InOrder(k)
    <3>1. k.op # "idle"
      BY <2>1, <2>4, <2>7 DEF InOrder, Idle
    <3> QED
      BY <2>1, <2>4, <2>7, <3>1 DEF InOrder
  <2>9. Onward(c, k0, k, a)
    <3>1. Continue(c, k) /\ k0.cmd # "none"
      BY <2>1, <2>3, <2>6
    <3> QED
      BY <2>7, <2>8, <3>1, GoesOn
  <2> QED
    BY <2>1, <2>7, <2>9
<1> QED
  BY <1>1, <1>2, <1>3

\* RPOP of the oldest copy y.
LEMMA RPopMoves ==
    ASSUME CoreInv, NEW c \in Clients, RPop(c), pending # <<>>,
           NEW k0, k0 = call[c], NEW a, a = call'[c], NEW y, y = pending[1]
    PROVE  \E k : /\ Onward(c, k0, k, a) /\ k.copy = y /\ k.op = "claim" /\ k.cmd = "RPOP"
                  /\ y \in Copies /\ pending' = Tail(pending)
<1>1. k0.cmd = "RPOP"
  BY DEF RPop, Sent
<1>2. pending \in Seq(Copies)
  BY DEF CoreInv, TypeInv
<1>3. Head(pending) = y /\ y \in Copies
  BY <1>2, HeadTail
<1>4. PICK k : k = [k0 EXCEPT !.copy = y]
  OBVIOUS
<1>5. pending' = Tail(pending) /\ Continue(c, k)
  BY <1>3, <1>4 DEF RPop
<1>6. k0 \in Calls /\ InOrder(k0) /\ k0.op = "claim"
  BY <1>1, CallFacts, SentKinds
<1>7. k \in Calls /\ k.op = k0.op /\ k.cmd = k0.cmd /\ k.todo = k0.todo /\ k.copy = y
  BY <1>3, <1>4, <1>6 DEF Calls
<1>8. InOrder(k)
  BY <1>1, <1>6, <1>7 DEF InOrder
<1>9. k0.cmd # "none"
  BY <1>1
<1>10. Onward(c, k0, k, a)
  BY <1>5, <1>7, <1>8, <1>9, GoesOn
<1> QED
  BY <1>1, <1>3, <1>5, <1>6, <1>7, <1>10

\* A Claim that finds nothing ends, and any call ends when its connection breaks.
LEMMA EndMoves ==
    ASSUME CoreInv, NEW c \in Clients, call' = [call EXCEPT ![c] = Idle], NEW k, k = call[c]
    PROVE  \E a : /\ a = Idle /\ Moves(c, k, a) /\ a.cmd = "none" /\ a.copy = NoCopy
                  /\ ~Taken(a) /\ \A r : ~Dooms(a, r)
<1>1. PICK a : a = Idle
  OBVIOUS
<1>2. call' = [call EXCEPT ![c] = a]
  BY <1>1
<1>3. Moves(c, k, a)
  BY <1>2, CallMoves
<1>4. a.cmd = "none" /\ a.copy = NoCopy
  BY <1>1 DEF Idle
<1> QED
  BY <1>1, <1>3, <1>4 DEF Taken, Dooms

\* LREM of a letter j, or of none.
LEMMA LRemMoves ==
    ASSUME CoreInv, NEW c \in Clients, LRem(c), NEW k0, k0 = call[c], NEW a, a = call'[c]
    PROVE  \E k : /\ Onward(c, k0, k, a) /\ k.op = "revive" /\ k.cmd = "LREM"
                  /\ \/ dead' = dead /\ k.copy = k0.copy
                     \/ \E j \in 1..Len(dead) : /\ dead' = RemoveAt(dead, j)
                                                /\ k.copy = dead[j] /\ dead[j] \in Copies
<1> DEFINE of == {i \in 1..Len(dead) : dead[i].ref = Item(c)}
<1>1. k0.cmd = "LREM" /\ k0.cmd # "none"
  BY DEF LRem, Sent
<1>2. k0 \in Calls /\ InOrder(k0) /\ k0.op = "revive"
  BY <1>1, CallFacts, SentKinds
<1>3. dead \in Seq(Copies) /\ Len(dead) \in Nat
  BY DEF CoreInv, TypeInv
<1>4. CASE of = {}
  <2>1. Continue(c, call[c]) /\ dead' = dead
    BY <1>4 DEF LRem
  <2>2. Onward(c, k0, k0, a)
    BY <1>1, <2>1, GoesPlainlyOn
  <2> QED
    BY <1>1, <1>2, <2>1, <2>2
<1>5. CASE of # {}
  <2>1. PICK j : j = Max(of)
    OBVIOUS
  <2>2. j \in 1..Len(dead)
    <3>1. of \subseteq 1..Len(dead)
      OBVIOUS
    <3>2. Max(of) \in of
      <4> HIDE DEF of
      <4> QED
        BY <1>3, <1>5, <3>1, MaxIn
    <3> QED
      BY <2>1, <3>1, <3>2
  <2>3. PICK k : k = [k0 EXCEPT !.copy = dead[j]]
    OBVIOUS
  <2>4. dead' = RemoveAt(dead, j) /\ Continue(c, k)
    BY <1>5, <2>1, <2>3 DEF LRem
  <2>5. dead[j] \in Copies
    BY <1>3, <2>2
  <2>6. k \in Calls /\ k.op = k0.op /\ k.cmd = k0.cmd /\ k.todo = k0.todo /\ k.copy = dead[j]
    BY <1>2, <2>3, <2>5 DEF Calls
  <2>7. InOrder(k)
    BY <1>1, <1>2, <2>6 DEF InOrder
  <2>8. Onward(c, k0, k, a)
    BY <1>1, <2>4, <2>6, <2>7, GoesOn
  <2> QED
    BY <1>1, <1>2, <2>2, <2>4, <2>5, <2>6, <2>8
<1> QED
  BY <1>4, <1>5

\* LPUSH and LPUSH dead.
LEMMA PushMoves ==
    ASSUME CoreInv, NEW c \in Clients, LPush(c) \/ LPushDead(c), NEW k, k = call[c], NEW a, a = call'[c]
    PROVE  Onward(c, k, k, a) /\ k.copy \in Copies /\ k.cmd \in {"LPUSH", "LPUSH dead"}
<1>1. k.cmd \in {"LPUSH", "LPUSH dead"} /\ k.cmd # "none" /\ Continue(c, call[c])
  BY DEF LPush, LPushDead, Sent
<1>2. InOrder(k) /\ k.copy \in {NoCopy} \cup Copies
  BY <1>1, CallFacts
<1>3. k.copy \in Copies
  BY <1>1, <1>2 DEF InOrder
<1>4. Onward(c, k, k, a)
  BY <1>1, GoesPlainlyOn
<1> QED
  BY <1>1, <1>3, <1>4

\* A new call.
LEMMA RequestMoves ==
    ASSUME CoreInv, NEW c \in Clients, Requests(c)
    PROVE  /\ \E a : /\ Moves(c, Idle, a) /\ a.cmd \in {"RPOP", "HGET", "LREM"} /\ a.copy = NoCopy
                     /\ ~Taken(a) /\ \A r : ~Dooms(a, r)
           /\ UNCHANGED <<store, issuedReceipts, issued, acked, late, broken>>
<1>1. \A op, cmd, todo : Call(op, cmd, todo).cmd = cmd /\ Call(op, cmd, todo).copy = NoCopy
  BY DEF Call, Idle
<1>2. PICK a : Begin(c, a) /\ a.cmd \in {"RPOP", "HGET", "LREM"} /\ a.copy = NoCopy
  <2>1. ASSUME NEW max, Claim(c, max) PROVE \E a : Begin(c, a) /\ a.cmd = "RPOP" /\ a.copy = NoCopy
    BY <1>1, <2>1 DEF Claim
  <2>2. ASSUME NEW todo, Ack(c, todo) PROVE \E a : Begin(c, a) /\ a.cmd = "HGET" /\ a.copy = NoCopy
    BY <1>1, <2>2 DEF Ack
  <2>3. ASSUME NEW todo, NEW re, Nack(c, todo, re)
        PROVE  \E a : Begin(c, a) /\ a.cmd = "HGET" /\ a.copy = NoCopy
    <3>1. PICK a : a = [Call("nack", "HGET", todo) EXCEPT !.reason = re]
      OBVIOUS
    <3>2. Begin(c, a)
      BY <2>3, <3>1 DEF Nack
    <3>3. a.cmd = "HGET" /\ a.copy = NoCopy
      BY <3>1 DEF Call, Idle
    <3> QED
      BY <3>2, <3>3
  <2>4. ASSUME NEW todo, RequeueExpired(c, todo)
        PROVE  \E a : Begin(c, a) /\ a.cmd = "HGET" /\ a.copy = NoCopy
    BY <1>1, <2>4 DEF RequeueExpired
  <2>5. ASSUME NEW todo, RequeueDeadLetters(c, todo)
        PROVE  \E a : Begin(c, a) /\ a.cmd = "LREM" /\ a.copy = NoCopy
    BY <1>1, <2>5 DEF RequeueDeadLetters
  <2>6. \E a : Begin(c, a) /\ a.cmd \in {"RPOP", "HGET", "LREM"} /\ a.copy = NoCopy
    BY <2>1, <2>2, <2>3, <2>4, <2>5 DEF Requests
  <2> QED
    BY <2>6
<1>3. call[c] = Idle /\ call' = [call EXCEPT ![c] = a]
  BY <1>2 DEF Begin
<1>4. Moves(c, Idle, a)
  BY <1>3, CallMoves
<1> QED
  BY <1>2, <1>4 DEF Begin, Taken, Dooms

---------------------------------------------------------------------------
\* Claims are swept.  A step of one call keeps that as long as a claim it leaves
\* without an entry in the visibility set is one it made, or had none before.
LEMMA SweptMoves ==
    ASSUME ClaimsAreSwept, NEW c \in Clients, NEW k, NEW a, Moves(c, k, a), stuck \subseteq stuck',
           \A r \in DOMAIN claims' \ visibility' :
               \/ r \in DOMAIN claims \ visibility /\ (k.cmd = "ZADD" /\ Head(k.todo) = r => r \in stuck')
               \/ a.cmd = "ZADD" /\ Head(a.todo) = r
    PROVE  ClaimsAreSwept'
<1> SUFFICES ASSUME NEW r \in DOMAIN claims' \ visibility'
             PROVE  r \in stuck' \/ \E d \in Clients : call'[d].cmd = "ZADD" /\ Head(call'[d].todo) = r
  BY DEF ClaimsAreSwept, Sent, Item
<1>1. CASE a.cmd = "ZADD" /\ Head(a.todo) = r
  BY <1>1 DEF Moves
<1>2. CASE r \in DOMAIN claims \ visibility /\ (k.cmd = "ZADD" /\ Head(k.todo) = r => r \in stuck')
  <2>1. r \in stuck \/ \E d \in Clients : call[d].cmd = "ZADD" /\ Head(call[d].todo) = r
    BY <1>2 DEF ClaimsAreSwept, Sent, Item
  <2> QED
    BY <1>2, <2>1 DEF Moves
<1> QED
  BY <1>1, <1>2

LEMMA SweptCommand ==
    ASSUME CoreInv, ClaimsAreSwept, NEW c \in Clients, Command(c)
    PROVE  ClaimsAreSwept'
<1>1. PICK k, a : k = call[c] /\ a = call'[c]
  OBVIOUS
<1>2. stuck' = stuck
  BY DEF Command, RPop, HSet, ZAdd, HGet, HIncrBy, LPush, LPushDead, HDelClaim, ZRem, HDelNack, LRem, broken
<1>3. CASE RPop(c)
  <2>1. k.cmd = "RPOP" /\ UNCHANGED <<claims, visibility>>
    BY <1>1, <1>3 DEF RPop, Sent
  <2>2. Moves(c, k, a)
    <3>1. CASE pending = <<>>
      <4>1. call' = [call EXCEPT ![c] = Idle]
        BY <1>3, <3>1 DEF RPop
      <4> QED
        BY <1>1, <4>1, CallMoves
    <3>2. CASE pending # <<>>
      <4>1. PICK y : y = pending[1]
        OBVIOUS
      <4>2. PICK m : Onward(c, k, m, a)
        BY <1>1, <1>3, <3>2, <4>1, RPopMoves
      <4> QED
        BY <4>2 DEF Onward
    <3> QED
      BY <3>1, <3>2
  <2> QED
    BY <1>2, <2>1, <2>2, SweptMoves
<1>4. CASE HSet(c)
  <2>1. PICK r : r = issuedReceipts + 1
    OBVIOUS
  <2>2. HSetDone(c, k, r, a)
    BY <1>1, <1>4, <2>1, HSetFacts
  <2>3. /\ DOMAIN claims' = DOMAIN claims \cup {r} /\ k.cmd = "HSET" /\ a.cmd = "ZADD" /\ a.todo[1] = r
        /\ call' = [call EXCEPT ![c] = a] /\ Good(a, claims', r, lapsed, late)
    BY <2>2 DEF HSetDone
  <2>4. Head(a.todo) = r
    <3>1. a.op = "claim" /\ a \in Calls /\ InOrder(a)
      BY <2>2, <2>3 DEF HSetDone, Good
    <3>2. a.todo \in Seq(Refs \cup Nat) /\ a.todo # <<>>
      BY <3>1 DEF Calls, InOrder
    <3> QED
      BY <2>3, <3>2, HeadTail
  <2>5. Moves(c, k, a)
    BY <1>1, <2>3, CallMoves
  <2>6. visibility' = visibility
    BY <1>4 DEF HSet
  <2> QED
    BY <1>2, <2>3, <2>4, <2>5, <2>6, SweptMoves
<1>5. CASE ZAdd(c) \/ HGet(c) \/ HIncrBy(c) \/ ZRem(c) \/ HDelNack(c)
  <2>1. PICK m : Onward(c, k, m, a)
    BY <1>1, <1>5, RestMoves
  <2>2. /\ Moves(c, k, a) /\ Item(c) = k.todo[1] /\ Head(k.todo) = k.todo[1]
        /\ Informed(k, claims, late)
    BY <2>1 DEF Onward
  <2>3. claims' = claims
    BY <1>5 DEF ZAdd, HGet, HIncrBy, ZRem, HDelNack, store
  <2>4. CASE ZAdd(c)
    <3>1. visibility' = visibility \cup {Item(c)}
      BY <2>4 DEF ZAdd
    <3> QED
      BY <1>2, <2>2, <2>3, <3>1, SweptMoves
  <2>5. CASE ZRem(c)
    <3>1. k.cmd = "ZREM" /\ visibility' = visibility \ {Item(c)}
      BY <1>1, <2>5 DEF ZRem, Sent
    <3>2. Item(c) \notin DOMAIN claims
      BY <2>2, <3>1 DEF Informed
    <3> QED
      BY <1>2, <2>2, <2>3, <3>1, <3>2, SweptMoves
  <2>6. CASE HGet(c) \/ HIncrBy(c) \/ HDelNack(c)
    <3>1. k.cmd \in {"HGET", "HINCRBY", "HDEL nack"} /\ visibility' = visibility
      BY <1>1, <2>6 DEF HGet, HIncrBy, HDelNack, Sent, store
    <3> QED
      BY <1>2, <2>2, <2>3, <3>1, SweptMoves
  <2> QED
    BY <1>5, <2>4, <2>5, <2>6
<1>6. CASE LPush(c) \/ LPushDead(c) \/ LRem(c)
  <2>1. k.cmd \in {"LPUSH", "LPUSH dead", "LREM"} /\ UNCHANGED <<claims, visibility>>
    BY <1>1, <1>6 DEF LPush, LPushDead, LRem, Sent
  <2>2. \E m : Onward(c, k, m, a)
    BY <1>1, <1>6, PushMoves, LRemMoves
  <2>3. Moves(c, k, a)
    BY <2>2 DEF Onward
  <2> QED
    BY <1>2, <2>1, <2>3, SweptMoves
<1>7. CASE HDelClaim(c)
  <2>1. HDelClaimDone(c, k, a)
    BY <1>1, <1>7, HDelClaimFacts
  <2>2. k.cmd = "HDEL claims" /\ DOMAIN claims' \subseteq DOMAIN claims /\ call' = [call EXCEPT ![c] = a]
    BY <2>1 DEF HDelClaimDone
  <2>3. visibility' = visibility
    BY <1>7 DEF HDelClaim
  <2>4. Moves(c, k, a)
    BY <1>1, <2>2, CallMoves
  <2> QED
    BY <1>2, <2>2, <2>3, <2>4, SweptMoves
<1> QED
  BY <1>3, <1>4, <1>5, <1>6, <1>7 DEF Command

LEMMA SweptNext == CoreInv /\ ClaimsAreSwept /\ [Next]_vars => ClaimsAreSwept'
<1> SUFFICES ASSUME CoreInv, ClaimsAreSwept, [Next]_vars PROVE ClaimsAreSwept'
  OBVIOUS
<1>1. CASE UNCHANGED <<claims, visibility, stuck, call>>
  BY <1>1 DEF ClaimsAreSwept, Sent, Item
<1>2. ASSUME NEW c \in Clients, Requests(c) PROVE ClaimsAreSwept'
  <2>1. PICK k, a : k = Idle /\ Moves(c, k, a)
    BY <1>2, RequestMoves
  <2>2. k.cmd # "ZADD"
    BY <2>1 DEF Idle
  <2>3. UNCHANGED <<claims, visibility, stuck>>
    BY <1>2, RequestMoves DEF store, broken
  <2> QED
    BY <2>1, <2>2, <2>3, SweptMoves
<1>3. ASSUME NEW c \in Clients, Break(c) PROVE ClaimsAreSwept'
  <2>1. PICK k : k = call[c]
    OBVIOUS
  <2>2. call' = [call EXCEPT ![c] = Idle]
    BY <1>3 DEF Break
  <2>3. PICK a : Moves(c, k, a)
    BY <2>1, <2>2, EndMoves
  <2>4. /\ UNCHANGED <<claims, visibility>>
        /\ stuck' = IF k.cmd = "ZADD" THEN stuck \cup {Head(k.todo)} ELSE stuck
    BY <1>3, <2>1 DEF Break, store, Sent, Item
  <2> QED
    BY <2>3, <2>4, SweptMoves
<1>4. (\E refs \in BoundedSeq(Refs, MaxBatch) : EnqueueMany(refs)) \/ (\E r \in Receipts : Lapse(r))
      => UNCHANGED <<claims, visibility, stuck, call>>
  BY DEF EnqueueMany, Lapse, broken
<1>5. UNCHANGED vars => UNCHANGED <<claims, visibility, stuck, call>>
  BY DEF vars
<1> QED
  BY <1>1, <1>2, <1>3, <1>4, <1>5, SweptCommand DEF Next

\* RequeueExpired can find every claim: whatever calls interleave and break, a
\* receipt in the claims hash is in the visibility set, or its Claim has still to
\* send ZADD, or broke before it could.
THEOREM ClaimsAlwaysSwept == Spec => []ClaimsAreSwept
<1>1. Init => ClaimsAreSwept
  BY DEF Init, ClaimsAreSwept
<1> QED
  BY <1>1, InitCore, CoreNext, SweptNext, PTL DEF Spec

---------------------------------------------------------------------------
\* What a step of one call does to the places of a copy.
LEMMA HandsMove ==
    ASSUME NEW c \in Clients, NEW k, NEW a, Moves(c, k, a), NEW x
    PROVE  /\ (Hand(k, x) <=> Hand(a, x)) => InHands(x)' = InHands(x)
           /\ ~Hand(k, x) /\ Hand(a, x) => Gains(InHands(x), InHands(x)')
           /\ Hand(k, x) /\ ~Hand(a, x) => Loses(InHands(x), InHands(x)')
<1>1. /\ c \in InHands(x) <=> Hand(k, x)
      /\ c \in InHands(x)' <=> Hand(a, x)
      /\ \A d \in Clients : d # c => (d \in InHands(x)' <=> d \in InHands(x))
      /\ InHands(x) \subseteq Clients /\ InHands(x)' \subseteq Clients
  BY MovesHands
<1>2. PICK S, T : S = InHands(x) /\ T = InHands(x)'
  OBVIOUS
<1>3. /\ c \in S <=> Hand(k, x)
      /\ c \in T <=> Hand(a, x)
      /\ \A d \in Clients : d # c => (d \in T <=> d \in S)
      /\ S \subseteq Clients /\ T \subseteq Clients
  BY <1>1, <1>2
<1>4. (Hand(k, x) <=> Hand(a, x)) => T = S
  BY <1>3
<1>5. ~Hand(k, x) /\ Hand(a, x) => Gains(S, T)
  BY <1>3 DEF Gains, One
<1>6. Hand(k, x) /\ ~Hand(a, x) => Loses(S, T)
  BY <1>3 DEF Loses, One
<1> QED
  BY <1>2, <1>4, <1>5, <1>6

LEMMA FirmStays ==
    ASSUME NEW c \in Clients, NEW k, NEW a, Moves(c, k, a), NEW x, claims' = claims,
           \A r \in DOMAIN claims : claims[r] = x => (Dooms(k, r) <=> Dooms(a, r))
    PROVE  Firm(x)' = Firm(x)
<1>1. \A r \in DOMAIN claims : claims[r] = x => (Doomed(r)' <=> Doomed(r))
  BY MovesDooms
<1>2. Firm(x)' = {r \in DOMAIN claims : claims[r] = x /\ ~Doomed(r)'}
  BY DEF Firm
<1> QED
  BY <1>1, <1>2 DEF Firm

LEMMA LocatedStays ==
    ASSUME NEW c \in Clients, NEW k, NEW a, Moves(c, k, a), NEW x, a.copy = x => Located(x),
           InPending(x)' # {} => Located(x), InDead(x)' # {} => Located(x),
           \A r \in DOMAIN claims' : claims'[r] = x => Located(x)
    PROVE  Located(x)' => Located(x)
<1>1. (\E d \in Clients : call'[d].copy = x) => Located(x)
  <2>1. SUFFICES ASSUME NEW d \in Clients, call'[d].copy = x PROVE Located(x)
    OBVIOUS
  <2>2. CASE d = c
    BY <2>1, <2>2 DEF Moves
  <2>3. CASE d # c
    <3>1. call[d].copy = x
      BY <2>1, <2>3 DEF Moves
    <3> QED
      BY <3>1 DEF Located
  <2> QED
    BY <2>2, <2>3
<1>2. Located(x)' => \/ InPending(x)' # {} \/ InDead(x)' # {}
                     \/ (\E r \in DOMAIN claims' : claims'[r] = x)
                     \/ \E d \in Clients : call'[d].copy = x
  BY DEF Located
<1> QED
  BY <1>1, <1>2

\* A copy the step does not touch.
Still(x) ==
    /\ Same(InPending(x), InPending(x)') /\ Same(InDead(x), InDead(x)')
    /\ Same(InHands(x), InHands(x)') /\ Same(Firm(x), Firm(x)')

LEMMA StillStays ==
    ASSUME NEW x, Still(x), acked \cup dropped \subseteq acked' \cup dropped'
    PROVE  (Kept(x) => Kept(x)') /\ (Single(x) => Single(x)')
<1>1. Kept(x) => Kept(x)'
  BY DEF Still, Same, Kept
<1>2. Single(x) => Single(x)'
  BY OneOfSame DEF Still, Single
<1> QED
  BY <1>1, <1>2

\* A step of a call that moves no copy and dooms no claim.
LEMMA Bystander ==
    ASSUME NEW c \in Clients, NEW k, NEW a, Moves(c, k, a), NEW x,
           Hand(k, x) <=> Hand(a, x),
           \A r \in DOMAIN claims : Dooms(k, r) <=> Dooms(a, r),
           a.copy = x => Located(x),
           UNCHANGED <<pending, dead, claims, acked, dropped>>
    PROVE  Conserved(x)
<1>1. InPending(x)' = InPending(x) /\ InDead(x)' = InDead(x)
  BY DEF InPending, InDead, At
<1>2. InHands(x)' = InHands(x)
  BY HandsMove
<1>3. Firm(x)' = Firm(x)
  BY FirmStays
<1>4. Still(x)
  BY <1>1, <1>2, <1>3, SameRefl DEF Still
<1>5. (Kept(x) => Kept(x)') /\ (Single(x) => Single(x)')
  BY <1>4, StillStays
<1>6. Located(x)' => Located(x)
  <2>1. /\ InPending(x)' # {} => Located(x)
        /\ InDead(x)' # {} => Located(x)
        /\ \A r \in DOMAIN claims' : claims'[r] = x => Located(x)
    BY <1>1 DEF Located
  <2> QED
    BY <2>1, LocatedStays
<1> QED
  BY <1>5, <1>6 DEF Conserved

\* ZADD, HGET, HINCRBY, ZREM and HDEL nack.
LEMMA RestConserves ==
    ASSUME CoreInv, NEW c \in Clients, ZAdd(c) \/ HGet(c) \/ HIncrBy(c) \/ ZRem(c) \/ HDelNack(c),
           NEW x \in Copies
    PROVE  Conserved(x)
<1>1. PICK k0, a : k0 = call[c] /\ a = call'[c]
  OBVIOUS
<1>2. PICK k : /\ Onward(c, k0, k, a)
               /\ k0.cmd = "HGET" => k.copy = IF k.todo[1] \in DOMAIN claims
                                              THEN claims[k.todo[1]] ELSE NoCopy
               /\ k0.cmd # "HGET" => k.copy = k0.copy
  BY <1>1, RestMoves
<1>3. /\ Moves(c, k0, a) /\ Follows(k, a) /\ Informed(k0, claims, late)
      /\ k0 \in Calls /\ InOrder(k0) /\ k \in Calls /\ InOrder(k)
      /\ k.op = k0.op /\ k.cmd = k0.cmd /\ k.todo = k0.todo
      /\ k.op \in {"claim", "ack", "nack", "sweep", "revive"}
  BY <1>2 DEF Onward
<1>4. k.cmd \in {"ZADD", "HGET", "HINCRBY", "ZREM", "HDEL nack"}
  BY <1>1, <1>3 DEF ZAdd, HGet, HIncrBy, ZRem, HDelNack, Sent
<1>5. UNCHANGED <<pending, dead, claims, acked, dropped>>
  BY DEF ZAdd, HGet, HIncrBy, ZRem, HDelNack, store, broken
<1>6. x # NoCopy
  BY NoCopyAssumption
<1>7. a.copy = x => Located(x)
  <2>1. a.copy = x => k.copy = x
    BY <1>3, <1>6 DEF Follows
  <2>2. k.copy = k0.copy \/ k.copy = NoCopy \/ \E r \in DOMAIN claims : claims[r] = k.copy
    BY <1>2, <1>3
  <2> QED
    BY <1>1, <1>6, <2>1, <2>2 DEF Located
<1>8. ~Taken(k0) /\ ~Taken(a)
  <2>1. Following(k) # "HSET" /\ ~(k.op = "revive" /\ Following(k) = "LPUSH")
    BY <1>3, <1>4, FollowingKinds, SentKinds DEF ClaimNext, AckNext, NackNext, SweepNext, ReviveNext, Settles
  <2>2. ~Taken(k0)
    BY <1>3, <1>4 DEF Taken
  <2> QED
    BY <1>3, <2>1, <2>2 DEF Taken, Follows
<1>9. ASSUME NEW r \in DOMAIN claims PROVE Dooms(k0, r) <=> Dooms(a, r)
  <2>1. CASE k.op = "nack" /\ k.cmd = "HDEL nack"
    <3>1. Following(k) = "HDEL claims"
      BY <1>3, <2>1, FollowingKinds DEF NackNext
    <3>2. a.op = "nack" /\ a.cmd = "HDEL claims" /\ a.todo = k0.todo
      BY <1>3, <2>1, <3>1 DEF Follows
    <3> QED
      BY <1>3, <2>1, <3>2 DEF Dooms
  <2>2. CASE k.op = "nack" /\ k.cmd # "HDEL nack"
    <3>1. Following(k) \notin {"HDEL nack", "HDEL claims"}
      BY <1>3, <1>4, <2>2, FollowingKinds DEF NackNext
    <3>2. ~Dooms(a, r) /\ ~Dooms(k0, r)
      BY <1>3, <1>4, <2>2, <3>1 DEF Dooms, Follows
    <3> QED
      BY <3>2
  <2>3. CASE k.op = "sweep"
    <3>1. Following(k) = "HDEL claims" => k.cmd = "HGET" /\ k.copy = NoCopy
      BY <1>3, <1>4, <2>3, FollowingKinds DEF SweepNext
    <3>2. k.cmd = "HGET" /\ k.copy = NoCopy => k.todo[1] # r
      BY <1>2, <1>3, NoCopyAssumption DEF CoreInv, TypeInv
    <3>3. ~Dooms(a, r) /\ ~Dooms(k0, r)
      BY <1>3, <1>4, <2>3, <3>1, <3>2 DEF Dooms, Follows
    <3> QED
      BY <3>3
  <2>4. CASE k.op \in {"claim", "ack", "revive"}
    BY <1>3, <2>4 DEF Dooms, Follows
  <2> QED
    BY <1>3, <2>1, <2>2, <2>3, <2>4
<1> QED
  <2>1. Hand(k0, x) <=> Hand(a, x)
    BY <1>8 DEF Hand
  <2> QED
    BY <1>3, <1>5, <1>7, <1>9, <2>1, Bystander

\* RPOP: the oldest pending copy goes into the Claim's hands.
LEMMA RPopConserves ==
    ASSUME CoreInv, NEW c \in Clients, RPop(c), NEW x \in Copies
    PROVE  Conserved(x)
<1>1. PICK k0, a : k0 = call[c] /\ a = call'[c]
  OBVIOUS
<1>2. k0.cmd = "RPOP" /\ UNCHANGED <<dead, claims, acked, dropped>>
  BY <1>1 DEF RPop, Sent, broken
<1>3. ~Taken(k0) /\ \A r : ~Dooms(k0, r)
  BY <1>2 DEF Taken, Dooms
<1>4. x # NoCopy /\ pending \in Seq(Copies)
  BY NoCopyAssumption DEF CoreInv, TypeInv
<1>5. CASE pending = <<>>
  <2>1. call' = [call EXCEPT ![c] = Idle] /\ pending' = pending
    BY <1>5 DEF RPop
  <2>2. PICK b : Moves(c, k0, b) /\ b.copy = NoCopy /\ ~Taken(b) /\ \A r : ~Dooms(b, r)
    BY <1>1, <2>1, EndMoves
  <2>3. Hand(k0, x) <=> Hand(b, x)
    BY <1>3, <2>2 DEF Hand
  <2> QED
    BY <1>2, <1>3, <1>4, <2>1, <2>2, <2>3, Bystander
<1>6. CASE pending # <<>>
  <2>1. PICK y : y = pending[1]
    OBVIOUS
  <2>2. PICK k : /\ Onward(c, k0, k, a) /\ k.copy = y /\ k.op = "claim" /\ k.cmd = "RPOP"
                 /\ y \in Copies /\ pending' = Tail(pending)
    BY <1>1, <1>6, <2>1, RPopMoves
  <2>3. Moves(c, k0, a) /\ Follows(k, a) /\ k \in Calls /\ InOrder(k)
    BY <2>2 DEF Onward
  <2>4. Following(k) = "HSET"
    BY <2>2, <2>3, FollowingKinds DEF ClaimNext
  <2>5. a.op = "claim" /\ a.cmd = "HSET" /\ a.copy = y
    BY <2>2, <2>3, <2>4 DEF Follows
  <2>6. Firm(x)' = Firm(x) /\ InDead(x)' = InDead(x)
    <3>1. \A r : ~Dooms(a, r)
      BY <2>5 DEF Dooms
    <3>2. Firm(x)' = Firm(x)
      BY <1>2, <1>3, <2>3, <3>1, FirmStays
    <3> QED
      BY <1>2, <3>2 DEF InDead, At
  <2>7. /\ y # x => Same(InPending(x), InPending(x)')
        /\ y = x => Loses(InPending(x), InPending(x)')
    <3>1. PICK s, t : s = pending /\ t = pending'
      OBVIOUS
    <3>2. /\ \A z : z # s[1] => Same(At(s, z), At(t, z))
          /\ Loses(At(s, s[1]), At(t, s[1]))
      BY <1>4, <1>6, <2>2, <3>1, TailAt
    <3>3. InPending(x) = At(s, x) /\ InPending(x)' = At(t, x)
      BY <3>1 DEF InPending, At
    <3> QED
      BY <2>1, <3>1, <3>2, <3>3
  <2>8. Located(x)' => Located(x)
    <3>1. y = x => InPending(x) # {}
      BY <2>7 DEF Loses
    <3>2. a.copy = x => Located(x)
      BY <2>5, <3>1 DEF Located
    <3>3. /\ InPending(x)' # {} => Located(x)
          /\ InDead(x)' # {} => Located(x)
          /\ \A r \in DOMAIN claims' : claims'[r] = x => Located(x)
      BY <1>2, <2>6, <2>7, <3>1 DEF Located, Same
    <3> QED
      BY <2>3, <3>2, <3>3, LocatedStays
  <2>9. CASE y # x
    <3>1. Hand(k0, x) <=> Hand(a, x)
      BY <1>3, <2>5, <2>9 DEF Hand
    <3>2. Still(x)
      BY <2>3, <2>6, <2>7, <2>9, <3>1, HandsMove, SameRefl DEF Still
    <3>3. (Kept(x) => Kept(x)') /\ (Single(x) => Single(x)')
      BY <1>2, <3>2, StillStays
    <3> QED
      BY <2>8, <3>3 DEF Conserved
  <2>10. CASE y = x
    <3>1. ~Hand(k0, x) /\ Hand(a, x)
      BY <1>3, <2>5, <2>10 DEF Hand, Taken
    <3>2. Gains(InHands(x), InHands(x)')
      BY <2>3, <3>1, HandsMove
    <3>3. Kept(x)'
      BY <3>2 DEF Gains, Kept
    <3>4. Single(x) => Single(x)'
      BY <2>6, <2>7, <2>10, <3>2, PendingToHand, SameRefl DEF Single
    <3> QED
      BY <2>8, <3>3, <3>4 DEF Conserved
  <2> QED
    BY <2>9, <2>10
<1> QED
  BY <1>5, <1>6

\* HSET: the copy in the Claim's hands becomes a claim that nobody dooms.
LEMMA HSetConserves ==
    ASSUME CoreInv, NEW c \in Clients, HSet(c), NEW x \in Copies
    PROVE  Conserved(x)
<1>1. PICK k, a : k = call[c] /\ a = call'[c]
  OBVIOUS
<1>2. PICK r : r = issuedReceipts + 1
  OBVIOUS
<1>3. HSetDone(c, k, r, a)
  BY <1>1, <1>2, HSetFacts
<1>4. /\ k.op = "claim" /\ k.cmd = "HSET"
      /\ r \notin DOMAIN claims /\ r \notin 1..issuedReceipts
      /\ DOMAIN claims' = DOMAIN claims \cup {r} /\ claims'[r] = k.copy
      /\ \A q \in DOMAIN claims : claims'[q] = claims[q]
      /\ call' = [call EXCEPT ![c] = a] /\ a.op = "claim" /\ a.cmd = "ZADD"
  BY <1>3 DEF HSetDone
<1>5. Moves(c, k, a)
  BY <1>1, <1>4, CallMoves
<1>6. UNCHANGED <<pending, dead, acked, dropped>>
  BY DEF HSet, broken
<1>7. InPending(x)' = InPending(x) /\ InDead(x)' = InDead(x)
  BY <1>6 DEF InPending, InDead, At
<1>8. \A q : Doomed(q)' <=> Doomed(q)
  <2>1. \A q : ~Dooms(k, q) /\ ~Dooms(a, q)
    BY <1>4 DEF Dooms
  <2> QED
    BY <1>5, <2>1, MovesDooms
<1>9. ~Doomed(r)
  <2>1. SUFFICES ASSUME NEW d \in Clients, Dooms(call[d], r) PROVE FALSE
    BY DEF Doomed
  <2>2. PICK m : m = call[d]
    OBVIOUS
  <2>3. m.op \in {"nack", "sweep"} /\ m.cmd # "none" /\ m.todo[1] = r
    BY <2>1, <2>2 DEF Dooms
  <2>4. Steady(m, issuedReceipts, lapsed) /\ 1 \in 1..Len(m.todo)
    BY <2>2, <2>3, CallFacts
  <2> QED
    BY <1>4, <2>3, <2>4 DEF Steady, Settles
<1>10. Firm(x)' = IF k.copy = x THEN Firm(x) \cup {r} ELSE Firm(x)
  <2>1. Firm(x)' = {q \in DOMAIN claims' : claims'[q] = x /\ ~Doomed(q)'}
    BY DEF Firm
  <2>2. Firm(x)' = {q \in DOMAIN claims \cup {r} : claims'[q] = x /\ ~Doomed(q)}
    BY <1>4, <1>8, <2>1
  <2> QED
    BY <1>4, <1>9, <2>2 DEF Firm
<1>11. Hand(k, x) <=> k.copy = x
  BY <1>4 DEF Hand, Taken
<1>12. ~Hand(a, x)
  BY <1>4 DEF Hand, Taken
<1>13. Located(x)' => Located(x)
  <2>1. k.copy = x => Located(x)
    BY <1>1 DEF Located
  <2>2. a.copy = k.copy
    BY <1>3 DEF HSetDone
  <2>3. /\ InPending(x)' # {} => Located(x)
        /\ InDead(x)' # {} => Located(x)
        /\ \A q \in DOMAIN claims' : claims'[q] = x => Located(x)
    BY <1>4, <1>7, <2>1 DEF Located
  <2> QED
    BY <1>5, <2>1, <2>2, <2>3, LocatedStays
<1>14. CASE k.copy # x
  <2>1. Still(x)
    BY <1>5, <1>7, <1>10, <1>11, <1>12, <1>14, HandsMove, SameRefl DEF Still
  <2>2. (Kept(x) => Kept(x)') /\ (Single(x) => Single(x)')
    BY <1>6, <2>1, StillStays
  <2> QED
    BY <1>13, <2>2 DEF Conserved
<1>15. CASE k.copy = x
  <2>1. Loses(InHands(x), InHands(x)')
    BY <1>5, <1>11, <1>12, <1>15, HandsMove
  <2>2. Gains(Firm(x), Firm(x)')
    <3>1. PICK S : S = Firm(x)
      OBVIOUS
    <3>2. Gains(S, S \cup {r})
      BY DEF Gains, One
    <3> QED
      BY <1>10, <1>15, <3>1, <3>2
  <2>3. Kept(x)'
    BY <2>2 DEF Gains, Kept
  <2>4. Single(x) => Single(x)'
    BY <1>7, <2>1, <2>2, HandToClaim, SameRefl DEF Single
  <2> QED
    BY <1>13, <2>3, <2>4 DEF Conserved
<1> QED
  BY <1>14, <1>15

\* The claim of a copy that is not late is in one pair of hands: when a Nack
\* pushes the copy, no other call dooms its claim.
LEMMA NackAlone ==
    ASSUME CoreInv, NEW c \in Clients, NEW k, k = call[c], k.op = "nack", k.cmd # "none",
           NEW r, r = k.todo[1], r \in DOMAIN claims, claims[r] \notin late,
           NEW d \in Clients, d # c
    PROVE  ~Dooms(call[d], r)
<1> SUFFICES ASSUME Dooms(call[d], r) PROVE FALSE
  OBVIOUS
<1>1. PICK m : m = call[d]
  OBVIOUS
<1>2. m.op \in {"nack", "sweep"} /\ m.cmd # "none" /\ m.todo[1] = r
  BY <1>1 DEF Dooms
<1>3. /\ Steady(m, issuedReceipts, lapsed) /\ 1 \in 1..Len(m.todo)
      /\ m.todo \in Seq(Refs \cup Nat) /\ m.todo # <<>>
  BY <1>1, <1>2, CallFacts
<1>4. k.todo \in Seq(Refs \cup Nat) /\ k.todo # <<>>
  BY CallFacts
<1>5. CASE m.op = "sweep"
  <2>1. r \in lapsed
    BY <1>2, <1>3, <1>5 DEF Steady
  <2> QED
    BY <2>1 DEF CoreInv, LapsedLate
<1>6. CASE m.op = "nack"
  <2>1. r \in Range(m.todo) /\ r \in Range(k.todo)
    BY <1>2, <1>3, <1>4, TailRange
  <2>2. r \in Owns(m) /\ r \in Owns(k)
    BY <1>6, <2>1 DEF Owns
  <2>3. Owns(call[c]) \cap Owns(call[d]) = {}
    BY DEF CoreInv, ReceiptsOwned
  <2> QED
    BY <1>1, <2>2, <2>3
<1> QED
  BY <1>2, <1>5, <1>6

\* A Nack or a sweep that pushes the payload of its claim dooms the claim.
LEMMA PushDooms ==
    ASSUME CoreInv, NEW c \in Clients, NEW k, NEW a, Onward(c, k, k, a), k.copy \in Copies,
           \/ k.op \in {"nack", "sweep"} /\ k.cmd = "LPUSH"
           \/ k.op = "nack" /\ k.cmd = "LPUSH dead",
           claims' = claims, late' = late, NEW x \in Copies
    PROVE  /\ InHands(x)' = InHands(x)
           /\ x # k.copy => Firm(x)' = Firm(x)
           /\ x = k.copy /\ x \notin late' => Loses(Firm(x), Firm(x)')
           /\ a.copy = k.copy
<1>1. /\ Moves(c, k, a) /\ Follows(k, a) /\ k \in Calls /\ InOrder(k)
      /\ Informed(k, claims, late)
  BY DEF Onward
<1>2. Following(k) \in {"HDEL claims", "HDEL nack"} /\ (k.op = "sweep" => Following(k) = "HDEL claims")
  BY <1>1, FollowingKinds DEF NackNext, SweepNext
<1>3. a.op = k.op /\ a.cmd = Following(k) /\ a.copy = k.copy /\ a.todo = k.todo
  BY <1>1, <1>2 DEF Follows
<1>4. PICK r : r = k.todo[1]
  OBVIOUS
<1>5. \A q : (Dooms(a, q) <=> q = r) /\ ~Dooms(k, q)
  BY <1>2, <1>3, <1>4 DEF Dooms
<1>6. r \in DOMAIN claims => claims[r] = k.copy
  BY <1>1, <1>4 DEF Informed, Settles
<1>7. InHands(x)' = InHands(x)
  <2>1. ~Hand(k, x) /\ ~Hand(a, x)
    BY <1>2, <1>3 DEF Hand, Taken
  <2> QED
    BY <1>1, <2>1, HandsMove
<1>8. ASSUME x # k.copy PROVE Firm(x)' = Firm(x)
  <2>1. \A q \in DOMAIN claims : claims[q] = x => (Dooms(k, q) <=> Dooms(a, q))
    BY <1>5, <1>6, <1>8
  <2> QED
    BY <1>1, <2>1, FirmStays
<1>9. ASSUME x = k.copy, x \notin late' PROVE Loses(Firm(x), Firm(x)')
  <2>1. k.op = "nack" /\ r \in DOMAIN claims /\ claims[r] = x
    BY <1>1, <1>4, <1>6, <1>9, NoCopyAssumption DEF Informed
  <2>2. Doomed(r)'
    BY <1>1, <1>5, MovesDooms
  <2>3. ~Doomed(r)
    <3>1. \A d \in Clients : d # c => ~Dooms(call[d], r)
      <4>1. k = call[c] /\ k.cmd # "none" /\ claims[r] \notin late
        BY <1>1, <1>9, <2>1 DEF Moves
      <4> QED
        BY <1>4, <2>1, <4>1, NackAlone
    <3> QED
      BY <1>1, <1>5, <3>1, MovesDooms
  <2>4. r \in Firm(x) /\ r \notin Firm(x)'
    <3>1. Firm(x)' = {q \in DOMAIN claims : claims[q] = x /\ ~Doomed(q)'}
      BY DEF Firm
    <3> QED
      BY <2>1, <2>2, <2>3, <3>1 DEF Firm
  <2>5. Firm(x)' \subseteq Firm(x)
    <3>1. \A q : Doomed(q) => Doomed(q)'
      BY <1>1, <1>5, MovesDooms
    <3>2. Firm(x)' = {q \in DOMAIN claims : claims[q] = x /\ ~Doomed(q)'}
      BY DEF Firm
    <3> QED
      BY <3>1, <3>2 DEF Firm
  <2>6. PICK S, T : S = Firm(x) /\ T = Firm(x)'
    OBVIOUS
  <2>7. Loses(S, T)
    BY <2>4, <2>5, <2>6 DEF Loses, One
  <2> QED
    BY <2>6, <2>7
<1> QED
  BY <1>3, <1>7, <1>8, <1>9

LEMMA LPushConserves ==
    ASSUME CoreInv, NEW c \in Clients, LPush(c), NEW x \in Copies
    PROVE  Conserved(x)
<1>1. PICK k, a : k = call[c] /\ a = call'[c]
  OBVIOUS
<1>2. Onward(c, k, k, a) /\ k.copy \in Copies
  BY <1>1, PushMoves
<1>3. k.cmd = "LPUSH" /\ UNCHANGED <<dead, claims, acked, dropped, late>>
  BY <1>1 DEF LPush, Sent, broken
<1>4. /\ Moves(c, k, a) /\ Follows(k, a) /\ k \in Calls /\ InOrder(k)
      /\ k.op \in {"claim", "ack", "nack", "sweep", "revive"}
  BY <1>2 DEF Onward
<1>5. k.op \in {"nack", "sweep", "revive"}
  BY <1>3, <1>4, SentKinds
<1>6. InDead(x)' = InDead(x)
  BY <1>3 DEF InDead, At
<1>7. /\ k.copy # x => InPending(x)' = InPending(x)
      /\ k.copy = x => Gains(InPending(x), InPending(x)')
  <2>1. PICK s, t : s = pending /\ t = pending'
    OBVIOUS
  <2>2. s \in Seq(Copies) /\ t = Append(s, k.copy)
    BY <1>1, <2>1 DEF CoreInv, TypeInv, LPush
  <2>3. /\ \A z : z # k.copy => At(t, z) = At(s, z)
        /\ Gains(At(s, k.copy), At(t, k.copy))
    <3>1. PICK y : y = k.copy
      OBVIOUS
    <3>2. y \in Copies /\ t = Append(s, y)
      BY <1>2, <2>2, <3>1
    <3>3. /\ \A z : z # y => At(t, z) = At(s, z)
          /\ Gains(At(s, y), At(t, y))
      BY <2>2, <3>2, AppendAt
    <3> QED
      BY <3>1, <3>3
  <2>4. InPending(x) = At(s, x) /\ InPending(x)' = At(t, x)
    BY <2>1 DEF InPending, At
  <2> QED
    BY <2>3, <2>4
<1>8. ASSUME a.copy = k.copy PROVE Located(x)' => Located(x)
  <2>1. k.copy = x => Located(x)
    BY <1>1 DEF Located
  <2>2. /\ InPending(x)' # {} => Located(x)
        /\ InDead(x)' # {} => Located(x)
        /\ \A q \in DOMAIN claims' : claims'[q] = x => Located(x)
    BY <1>3, <1>6, <1>7, <2>1 DEF Located
  <2> QED
    BY <1>4, <1>8, <2>1, <2>2, LocatedStays
<1>9. CASE k.op = "revive"
  <2>1. Following(k) = "HDEL nack"
    BY <1>3, <1>4, <1>9, FollowingKinds DEF ReviveNext
  <2>2. a.op = "revive" /\ a.cmd = "HDEL nack" /\ a.copy = k.copy
    BY <1>4, <1>9, <2>1 DEF Follows
  <2>3. Firm(x)' = Firm(x)
    <3>1. \A q : ~Dooms(a, q) /\ ~Dooms(k, q)
      BY <1>9, <2>2 DEF Dooms
    <3> QED
      BY <1>3, <1>4, <3>1, FirmStays
  <2>4. ~Hand(a, x) /\ (Hand(k, x) <=> k.copy = x)
    BY <1>3, <1>9, <2>2 DEF Hand, Taken
  <2>5. CASE k.copy # x
    <3>1. Still(x)
      BY <1>4, <1>6, <1>7, <2>3, <2>4, <2>5, HandsMove, SameRefl DEF Still
    <3>2. (Kept(x) => Kept(x)') /\ (Single(x) => Single(x)')
      BY <1>3, <3>1, StillStays
    <3> QED
      BY <1>8, <2>2, <3>2 DEF Conserved
  <2>6. CASE k.copy = x
    <3>1. Loses(InHands(x), InHands(x)')
      BY <1>4, <2>4, <2>6, HandsMove
    <3>2. Kept(x)'
      BY <1>7, <2>6 DEF Gains, Kept
    <3>3. Single(x) => Single(x)'
      BY <1>6, <1>7, <2>3, <2>6, <3>1, HandToPending, SameRefl DEF Single
    <3> QED
      BY <1>8, <2>2, <3>2, <3>3 DEF Conserved
  <2> QED
    BY <2>5, <2>6
<1>10. CASE k.op \in {"nack", "sweep"}
  <2>1. /\ InHands(x)' = InHands(x)
        /\ x # k.copy => Firm(x)' = Firm(x)
        /\ x = k.copy /\ x \notin late' => Loses(Firm(x), Firm(x)')
        /\ a.copy = k.copy
    BY <1>2, <1>3, <1>10, PushDooms
  <2>2. CASE k.copy # x
    <3>1. Still(x)
      BY <1>6, <1>7, <2>1, <2>2, SameRefl DEF Still
    <3>2. (Kept(x) => Kept(x)') /\ (Single(x) => Single(x)')
      BY <1>3, <3>1, StillStays
    <3> QED
      BY <1>8, <2>1, <3>2 DEF Conserved
  <2>3. CASE k.copy = x
    <3>1. Kept(x)'
      BY <1>7, <2>3 DEF Gains, Kept
    <3>2. x \notin late' /\ Single(x) => Single(x)'
      BY <1>6, <1>7, <2>1, <2>3, ClaimToPending, SameRefl DEF Single
    <3> QED
      BY <1>8, <2>1, <3>1, <3>2 DEF Conserved
  <2> QED
    BY <2>2, <2>3
<1> QED
  BY <1>5, <1>9, <1>10

LEMMA LPushDeadConserves ==
    ASSUME CoreInv, NEW c \in Clients, LPushDead(c), NEW x \in Copies
    PROVE  Conserved(x)
<1>1. PICK k, a : k = call[c] /\ a = call'[c]
  OBVIOUS
<1>2. Onward(c, k, k, a) /\ k.copy \in Copies
  BY <1>1, PushMoves
<1>3. k.cmd = "LPUSH dead" /\ UNCHANGED <<pending, claims, acked, dropped, late>>
  BY <1>1 DEF LPushDead, Sent, broken
<1>4. Moves(c, k, a) /\ k.op = "nack"
  BY <1>2, <1>3, SentKinds DEF Onward
<1>5. InPending(x)' = InPending(x)
  BY <1>3 DEF InPending, At
<1>6. /\ k.copy # x => InDead(x)' = InDead(x)
      /\ k.copy = x => Gains(InDead(x), InDead(x)')
  <2>1. PICK s, t : s = dead /\ t = dead'
    OBVIOUS
  <2>2. s \in Seq(Copies) /\ t = Append(s, k.copy)
    BY <1>1, <2>1 DEF CoreInv, TypeInv, LPushDead
  <2>3. /\ \A z : z # k.copy => At(t, z) = At(s, z)
        /\ Gains(At(s, k.copy), At(t, k.copy))
    <3>1. PICK y : y = k.copy
      OBVIOUS
    <3>2. y \in Copies /\ t = Append(s, y)
      BY <1>2, <2>2, <3>1
    <3>3. /\ \A z : z # y => At(t, z) = At(s, z)
          /\ Gains(At(s, y), At(t, y))
      BY <2>2, <3>2, AppendAt
    <3> QED
      BY <3>1, <3>3
  <2>4. InDead(x) = At(s, x) /\ InDead(x)' = At(t, x)
    BY <2>1 DEF InDead, At
  <2> QED
    BY <2>3, <2>4
<1>7. /\ InHands(x)' = InHands(x)
      /\ x # k.copy => Firm(x)' = Firm(x)
      /\ x = k.copy /\ x \notin late' => Loses(Firm(x), Firm(x)')
      /\ a.copy = k.copy
  BY <1>2, <1>3, <1>4, PushDooms
<1>8. Located(x)' => Located(x)
  <2>1. k.copy = x => Located(x)
    BY <1>1 DEF Located
  <2>2. /\ InPending(x)' # {} => Located(x)
        /\ InDead(x)' # {} => Located(x)
        /\ \A q \in DOMAIN claims' : claims'[q] = x => Located(x)
    BY <1>3, <1>5, <1>6, <2>1 DEF Located
  <2> QED
    BY <1>4, <1>7, <2>1, <2>2, LocatedStays
<1>9. CASE k.copy # x
  <2>1. Still(x)
    BY <1>5, <1>6, <1>7, <1>9, SameRefl DEF Still
  <2>2. (Kept(x) => Kept(x)') /\ (Single(x) => Single(x)')
    BY <1>3, <2>1, StillStays
  <2> QED
    BY <1>8, <2>2 DEF Conserved
<1>10. CASE k.copy = x
  <2>1. Kept(x)'
    BY <1>6, <1>10 DEF Gains, Kept
  <2>2. x \notin late' /\ Single(x) => Single(x)'
    BY <1>5, <1>6, <1>7, <1>10, ClaimToDead, SameRefl DEF Single
  <2> QED
    BY <1>8, <2>1, <2>2 DEF Conserved
<1> QED
  BY <1>9, <1>10

\* HDEL claims: an Ack's copy is acked; a Nack or a sweep has pushed it before.
LEMMA HDelClaimConserves ==
    ASSUME CoreInv, NEW c \in Clients, HDelClaim(c), NEW x \in Copies
    PROVE  Conserved(x)
<1>1. PICK k, a : k = call[c] /\ a = call'[c]
  OBVIOUS
<1>2. HDelClaimDone(c, k, a)
  BY <1>1, HDelClaimFacts
<1>3. /\ k \in Calls /\ Settles(k) /\ k.cmd = "HDEL claims" /\ Item(c) = k.todo[1]
      /\ call' = [call EXCEPT ![c] = a]
      /\ a.op = k.op /\ a.cmd = "ZREM" /\ a.copy = k.copy
      /\ DOMAIN claims' = DOMAIN claims \ {k.todo[1]}
      /\ \A r \in DOMAIN claims' : claims'[r] = claims[r]
  BY <1>2 DEF HDelClaimDone
<1>4. Moves(c, k, a)
  BY <1>1, <1>3, CallMoves
<1>5. UNCHANGED <<pending, dead, dropped>>
  BY DEF HDelClaim, broken
<1>6. InPending(x)' = InPending(x) /\ InDead(x)' = InDead(x)
  BY <1>5 DEF InPending, InDead, At
<1>7. InHands(x)' = InHands(x)
  <2>1. ~Hand(k, x) /\ ~Hand(a, x)
    BY <1>3 DEF Hand, Taken
  <2> QED
    BY <1>4, <2>1, HandsMove
<1>8. PICK r : r = k.todo[1]
  OBVIOUS
<1>9. \A q : ~Dooms(a, q) /\ (Dooms(k, q) <=> q = r /\ k.op # "ack")
  BY <1>3, <1>8 DEF Dooms, Settles
<1>10. Firm(x)' = Firm(x) \ {r} /\ (k.op # "ack" => r \notin Firm(x))
  <2>1. \A q : q # r => (Doomed(q)' <=> Doomed(q))
    BY <1>4, <1>9, MovesDooms
  <2>2. k.op # "ack" => Doomed(r)
    BY <1>4, <1>9, MovesDooms
  <2>3. Firm(x)' = {q \in DOMAIN claims' : claims'[q] = x /\ ~Doomed(q)'}
    BY DEF Firm
  <2>4. Firm(x)' = {q \in DOMAIN claims \ {r} : claims[q] = x /\ ~Doomed(q)}
    BY <1>3, <1>8, <2>1, <2>3
  <2> QED
    BY <2>2, <2>4 DEF Firm
<1>11. acked' = IF k.op = "ack" /\ r \in DOMAIN claims THEN acked \cup {claims[r]} ELSE acked
  BY <1>1, <1>3, <1>8 DEF HDelClaim
<1>12. Kept(x) => Kept(x)'
  <2>1. r \in Firm(x) => x \in acked'
    BY <1>10, <1>11 DEF Firm
  <2>2. acked \subseteq acked'
    BY <1>11
  <2>3. Firm(x) # {} => Firm(x)' # {} \/ r \in Firm(x)
    BY <1>10
  <2> QED
    BY <1>5, <1>6, <1>7, <2>1, <2>2, <2>3 DEF Kept
<1>13. Single(x) => Single(x)'
  <2>1. Firm(x)' \subseteq Firm(x)
    BY <1>10
  <2> QED
    BY <1>6, <1>7, <2>1, OneOfShrinks DEF Single
<1>14. Located(x)' => Located(x)
  <2>1. k.copy = x => Located(x)
    BY <1>1 DEF Located
  <2>2. /\ InPending(x)' # {} => Located(x)
        /\ InDead(x)' # {} => Located(x)
        /\ \A q \in DOMAIN claims' : claims'[q] = x => Located(x)
    BY <1>3, <1>6 DEF Located
  <2> QED
    BY <1>3, <1>4, <2>1, <2>2, LocatedStays
<1> QED
  BY <1>12, <1>13, <1>14 DEF Conserved

\* A call about to look for a dead letter holds none.
HandsFree == \A d \in Clients : call[d].cmd = "LREM" => call[d].copy = NoCopy

\* LREM: a dead letter goes into the call's hands.
LEMMA LRemConserves ==
    ASSUME CoreInv, HandsFree, NEW c \in Clients, LRem(c), NEW x \in Copies
    PROVE  Conserved(x)
<1>1. PICK k0, a : k0 = call[c] /\ a = call'[c]
  OBVIOUS
<1>2. PICK k : /\ Onward(c, k0, k, a) /\ k.op = "revive" /\ k.cmd = "LREM"
               /\ \/ dead' = dead /\ k.copy = k0.copy
                  \/ \E j \in 1..Len(dead) : /\ dead' = RemoveAt(dead, j)
                                             /\ k.copy = dead[j] /\ dead[j] \in Copies
  BY <1>1, LRemMoves
<1>3. UNCHANGED <<pending, claims, acked, dropped>>
  BY DEF LRem, broken
<1>4. Moves(c, k0, a) /\ Follows(k, a) /\ k \in Calls /\ InOrder(k) /\ k0.cmd = "LREM"
  BY <1>2 DEF Onward
<1>5. ~Taken(k0) /\ \A q : ~Dooms(k0, q)
  BY <1>4 DEF Taken, Dooms
<1>6. Following(k) = IF k.copy # NoCopy THEN "LPUSH" ELSE "next"
  BY <1>2, <1>4, FollowingKinds DEF ReviveNext
<1>7. x # NoCopy /\ k0.copy = NoCopy /\ dead \in Seq(Copies)
  BY <1>1, <1>4, NoCopyAssumption DEF HandsFree, CoreInv, TypeInv
<1>8. CASE dead' = dead /\ k.copy = k0.copy
  <2>1. ~Taken(a) /\ (\A q : ~Dooms(a, q)) /\ a.copy = NoCopy
    BY <1>4, <1>6, <1>7, <1>8 DEF Follows
  <2>2. Hand(k0, x) <=> Hand(a, x)
    BY <1>5, <2>1 DEF Hand
  <2> QED
    BY <1>3, <1>4, <1>5, <1>7, <1>8, <2>1, <2>2, Bystander
<1>9. ASSUME NEW j \in 1..Len(dead), dead' = RemoveAt(dead, j), k.copy = dead[j], dead[j] \in Copies
      PROVE  Conserved(x)
  <2>1. PICK y : y = k.copy
    OBVIOUS
  <2>2. a.op = "revive" /\ a.cmd = "LPUSH" /\ a.copy = y
    BY <1>2, <1>4, <1>6, <1>9, <2>1, NoCopyAssumption DEF Follows
  <2>3. InPending(x)' = InPending(x) /\ Firm(x)' = Firm(x)
    <3>1. \A q : ~Dooms(a, q)
      BY <2>2 DEF Dooms
    <3>2. Firm(x)' = Firm(x)
      BY <1>3, <1>4, <1>5, <3>1, FirmStays
    <3> QED
      BY <1>3, <3>2 DEF InPending, At
  <2>4. /\ y # x => Same(InDead(x), InDead(x)')
        /\ y = x => Loses(InDead(x), InDead(x)')
    <3>1. PICK s, t : s = dead /\ t = dead'
      OBVIOUS
    <3>2. s \in Seq(Copies) /\ j \in 1..Len(s) /\ t = RemoveAt(s, j) /\ s[j] = y
      BY <1>7, <1>9, <2>1, <3>1
    <3>3. /\ \A z : z # s[j] => Same(At(s, z), At(t, z))
          /\ Loses(At(s, s[j]), At(t, s[j]))
      BY <3>2, RemoveAtAt
    <3>4. InDead(x) = At(s, x) /\ InDead(x)' = At(t, x)
      BY <3>1 DEF InDead, At
    <3> QED
      BY <3>2, <3>3, <3>4
  <2>5. Located(x)' => Located(x)
    <3>1. y = x => InDead(x) # {}
      BY <2>4 DEF Loses
    <3>2. a.copy = x => Located(x)
      BY <2>2, <3>1 DEF Located
    <3>3. /\ InPending(x)' # {} => Located(x)
          /\ InDead(x)' # {} => Located(x)
          /\ \A r \in DOMAIN claims' : claims'[r] = x => Located(x)
      BY <1>3, <2>3, <2>4, <3>1 DEF Located, Same
    <3> QED
      BY <1>4, <3>2, <3>3, LocatedStays
  <2>6. CASE y # x
    <3>1. Hand(k0, x) <=> Hand(a, x)
      BY <1>5, <2>2, <2>6 DEF Hand
    <3>2. Still(x)
      BY <1>4, <2>3, <2>4, <2>6, <3>1, HandsMove, SameRefl DEF Still
    <3>3. (Kept(x) => Kept(x)') /\ (Single(x) => Single(x)')
      BY <1>3, <3>2, StillStays
    <3> QED
      BY <2>5, <3>3 DEF Conserved
  <2>7. CASE y = x
    <3>1. ~Hand(k0, x) /\ Hand(a, x)
      BY <1>5, <2>2, <2>7 DEF Hand, Taken
    <3>2. Gains(InHands(x), InHands(x)')
      BY <1>4, <3>1, HandsMove
    <3>3. Kept(x)'
      BY <3>2 DEF Gains, Kept
    <3>4. Single(x) => Single(x)'
      BY <2>3, <2>4, <2>7, <3>2, DeadToHand, SameRefl DEF Single
    <3> QED
      BY <2>5, <3>3, <3>4 DEF Conserved
  <2> QED
    BY <2>6, <2>7
<1> QED
  BY <1>2, <1>8, <1>9

\* A connection breaks: a copy in hands is dropped, and a claim that is no longer
\* doomed is of a copy that is late.
LEMMA BreakConserves ==
    ASSUME CoreInv, NEW c \in Clients, Break(c), NEW x \in Copies
    PROVE  Conserved(x)
<1>1. PICK k : k = call[c]
  OBVIOUS
<1>2. /\ call' = [call EXCEPT ![c] = Idle] /\ UNCHANGED <<pending, dead, claims, acked>>
      /\ dropped' = IF HasTaken(c) THEN dropped \cup {k.copy} ELSE dropped
      /\ late' = IF c \in Returning(k.copy) THEN late \cup {k.copy} ELSE late
  BY <1>1 DEF Break, store
<1>3. PICK a : Moves(c, k, a) /\ a.copy = NoCopy /\ ~Taken(a) /\ \A r : ~Dooms(a, r)
  BY <1>1, <1>2, EndMoves
<1>4. x # NoCopy
  BY NoCopyAssumption
<1>5. InPending(x)' = InPending(x) /\ InDead(x)' = InDead(x)
  BY <1>2 DEF InPending, InDead, At
<1>6. Located(x)' => Located(x)
  <2>1. /\ InPending(x)' # {} => Located(x)
        /\ InDead(x)' # {} => Located(x)
        /\ \A r \in DOMAIN claims' : claims'[r] = x => Located(x)
    BY <1>2, <1>5 DEF Located
  <2> QED
    BY <1>3, <1>4, <2>1, LocatedStays
<1>7. Firm(x)' = {q \in DOMAIN claims : claims[q] = x /\ ~Doomed(q)'}
  BY <1>2 DEF Firm
<1>8. \A q : Doomed(q)' => Doomed(q)
  BY <1>3, MovesDooms
<1>9. Kept(x) => Kept(x)'
  <2>1. Firm(x) \subseteq Firm(x)'
    BY <1>7, <1>8 DEF Firm
  <2>2. InHands(x) # {} => InHands(x)' # {} \/ x \in dropped'
    <3>1. Hand(k, x) => x \in dropped'
      BY <1>1, <1>2 DEF Hand, Taken, HasTaken
    <3>2. ~Hand(a, x)
      BY <1>3 DEF Hand
    <3>3. ~Hand(k, x) => InHands(x)' = InHands(x)
      BY <1>3, <3>2, HandsMove
    <3> QED
      BY <3>1, <3>3
  <2>3. dropped \subseteq dropped'
    BY <1>2
  <2> QED
    BY <1>2, <1>5, <2>1, <2>2, <2>3 DEF Kept
<1>10. ASSUME x \notin late', Single(x) PROVE Single(x)'
  <2>1. InHands(x)' \subseteq InHands(x)
    <3>1. /\ c \in InHands(x)' <=> Hand(a, x)
          /\ \A d \in Clients : d # c => (d \in InHands(x)' <=> d \in InHands(x))
          /\ InHands(x)' \subseteq Clients
      BY <1>3, MovesHands
    <3>2. ~Hand(a, x)
      BY <1>3 DEF Hand
    <3> QED
      BY <3>1, <3>2
  <2>2. \A q \in DOMAIN claims : claims[q] = x => ~Dooms(k, q)
    <3> SUFFICES ASSUME NEW q \in DOMAIN claims, claims[q] = x, Dooms(k, q) PROVE FALSE
      OBVIOUS
    <3>1. /\ k.op \in {"nack", "sweep"} /\ k.cmd \in {"HDEL nack", "HDEL claims"}
          /\ k.cmd # "none" /\ k.todo[1] = q
      BY DEF Dooms
    <3>2. Steady(k, issuedReceipts, lapsed) /\ Informed(k, claims, late) /\ 1 \in 1..Len(k.todo)
      BY <1>1, <3>1, CallFacts
    <3>3. k.copy = x
      BY <3>1, <3>2 DEF Informed, Settles
    <3>4. CASE k.op = "nack"
      BY <1>1, <1>2, <1>10, <3>1, <3>3, <3>4 DEF Returning
    <3>5. CASE k.op = "sweep"
      <4>1. k.copy \in late
        BY <1>4, <3>2, <3>3, <3>5 DEF Informed
      <4> QED
        BY <1>2, <1>10, <3>3, <4>1
    <3> QED
      BY <3>1, <3>4, <3>5
  <2>3. Firm(x)' = Firm(x)
    BY <1>2, <1>3, <2>2, FirmStays
  <2> QED
    BY <1>5, <1>10, <2>1, <2>3, OneOfShrinks DEF Single
<1> QED
  BY <1>6, <1>9, <1>10 DEF Conserved

LEMMA RequestsConserve ==
    ASSUME CoreInv, NEW c \in Clients, Requests(c), NEW x \in Copies
    PROVE  Conserved(x)
<1>1. PICK k, a : /\ k = Idle /\ Moves(c, k, a) /\ a.copy = NoCopy
                  /\ ~Taken(a) /\ \A r : ~Dooms(a, r)
  BY RequestMoves
<1>2. UNCHANGED <<pending, dead, claims, acked, dropped>>
  BY RequestMoves DEF store, broken
<1>3. ~Taken(k) /\ \A r : ~Dooms(k, r)
  BY <1>1 DEF Idle, Taken, Dooms
<1>4. x # NoCopy
  BY NoCopyAssumption
<1>5. Hand(k, x) <=> Hand(a, x)
  BY <1>1, <1>3 DEF Hand
<1> QED
  BY <1>1, <1>2, <1>3, <1>4, <1>5, Bystander

\* Steps of nobody.
LEMMA QuietConserves ==
    ASSUME NEW x, UNCHANGED <<pending, dead, claims, call, acked, dropped>>
    PROVE  Conserved(x)
<1>1. InPending(x)' = InPending(x) /\ InDead(x)' = InDead(x)
  BY DEF InPending, InDead, At
<1>2. InHands(x)' = InHands(x)
  BY DEF InHands, HasTaken
<1>3. Firm(x)' = Firm(x)
  BY DEF Firm, Doomed, Dooms
<1>4. Located(x)' = Located(x)
  BY <1>1 DEF Located
<1> QED
  BY <1>1, <1>2, <1>3, <1>4 DEF Conserved, Kept, Single

---------------------------------------------------------------------------
\* The inductive invariant for the places of copies: the numbers of copies that
\* are anywhere were given out, and every number given out has a copy that is
\* kept, in one place until it is late.
CopiesIssued == \A x \in Copies : Located(x) => x.id \in 1..issued
AllKept == \A n \in 1..issued : \E x \in [ref : Refs, id : {n}] : Kept(x)
AllSingle == \A x \in Copies \ late : Single(x)

PlacesInv == HandsFree /\ CopiesIssued /\ AllKept /\ AllSingle

LEMMA CommandConserves ==
    ASSUME CoreInv, HandsFree, NEW c \in Clients, Command(c), NEW x \in Copies
    PROVE  Conserved(x)
  BY RPopConserves, HSetConserves, RestConserves, LPushConserves, LPushDeadConserves,
     HDelClaimConserves, LRemConserves DEF Command

LEMMA HandsFreeMoves ==
    ASSUME HandsFree, NEW c \in Clients, NEW k, NEW a, Moves(c, k, a), a.cmd = "LREM" => a.copy = NoCopy
    PROVE  HandsFree'
<1>1. \A d \in Clients : call'[d].cmd = "LREM" => call'[d].copy = NoCopy
  BY DEF HandsFree, Moves
<1> QED
  BY <1>1 DEF HandsFree

LEMMA CommandHandsFree ==
    ASSUME CoreInv, HandsFree, NEW c \in Clients, Command(c)
    PROVE  HandsFree'
<1>1. PICK k, a : k = call[c] /\ a = call'[c]
  OBVIOUS
<1>2. CASE \E m : Onward(c, k, m, a)
  <2>1. PICK m : Onward(c, k, m, a)
    BY <1>2
  <2>2. /\ Moves(c, k, a) /\ Follows(m, a) /\ m \in Calls /\ InOrder(m)
        /\ m.op \in {"claim", "ack", "nack", "sweep", "revive"}
    BY <2>1 DEF Onward
  <2>3. Following(m) # "LREM"
    BY <2>2, FollowingKinds DEF ClaimNext, AckNext, NackNext, SweepNext, ReviveNext
  <2>4. a.cmd = "LREM" => a.copy = NoCopy
    BY <2>2, <2>3 DEF Follows
  <2> QED
    BY <2>2, <2>4, HandsFreeMoves
<1>3. CASE RPop(c)
  <2>1. CASE pending = <<>>
    <3>1. call' = [call EXCEPT ![c] = Idle]
      BY <1>3, <2>1 DEF RPop
    <3>2. PICK b : Moves(c, k, b) /\ b.copy = NoCopy
      BY <1>1, <3>1, EndMoves
    <3> QED
      BY <3>2, HandsFreeMoves
  <2>2. CASE pending # <<>>
    <3>1. PICK y : y = pending[1]
      OBVIOUS
    <3> QED
      BY <1>1, <1>2, <1>3, <2>2, <3>1, RPopMoves
  <2> QED
    BY <2>1, <2>2
<1>4. CASE HSet(c)
  <2>1. PICK r : r = issuedReceipts + 1
    OBVIOUS
  <2>2. HSetDone(c, k, r, a)
    BY <1>1, <1>4, <2>1, HSetFacts
  <2>3. call' = [call EXCEPT ![c] = a] /\ a.cmd = "ZADD"
    BY <2>2 DEF HSetDone
  <2>4. Moves(c, k, a)
    BY <1>1, <2>3, CallMoves
  <2> QED
    BY <2>3, <2>4, HandsFreeMoves
<1>5. CASE HDelClaim(c)
  <2>1. HDelClaimDone(c, k, a)
    BY <1>1, <1>5, HDelClaimFacts
  <2>2. call' = [call EXCEPT ![c] = a] /\ a.cmd = "ZREM"
    BY <2>1 DEF HDelClaimDone
  <2>3. Moves(c, k, a)
    BY <1>1, <2>2, CallMoves
  <2> QED
    BY <2>2, <2>3, HandsFreeMoves
<1>6. CASE ZAdd(c) \/ HGet(c) \/ HIncrBy(c) \/ ZRem(c) \/ HDelNack(c)
  BY <1>1, <1>2, <1>6, RestMoves
<1>7. CASE LPush(c) \/ LPushDead(c)
  BY <1>1, <1>2, <1>7, PushMoves
<1>8. CASE LRem(c)
  BY <1>1, <1>2, <1>8, LRemMoves
<1> QED
  BY <1>3, <1>4, <1>5, <1>6, <1>7, <1>8 DEF Command

\* Steps that conserve every copy keep the invariant.
LEMMA ConservedPlaces ==
    ASSUME PlacesInv, HandsFree', issued' = issued, late \subseteq late', \A x \in Copies : Conserved(x),
           issued \in Nat
    PROVE  PlacesInv'
<1>1. CopiesIssued'
  BY DEF PlacesInv, CopiesIssued, Conserved
<1>2. AllKept'
  <2>1. \A n \in 1..issued : \A x \in [ref : Refs, id : {n}] : x \in Copies
    BY DEF Copies
  <2> QED
    BY <2>1 DEF PlacesInv, AllKept, Conserved
<1>3. AllSingle'
  BY DEF PlacesInv, AllSingle, Conserved
<1> QED
  BY <1>1, <1>2, <1>3 DEF PlacesInv

LEMMA ConcatAt ==
    ASSUME NEW S, NEW s \in Seq(S), NEW t \in Seq(S), NEW u, u = s \o t, NEW x
    PROVE  /\ At(s, x) \subseteq At(u, x)
           /\ \A i \in At(t, x) : Len(s) + i \in At(u, x)
           /\ \A i \in At(u, x) : i \in At(s, x) \/ (i - Len(s) \in At(t, x) /\ i \in Nat)
           /\ Len(s) \in Nat
<1>1. PICK m, n : m = Len(s) /\ n = Len(t)
  OBVIOUS
<1>2. m \in Nat /\ n \in Nat /\ u \in Seq(S) /\ Len(u) = m + n
  BY <1>1
<1>3. \A i \in 1..(m + n) : u[i] = IF i <= m THEN s[i] ELSE t[i - m]
  BY <1>1, <1>2
<1>4. \A i : i \in At(u, x) <=> i \in 1..(m + n) /\ (IF i <= m THEN s[i] ELSE t[i - m]) = x
  BY <1>2, <1>3 DEF At
<1>5. \A i : (i \in At(s, x) <=> i \in 1..m /\ s[i] = x) /\ (i \in At(t, x) <=> i \in 1..n /\ t[i] = x)
  BY <1>1 DEF At
<1>6. ASSUME NEW i \in At(s, x) PROVE i \in At(u, x)
  <2>1. i \in 1..(m + n) /\ i <= m /\ s[i] = x
    BY <1>2, <1>5
  <2> QED
    BY <1>4, <2>1
<1>7. ASSUME NEW i \in At(t, x) PROVE m + i \in At(u, x)
  <2>1. i \in 1..n /\ t[i] = x
    BY <1>5
  <2>2. m + i \in 1..(m + n) /\ ~(m + i <= m) /\ (m + i) - m = i
    BY <1>2, <2>1
  <2> QED
    BY <1>4, <2>1, <2>2
<1>8. ASSUME NEW i \in At(u, x) PROVE i \in At(s, x) \/ (i - m \in At(t, x) /\ i \in Nat)
  <2>1. i \in 1..(m + n) /\ (IF i <= m THEN s[i] ELSE t[i - m]) = x
    BY <1>4
  <2>2. CASE i <= m
    <3>1. i \in 1..m /\ s[i] = x
      BY <1>2, <2>1, <2>2
    <3> QED
      BY <1>5, <3>1
  <2>3. CASE ~(i <= m)
    <3>1. i - m \in 1..n /\ t[i - m] = x /\ i \in Nat
      BY <1>2, <2>1, <2>3
    <3> QED
      BY <1>5, <3>1
  <2> QED
    BY <2>2, <2>3
<1> QED
  BY <1>1, <1>2, <1>6, <1>7, <1>8

\* EnqueueMany pushes copies with numbers nobody has had.
LEMMA EnqueuePlaces ==
    ASSUME CoreInv, PlacesInv, NEW refs \in BoundedSeq(Refs, MaxBatch), EnqueueMany(refs)
    PROVE  PlacesInv'
<1>1. PICK new \in Seq(Copies) :
              /\ pending' = pending \o new /\ issued' = issued + Len(new) /\ Len(new) \in Nat
              /\ \A i \in 1..Len(new) : new[i].id = issued + i
  BY EnqueuePushes
<1>2. UNCHANGED <<claims, dead, call, acked, late, dropped>>
  BY DEF EnqueueMany, broken
<1>3. pending \in Seq(Copies) /\ issued \in Nat
  BY DEF CoreInv, TypeInv
<1>4. \A x : InDead(x)' = InDead(x) /\ InHands(x)' = InHands(x) /\ Firm(x)' = Firm(x)
  BY <1>2 DEF InDead, At, InHands, HasTaken, Firm, Doomed, Dooms
<1>5. ASSUME NEW x
      PROVE  /\ InPending(x) \subseteq InPending(x)'
             /\ \A i \in At(new, x) : Len(pending) + i \in InPending(x)'
             /\ \A i \in InPending(x)' : i \in InPending(x)
                                         \/ (i - Len(pending) \in At(new, x) /\ i \in Nat)
             /\ Len(pending) \in Nat
  <2>1. PICK s, u : s = pending /\ u = pending'
    OBVIOUS
  <2>2. s \in Seq(Copies) /\ u = s \o new
    BY <1>1, <1>3, <2>1
  <2>3. /\ At(s, x) \subseteq At(u, x)
        /\ \A i \in At(new, x) : Len(s) + i \in At(u, x)
        /\ \A i \in At(u, x) : i \in At(s, x) \/ (i - Len(s) \in At(new, x) /\ i \in Nat)
        /\ Len(s) \in Nat
    BY <2>2, ConcatAt
  <2>4. InPending(x) = At(s, x) /\ InPending(x)' = At(u, x)
    BY <2>1 DEF InPending, At
  <2> QED
    BY <2>1, <2>3, <2>4
<1>6. \A x \in Copies : \A i \in At(new, x) : i \in 1..Len(new) /\ x.id = issued + i /\ ~Located(x)
  <2>1. \A x \in Copies : \A i \in At(new, x) : i \in 1..Len(new) /\ x.id = issued + i
    BY <1>1 DEF At
  <2>2. \A x \in Copies : \A i \in At(new, x) : x.id \notin 1..issued
    BY <1>1, <1>3, <2>1
  <2> QED
    BY <2>1, <2>2 DEF PlacesInv, CopiesIssued
<1>7. HandsFree'
  BY <1>2 DEF PlacesInv, HandsFree
<1>8. CopiesIssued'
  <2> SUFFICES ASSUME NEW x \in Copies, Located(x)' PROVE x.id \in 1..(issued + Len(new))
    BY <1>1 DEF CopiesIssued
  <2>1. Located(x) \/ \E i : i \in At(new, x)
    <3>1. InPending(x)' # {} \/ InDead(x)' # {} \/ (\E r \in DOMAIN claims : claims[r] = x)
          \/ \E d \in Clients : call[d].copy = x
      BY <1>2 DEF Located
    <3> QED
      BY <1>4, <1>5, <3>1 DEF Located
  <2>2. CASE Located(x)
    <3>1. x.id \in 1..issued
      BY <2>2 DEF PlacesInv, CopiesIssued
    <3> QED
      BY <1>1, <1>3, <3>1
  <2>3. ASSUME NEW i \in At(new, x) PROVE x.id \in 1..(issued + Len(new))
    <3>1. i \in 1..Len(new) /\ x.id = issued + i
      BY <1>6
    <3> QED
      BY <1>1, <1>3, <3>1
  <2> QED
    BY <2>1, <2>2, <2>3
<1>9. AllKept'
  <2> SUFFICES ASSUME NEW n \in 1..(issued + Len(new))
               PROVE  \E x \in [ref : Refs, id : {n}] : Kept(x)'
    BY <1>1 DEF AllKept
  <2>1. CASE n \in 1..issued
    <3>1. PICK x \in [ref : Refs, id : {n}] : Kept(x)
      BY <2>1 DEF PlacesInv, AllKept
    <3>2. Kept(x)'
      BY <1>2, <1>4, <1>5, <3>1 DEF Kept
    <3> QED
      BY <3>2
  <2>2. CASE n \notin 1..issued
    <3>1. n - issued \in 1..Len(new) /\ n = issued + (n - issued)
      BY <1>1, <1>3, <2>2
    <3>2. PICK x : x = new[n - issued]
      OBVIOUS
    <3>3. x \in Copies /\ x.id = n /\ n - issued \in At(new, x)
      BY <1>1, <3>1, <3>2 DEF At
    <3>4. x \in [ref : Refs, id : {n}]
      BY <3>3 DEF Copies
    <3>5. InPending(x)' # {}
      BY <1>5, <3>3
    <3> QED
      BY <3>4, <3>5 DEF Kept
  <2> QED
    BY <2>1, <2>2
<1>10. AllSingle'
  <2> SUFFICES ASSUME NEW x \in Copies, x \notin late PROVE Single(x)'
    BY <1>2 DEF AllSingle
  <2>1. Single(x)
    BY DEF PlacesInv, AllSingle
  <2>2. CASE At(new, x) = {}
    <3>1. InPending(x)' = InPending(x)
      BY <1>5, <2>2
    <3> QED
      BY <1>4, <2>1, <3>1 DEF Single
  <2>3. CASE At(new, x) # {}
    <3>1. ~Located(x)
      BY <1>6, <2>3
    <3>2. InPending(x) = {} /\ InDead(x) = {} /\ InHands(x) = {} /\ Firm(x) = {}
      BY <3>1 DEF Located, InHands, Firm
    <3>3. ASSUME NEW i \in InPending(x)' PROVE i = Len(pending) + (x.id - issued)
      <4>1. i - Len(pending) \in At(new, x) /\ i \in Nat /\ Len(pending) \in Nat
        BY <1>5, <3>2, <3>3
      <4>2. i - Len(pending) \in 1..Len(new) /\ x.id = issued + (i - Len(pending))
        BY <1>6, <4>1
      <4> QED
        BY <1>3, <4>1, <4>2
    <3>4. One(InPending(x)')
      BY <3>3 DEF One
    <3>5. PICK T : T = InPending(x)'
      OBVIOUS
    <3>6. OneOf(T, {}, {}, {})
      BY <3>4, <3>5 DEF OneOf, One
    <3>7. InDead(x)' = {} /\ InHands(x)' = {} /\ Firm(x)' = {}
      BY <1>4, <3>2
    <3> QED
      BY <3>5, <3>6, <3>7 DEF Single
  <2> QED
    BY <2>2, <2>3
<1> QED
  BY <1>7, <1>8, <1>9, <1>10 DEF PlacesInv

LEMMA InitPlaces == Init => PlacesInv
<1> SUFFICES ASSUME Init PROVE PlacesInv
  OBVIOUS
<1>1. HandsFree
  BY DEF Init, HandsFree, Idle
<1>2. ASSUME NEW x \in Copies
      PROVE  ~Located(x) /\ InPending(x) = {} /\ InDead(x) = {} /\ InHands(x) = {} /\ Firm(x) = {}
  <2>1. At(<<>>, x) = {}
    BY DEF At
  <2>2. InPending(x) = {} /\ InDead(x) = {} /\ DOMAIN claims = {}
    BY <2>1 DEF Init, InPending, InDead
  <2>3. \A d \in Clients : call[d].copy # x
    BY NoCopyAssumption DEF Init, Idle
  <2> QED
    BY <2>2, <2>3 DEF Located, InHands, Firm
<1>3. CopiesIssued
  BY <1>2 DEF CopiesIssued
<1>4. AllKept
  BY DEF Init, AllKept
<1>5. AllSingle
  BY <1>2 DEF AllSingle, Single, OneOf
<1> QED
  BY <1>1, <1>3, <1>4, <1>5 DEF PlacesInv

LEMMA PlacesNext == CoreInv /\ PlacesInv /\ [Next]_vars => PlacesInv'
<1> SUFFICES ASSUME CoreInv, PlacesInv, [Next]_vars PROVE PlacesInv'
  OBVIOUS
<1>1. HandsFree /\ issued \in Nat
  BY DEF PlacesInv, CoreInv, TypeInv
<1>2. CASE UNCHANGED <<pending, dead, claims, call, acked, dropped, issued>> /\ late \subseteq late'
  <2>1. \A x \in Copies : Conserved(x)
    BY <1>2, QuietConserves
  <2>2. HandsFree'
    BY <1>1, <1>2 DEF HandsFree
  <2> QED
    BY <1>1, <1>2, <2>1, <2>2, ConservedPlaces
<1>3. ASSUME NEW refs \in BoundedSeq(Refs, MaxBatch), EnqueueMany(refs) PROVE PlacesInv'
  BY <1>3, EnqueuePlaces
<1>4. ASSUME NEW c \in Clients, Command(c) PROVE PlacesInv'
  <2>1. \A x \in Copies : Conserved(x)
    BY <1>1, <1>4, CommandConserves
  <2>2. HandsFree'
    BY <1>1, <1>4, CommandHandsFree
  <2>3. UNCHANGED <<issued, late>>
    BY <1>4 DEF Command, RPop, HSet, ZAdd, HGet, HIncrBy, LPush, LPushDead, HDelClaim, ZRem, HDelNack, LRem
  <2> QED
    BY <1>1, <2>1, <2>2, <2>3, ConservedPlaces
<1>5. ASSUME NEW c \in Clients, Requests(c) PROVE PlacesInv'
  <2>1. \A x \in Copies : Conserved(x)
    BY <1>5, RequestsConserve
  <2>2. PICK a : Moves(c, Idle, a) /\ a.copy = NoCopy
    BY <1>5, RequestMoves
  <2>3. HandsFree'
    BY <1>1, <2>2, HandsFreeMoves
  <2>4. UNCHANGED <<issued, late>>
    BY <1>5, RequestMoves
  <2> QED
    BY <1>1, <2>1, <2>3, <2>4, ConservedPlaces
<1>6. ASSUME NEW c \in Clients, Break(c) PROVE PlacesInv'
  <2>1. \A x \in Copies : Conserved(x)
    BY <1>6, BreakConserves
  <2>2. call' = [call EXCEPT ![c] = Idle] /\ issued' = issued /\ late \subseteq late'
    BY <1>6 DEF Break
  <2>3. PICK k : k = call[c]
    OBVIOUS
  <2>4. PICK a : Moves(c, k, a) /\ a.copy = NoCopy
    BY <2>2, <2>3, EndMoves
  <2>5. HandsFree'
    BY <1>1, <2>4, HandsFreeMoves
  <2> QED
    BY <1>1, <2>1, <2>2, <2>5, ConservedPlaces
<1>7. (\E r \in Receipts : Lapse(r)) \/ UNCHANGED vars
      => UNCHANGED <<pending, dead, claims, call, acked, dropped, issued>> /\ late \subseteq late'
  BY DEF Lapse, vars, broken
<1> QED
  BY <1>2, <1>3, <1>4, <1>5, <1>6, <1>7 DEF Next

LEMMA KeptIsKept == CoreInv /\ PlacesInv => RefsLostOnlyInHands
<1> SUFFICES ASSUME CoreInv, PlacesInv, NEW n \in 1..issued
             PROVE  \E copy \in [ref : Refs, id : {n}] :
                        \/ copy \in Range(pending) \cup Range(dead) \cup Range(claims) \cup acked
                        \/ copy \in dropped
                        \/ InHands(copy) # {}
  BY DEF RefsLostOnlyInHands
<1>1. PICK x \in [ref : Refs, id : {n}] : Kept(x)
  BY DEF PlacesInv, AllKept
<1>2. DOMAIN pending = 1..Len(pending) /\ DOMAIN dead = 1..Len(dead)
  BY DEF CoreInv, TypeInv
<1>3. InPending(x) # {} => x \in Range(pending)
  BY <1>2 DEF InPending, At, Range
<1>4. InDead(x) # {} => x \in Range(dead)
  BY <1>2 DEF InDead, At, Range
<1>5. Firm(x) # {} => x \in Range(claims)
  BY DEF Firm, Range
<1> QED
  BY <1>1, <1>3, <1>4, <1>5 DEF Kept

\* No enqueued ref disappears, whatever commands interleave and wherever Acks,
\* Nacks and sweeps break, except out of the hands of a Claim between RPOP and
\* HSET, or of a RequeueDeadLetters between LREM and LPUSH, that breaks.
THEOREM RefsKept == Spec => []RefsLostOnlyInHands
  BY InitCore, InitPlaces, CoreNext, PlacesNext, KeptIsKept, PTL DEF Spec

---------------------------------------------------------------------------
\* Counting the places.
LEMMA OneCounts ==
    ASSUME NEW S, One(S)
    PROVE  /\ IsFiniteSet(S) /\ Cardinality(S) \in Nat
           /\ Cardinality(S) <= 1 /\ (S = {} => Cardinality(S) = 0)
<1>1. S = {} \/ \E u : S = {u}
  BY DEF One
<1>2. CASE S = {}
  BY <1>2, FS_EmptySet
<1>3. ASSUME NEW u, S = {u} PROVE IsFiniteSet(S) /\ Cardinality(S) = 1 /\ S # {}
  BY <1>3, FS_Singleton
<1> QED
  BY <1>1, <1>2, <1>3

LEMMA OneOfCounts ==
    ASSUME NEW A, NEW B, NEW C, NEW D, OneOf(A, B, C, D)
    PROVE  /\ Cardinality(A) \in Nat /\ Cardinality(B) \in Nat
           /\ Cardinality(C) \in Nat /\ Cardinality(D) \in Nat
           /\ Cardinality(A) + Cardinality(B) + Cardinality(C) + Cardinality(D) <= 1
           /\ IsFiniteSet(D)
<1>1. One(A) /\ One(B) /\ One(C) /\ One(D)
  BY DEF OneOf, One
<1>2. /\ Cardinality(A) \in Nat /\ Cardinality(B) \in Nat
      /\ Cardinality(C) \in Nat /\ Cardinality(D) \in Nat /\ IsFiniteSet(D)
  BY <1>1, OneCounts
<1>3. /\ Cardinality(A) <= 1 /\ (A = {} => Cardinality(A) = 0)
      /\ Cardinality(B) <= 1 /\ (B = {} => Cardinality(B) = 0)
      /\ Cardinality(C) <= 1 /\ (C = {} => Cardinality(C) = 0)
      /\ Cardinality(D) <= 1 /\ (D = {} => Cardinality(D) = 0)
  BY <1>1, OneCounts
<1>4. /\ A = {} \/ (B = {} /\ C = {} /\ D = {})
      /\ B = {} \/ (C = {} /\ D = {})
      /\ C = {} \/ D = {}
  BY DEF OneOf
<1>5. PICK m, n, o, p : m = Cardinality(A) /\ n = Cardinality(B) /\ o = Cardinality(C) /\ p = Cardinality(D)
  OBVIOUS
<1>6. /\ m \in Nat /\ n \in Nat /\ o \in Nat /\ p \in Nat
      /\ m <= 1 /\ n <= 1 /\ o <= 1 /\ p <= 1
      /\ m = 0 \/ (n = 0 /\ o = 0 /\ p = 0)
      /\ n = 0 \/ (o = 0 /\ p = 0)
      /\ o = 0 \/ p = 0
  BY <1>2, <1>3, <1>4, <1>5
<1>7. m + n + o + p <= 1
  BY <1>6
<1> QED
  BY <1>2, <1>5, <1>7

\* The doomed claims of a copy that is not late are those of the Nacks that are
\* returning it.
LEMMA DoomedReturning ==
    ASSUME CoreInv, NEW x \in Copies, x \notin late,
           NEW D, D = {r \in DOMAIN claims : claims[r] = x /\ Doomed(r)}
    PROVE  IsFiniteSet(D) /\ Cardinality(D) <= Cardinality(Returning(x)) /\ Cardinality(Returning(x)) \in Nat
<1>1. PICK R : R = Returning(x)
  OBVIOUS
<1>2. IsFiniteSet(R)
  <2>1. R \in SUBSET Clients
    BY <1>1 DEF Returning
  <2> QED
    BY <2>1, RedisAssumption, FS_Subset
<1>3. ASSUME NEW r \in D PROVE \E c \in R : Dooms(call[c], r)
  <2>1. PICK c \in Clients : Dooms(call[c], r)
    BY <1>3 DEF Doomed
  <2>2. PICK k : k = call[c]
    OBVIOUS
  <2>3. /\ k.op \in {"nack", "sweep"} /\ k.cmd \in {"HDEL nack", "HDEL claims"}
        /\ k.cmd # "none" /\ k.todo[1] = r
    BY <2>1, <2>2 DEF Dooms
  <2>4. Informed(k, claims, late)
    BY <2>2, <2>3, CallFacts
  <2>5. k.copy = x
    BY <1>3, <2>3, <2>4 DEF Informed, Settles
  <2>6. k.op = "nack"
    BY <2>3, <2>4, <2>5, NoCopyAssumption DEF Informed
  <2>7. c \in R
    BY <1>1, <2>2, <2>3, <2>5, <2>6 DEF Returning
  <2> QED
    BY <2>1, <2>7
<1>4. PICK f : f = [r \in D |-> CHOOSE c \in R : Dooms(call[c], r)]
  OBVIOUS
<1>5. \A r \in D : f[r] \in R /\ Dooms(call[f[r]], r)
  BY <1>3, <1>4
<1>6. f \in [D -> R]
  BY <1>4, <1>5
<1>7. \A q, r \in D : f[q] = f[r] => q = r
  <2>1. \A r \in D : call[f[r]].todo[1] = r
    BY <1>5 DEF Dooms
  <2> QED
    BY <2>1
<1>8. f \in Injection(D, R)
  BY <1>6, <1>7, Fun_IsInj
<1>9. IsFiniteSet(D) /\ Cardinality(D) <= Cardinality(R)
  BY <1>2, <1>8, FS_Injection
<1> QED
  BY <1>1, <1>2, <1>9, FS_CardinalityType

LEMMA SingleCounts ==
    ASSUME CoreInv, NEW x \in Copies, x \notin late, Single(x)
    PROVE  Places(x) <= 1 + Cardinality(Returning(x))
<1>1. PICK A, B, C, F : A = InPending(x) /\ B = InDead(x) /\ C = InHands(x) /\ F = Firm(x)
  OBVIOUS
<1>2. /\ Cardinality(A) \in Nat /\ Cardinality(B) \in Nat
      /\ Cardinality(C) \in Nat /\ Cardinality(F) \in Nat
      /\ Cardinality(A) + Cardinality(B) + Cardinality(C) + Cardinality(F) <= 1
      /\ IsFiniteSet(F)
  <2>1. OneOf(A, B, C, F)
    BY <1>1 DEF Single
  <2> QED
    BY <2>1, OneOfCounts
<1>3. PICK D : D = {r \in DOMAIN claims : claims[r] = x /\ Doomed(r)}
  OBVIOUS
<1>4. IsFiniteSet(D) /\ Cardinality(D) <= Cardinality(Returning(x)) /\ Cardinality(Returning(x)) \in Nat
  BY <1>3, DoomedReturning
<1>5. {r \in DOMAIN claims : claims[r] = x} = F \cup D /\ F \cap D = {}
  BY <1>1, <1>3 DEF Firm
<1>6. /\ Cardinality(F \cup D) = Cardinality(F) + Cardinality(D) - Cardinality(F \cap D)
      /\ Cardinality(D) \in Nat
  BY <1>2, <1>4, FS_Union, FS_CardinalityType
<1>7. Cardinality(F \cup D) = Cardinality(F) + Cardinality(D)
  <2>1. Cardinality(F \cap D) = 0
    BY <1>5, FS_EmptySet
  <2> QED
    BY <1>2, <1>6, <2>1
<1>8. Places(x) = Cardinality(A) + Cardinality(B) + Cardinality(F \cup D) + Cardinality(C)
  BY <1>1, <1>5 DEF Places, InPending, InDead, At
<1> QED
  BY <1>2, <1>4, <1>6, <1>7, <1>8

LEMMA SinglesCount == CoreInv /\ PlacesInv => NoDuplicateBeforeTimeout
<1> SUFFICES ASSUME CoreInv, PlacesInv,
                    NEW x \in (Range(pending) \cup Range(dead) \cup Range(claims)) \ late
             PROVE  Places(x) <= 1 + Cardinality(Returning(x))
  BY DEF NoDuplicateBeforeTimeout
<1>1. x \in Copies
  <2>1. /\ pending \in Seq(Copies) /\ dead \in Seq(Copies)
        /\ \A r \in DOMAIN claims : claims[r] \in Copies
    BY DEF CoreInv, TypeInv
  <2> QED
    BY <2>1 DEF Range
<1>2. Single(x)
  BY <1>1 DEF PlacesInv, AllSingle
<1> QED
  BY <1>1, <1>2, SingleCounts

\* A ref is doubled only by a visibility timeout or a broken Nack: any other copy
\* is in one place, apart from the Nacks that have pushed it back and are about
\* to delete its old claim.
THEOREM NoEarlyDuplicates == Spec => []NoDuplicateBeforeTimeout
  BY InitCore, InitPlaces, CoreNext, PlacesNext, SinglesCount, PTL DEF Spec
=============================================================================
