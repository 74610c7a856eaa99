------------------------ MODULE SubmitLimiterProofs ------------------------
(***************************************************************************)
(* Proofs about SubmitLimiter: the limits and the reasons of refusals, for *)
(* every number of tenants and clients, all limits, windows and skews.     *)
(***************************************************************************)
EXTENDS SubmitLimiter, FiniteSetTheorems, TLAPS

\* A list of the limiter is the end of its history: what it has dropped is
\* older than the window, and times are in order but for the skew.
Tracks(list, hist, clock) ==
    /\ list \in Seq(Nat) /\ hist \in Seq(Nat)
    /\ Len(list) <= Len(hist)
    /\ \A i \in 1..Len(list) : list[i] = hist[Len(hist) - Len(list) + i]
    /\ \A i \in 1..(Len(hist) - Len(list)) : hist[i] + Window <= clock
    /\ \A i \in 1..Len(hist) : hist[i] <= clock
    /\ \A i, j \in 1..Len(hist) : i < j => hist[i] <= hist[j] + Skew

Limited(hist, max, clock) ==
    \A t \in 0..clock : Accepted(hist, t - (Window - Skew) + 1, t) <= max

---------------------------------------------------------------------------
\* A set of natural numbers has a least element.
LEMMA Least ==
    ASSUME NEW S \in SUBSET Nat, S # {}
    PROVE  Min(S) \in S /\ \A y \in S : Min(S) <= y
<1> DEFINE R == {ss \in Nat \X Nat : ss[1] < ss[2]}
<1>1. IsWellFoundedOn(R, Nat)
  BY NatLessThanWellFounded DEF OpToRel
<1> HIDE DEF R
<1>2. PICK x \in S : \A y \in S : ~(<<y, x>> \in R)
  BY <1>1, WFMin, Zenon
<1>3. ASSUME NEW y \in S PROVE x <= y
  <2>1. y \in Nat /\ x \in Nat
    OBVIOUS
  <2>2. ~(<<y, x>> \in R)
    BY <1>2
  <2>3. ~(y < x)
    BY <2>1, <2>2 DEF R
  <2> QED
    BY <2>1, <2>3
<1> QED
  BY <1>3 DEF Min

\* What trimCutoff keeps: the end of the list, from its first fresh time.
LEMMA TrimFacts ==
    ASSUME NEW in \in Seq(Nat), NEW cutoff \in Int
    PROVE  LET out == trimCutoff(in, cutoff)
           IN  /\ out \in Seq(Nat)
               /\ Len(out) <= Len(in)
               /\ \A i \in 1..Len(out) : out[i] = in[Len(in) - Len(out) + i]
               /\ \A i \in 1..(Len(in) - Len(out)) : in[i] <= cutoff
               /\ Len(out) > 0 => out[1] > cutoff
<1> DEFINE fresh == {i \in 1..Len(in) : in[i] > cutoff}
           out == trimCutoff(in, cutoff)
<1>1. Len(in) \in Nat /\ \A i \in 1..Len(in) : in[i] \in Nat
  OBVIOUS
<1>2. out = IF fresh = {} THEN <<>> ELSE SubSeq(in, Min(fresh), Len(in))
  BY DEF trimCutoff
<1>3. CASE fresh = {}
  <2>1. out = <<>> /\ Len(out) = 0
    BY <1>2, <1>3
  <2>2. \A i \in 1..Len(in) : in[i] <= cutoff
    BY <1>1, <1>3
  <2>3. Len(in) - Len(out) = Len(in) /\ Len(out) <= Len(in) /\ 1..Len(out) = {}
    BY <1>1, <2>1
  <2>4. out \in Seq(Nat)
    BY <2>1
  <2> HIDE DEF out
  <2> QED
    BY <2>1, <2>2, <2>3, <2>4 DEF out
<1>4. CASE fresh # {}
  <2> DEFINE m == Min(fresh)
  <2>1. fresh \in SUBSET Nat
    BY <1>1
  <2>2. m \in fresh /\ \A y \in fresh : m <= y
    BY <1>4, <2>1, Least
  <2>3. m \in 1..Len(in) /\ m \in Nat /\ in[m] > cutoff
    BY <2>2, <1>1
  <2>4. ASSUME NEW i \in 1..(m - 1) PROVE in[i] <= cutoff
    <3>1. i \in 1..Len(in) /\ ~(m <= i)
      BY <1>1, <2>3
    <3>2. ~(in[i] > cutoff)
      BY <2>2, <3>1
    <3> QED
      BY <1>1, <3>1, <3>2
  <2> HIDE DEF m, fresh
  <2>5. out = SubSeq(in, m, Len(in))
    BY <1>2, <1>4 DEF m
  <2>6. out \in Seq(Nat) /\ Len(out) = Len(in) - m + 1
    BY <1>1, <2>3, <2>5
  <2>7. \A i \in 1..Len(out) : out[i] = in[m + i - 1]
    BY <1>1, <2>3, <2>5
  <2> HIDE DEF out
  <2>8. m - 1 = Len(in) - Len(out) /\ Len(out) <= Len(in) /\ 1 \in 1..Len(out) /\ Len(out) \in Nat
    BY <1>1, <2>3, <2>6
  <2>9. ASSUME NEW i \in 1..Len(out) PROVE m + i - 1 = Len(in) - Len(out) + i
    <3>1. i \in Int /\ Len(out) = Len(in) - m + 1
      BY <2>6, <2>8
    <3> QED
      BY <1>1, <2>3, <3>1
  <2>10. out[1] = in[m]
    BY <2>3, <2>7, <2>8
  <2> QED
    BY <2>3, <2>4, <2>6, <2>7, <2>8, <2>9, <2>10 DEF out
<1> QED
  BY <1>3, <1>4

LEMMA TracksTypes ==
    ASSUME NEW list, NEW hist, NEW clock, Tracks(list, hist, clock)
    PROVE  /\ list \in Seq(Nat) /\ hist \in Seq(Nat)
           /\ Len(list) \in Nat /\ Len(hist) \in Nat /\ Len(list) <= Len(hist)
           /\ \A i \in 1..Len(hist) : hist[i] \in Nat
BY DEF Tracks

\* Trimming drops what is older than the window.
LEMMA TrimTracks ==
    ASSUME NEW list, NEW hist, NEW clock \in Nat, Tracks(list, hist, clock),
           NEW ts \in Nat, ts <= clock
    PROVE  Tracks(trimCutoff(list, ts - Window), hist, clock)
<1> DEFINE out == trimCutoff(list, ts - Window)
           d == Len(hist) - Len(list)
<1>1. list \in Seq(Nat) /\ ts - Window \in Int /\ Window \in Nat
  BY LimiterAssumption DEF Tracks
<1>2. /\ out \in Seq(Nat)
      /\ Len(out) <= Len(list)
      /\ \A i \in 1..Len(out) : out[i] = list[Len(list) - Len(out) + i]
      /\ \A i \in 1..(Len(list) - Len(out)) : list[i] <= ts - Window
  BY <1>1, TrimFacts
<1> HIDE DEF out
<1>3. /\ Len(list) \in Nat /\ Len(hist) \in Nat /\ Len(list) <= Len(hist) /\ Len(out) \in Nat
      /\ \A i \in 1..Len(hist) : hist[i] \in Nat
  BY <1>2, TracksTypes
<1>4. /\ \A i \in 1..Len(list) : list[i] = hist[d + i]
      /\ \A i \in 1..d : hist[i] + Window <= clock
  BY DEF Tracks
<1>5. ASSUME NEW i \in 1..Len(out) PROVE out[i] = hist[Len(hist) - Len(out) + i]
  <2>1. Len(list) - Len(out) + i \in 1..Len(list)
    BY <1>2, <1>3
  <2>2. d + (Len(list) - Len(out) + i) = Len(hist) - Len(out) + i
    BY <1>3
  <2> QED
    BY <1>2, <1>4, <2>1, <2>2
<1>6. ASSUME NEW i \in 1..(Len(hist) - Len(out)) PROVE hist[i] + Window <= clock
  <2>1. CASE i \in 1..d
    BY <1>4, <2>1
  <2>2. CASE i \notin 1..d
    <3>1. i - d \in 1..(Len(list) - Len(out)) /\ i - d \in 1..Len(list) /\ d + (i - d) = i
      BY <1>2, <1>3, <2>2
    <3>2. list[i - d] <= ts - Window /\ list[i - d] = hist[i] /\ i \in 1..Len(hist)
      BY <1>2, <1>3, <1>4, <3>1
    <3> QED
      BY <1>1, <1>3, <3>2
  <2> QED
    BY <2>1, <2>2
<1>7. Len(out) <= Len(hist)
  BY <1>2, <1>3
<1> QED
  BY <1>2, <1>5, <1>6, <1>7 DEF Tracks, out

\* Appending the time of a request that waited no longer than the skew.
LEMMA AppendTracks ==
    ASSUME NEW list, NEW hist, NEW clock \in Nat, Tracks(list, hist, clock),
           NEW ts \in Nat, ts <= clock, clock <= ts + Skew
    PROVE  Tracks(Append(list, ts), Append(hist, ts), clock)
<1> DEFINE L == Append(list, ts)
           H == Append(hist, ts)
<1>1. /\ list \in Seq(Nat) /\ hist \in Seq(Nat) /\ Skew \in Nat /\ Window \in Nat
      /\ Len(list) \in Nat /\ Len(hist) \in Nat /\ Len(list) <= Len(hist)
      /\ \A i \in 1..Len(hist) : hist[i] \in Nat
  BY LimiterAssumption, TracksTypes
<1>2. /\ L \in Seq(Nat) /\ Len(L) = Len(list) + 1 /\ L[Len(list) + 1] = ts
      /\ \A i \in 1..Len(list) : L[i] = list[i]
  BY <1>1
<1>3. /\ H \in Seq(Nat) /\ Len(H) = Len(hist) + 1 /\ H[Len(hist) + 1] = ts
      /\ \A i \in 1..Len(hist) : H[i] = hist[i]
  BY <1>1
<1> HIDE DEF L, H
<1>4. ASSUME NEW i \in 1..Len(L) PROVE L[i] = H[Len(H) - Len(L) + i]
  <2>1. CASE i = Len(list) + 1
    <3>1. Len(H) - Len(L) + i = Len(hist) + 1
      BY <1>1, <1>2, <1>3, <2>1
    <3> QED
      BY <1>2, <1>3, <2>1, <3>1
  <2>2. CASE i # Len(list) + 1
    <3>1. /\ i \in 1..Len(list) /\ Len(H) - Len(L) + i = Len(hist) - Len(list) + i
          /\ Len(hist) - Len(list) + i \in 1..Len(hist)
      <4>1. i \in 1..Len(list)
        BY <1>1, <1>2, <2>2
      <4> QED
        BY <1>1, <1>2, <1>3, <4>1
    <3> QED
      BY <1>2, <1>3, <3>1 DEF Tracks
  <2> QED
    BY <2>1, <2>2
<1>5. ASSUME NEW i \in 1..(Len(H) - Len(L)) PROVE H[i] + Window <= clock
  <2>1. i \in 1..(Len(hist) - Len(list)) /\ i \in 1..Len(hist)
    BY <1>1, <1>2, <1>3
  <2> QED
    BY <1>3, <2>1 DEF Tracks
<1>6. \A i \in 1..Len(H) : i \in 1..Len(hist) \/ i = Len(hist) + 1
  BY <1>1, <1>3
<1>7. \A i \in 1..Len(H) : H[i] <= clock
  BY <1>3, <1>6 DEF Tracks
<1>8. ASSUME NEW i \in 1..Len(H), NEW j \in 1..Len(H), i < j PROVE H[i] <= H[j] + Skew
  <2>1. i \in 1..Len(hist) /\ i # Len(hist) + 1
    BY <1>1, <1>3, <1>8
  <2>2. CASE j = Len(hist) + 1
    <3>1. H[i] \in Nat /\ H[i] <= clock
      BY <1>1, <1>3, <1>7, <2>1
    <3> QED
      BY <1>1, <1>3, <2>2, <3>1
  <2>3. CASE j \in 1..Len(hist)
    BY <1>3, <1>8, <2>1, <2>3 DEF Tracks
  <2> QED
    BY <1>6, <2>2, <2>3
<1>9. Len(L) <= Len(H)
  BY <1>1, <1>2, <1>3
<1> QED
  BY <1>2, <1>3, <1>4, <1>5, <1>7, <1>8, <1>9 DEF Tracks, L, H

LEMMA ClockTracks ==
    ASSUME NEW list, NEW hist, NEW clock \in Nat, Tracks(list, hist, clock)
    PROVE  Tracks(list, hist, clock + 1)
<1>1. \A i \in 1..Len(hist) : hist[i] \in Nat /\ hist[i] <= clock + 1
  BY TracksTypes DEF Tracks
<1>2. ASSUME NEW i \in 1..(Len(hist) - Len(list)) PROVE hist[i] + Window <= clock + 1
  <2>1. hist[i] + Window <= clock /\ i \in 1..Len(hist) /\ Window \in Nat
    BY TracksTypes, LimiterAssumption DEF Tracks
  <2> QED
    BY <1>1, <2>1
<1> QED
  BY <1>1, <1>2 DEF Tracks

\* The times a history has in a span are as many as their positions.
LEMMA AcceptedFinite ==
    ASSUME NEW hist \in Seq(Nat), NEW first, NEW last
    PROVE  LET A == {i \in 1..Len(hist) : hist[i] \in first..last}
           IN  /\ A \in SUBSET (1..Len(hist))
               /\ IsFiniteSet(A)
               /\ Accepted(hist, first, last) = Cardinality(A)
               /\ Accepted(hist, first, last) \in Nat
<1> DEFINE A == {i \in 1..Len(hist) : hist[i] \in first..last}
<1>1. 1 \in Int /\ Len(hist) \in Int
  OBVIOUS
<1>2. IsFiniteSet(1..Len(hist))
  BY <1>1, FS_Interval
<1>3. A \in SUBSET (1..Len(hist))
  OBVIOUS
<1>4. IsFiniteSet(A)
  BY <1>2, <1>3, FS_Subset
<1>5. Cardinality(A) \in Nat
  BY <1>4, FS_CardinalityType
<1> QED
  BY <1>3, <1>4, <1>5 DEF Accepted

\* A span in which the new request lies has only times the list still has.
LEMMA LimitAppend ==
    ASSUME NEW list, NEW hist, NEW clock \in Nat, Tracks(list, hist, clock),
           NEW ts \in Nat, ts <= clock, clock <= ts + Skew,
           NEW max \in Nat, Len(list) < max, Limited(hist, max, clock)
    PROVE  Limited(Append(hist, ts), max, clock)
<1> DEFINE H == Append(hist, ts)
           d == Len(hist) - Len(list)
<1>1. /\ list \in Seq(Nat) /\ hist \in Seq(Nat) /\ Skew \in Nat /\ Window \in Nat
      /\ Len(list) \in Nat /\ Len(hist) \in Nat /\ Len(list) <= Len(hist)
      /\ \A i \in 1..Len(hist) : hist[i] \in Nat
  BY LimiterAssumption, TracksTypes
<1>2. /\ H \in Seq(Nat) /\ Len(H) = Len(hist) + 1 /\ H[Len(hist) + 1] = ts
      /\ \A i \in 1..Len(hist) : H[i] = hist[i]
  BY <1>1
<1> HIDE DEF H
<1> SUFFICES ASSUME NEW t \in 0..clock PROVE Accepted(H, t - (Window - Skew) + 1, t) <= max
  BY DEF Limited, H
<1> DEFINE first == t - (Window - Skew) + 1
           A == {i \in 1..Len(hist) : hist[i] \in first..t}
           B == {i \in 1..Len(H) : H[i] \in first..t}
<1>3. Accepted(hist, first, t) = Cardinality(A) /\ Accepted(hist, first, t) <= max
  <2>1. Accepted(hist, first, t) = Cardinality(A)
    BY DEF Accepted
  <2>2. Accepted(hist, first, t) <= max
    BY DEF Limited
  <2> QED
    BY <2>1, <2>2
<1>4. Accepted(H, first, t) = Cardinality(B)
  BY <1>2, AcceptedFinite
<1>5. \A i \in 1..Len(H) : i \in 1..Len(hist) \/ i = Len(hist) + 1
  BY <1>1, <1>2
<1>6. 1..Len(hist) \subseteq 1..Len(H)
  BY <1>1, <1>2
<1>7. CASE ts \notin first..t
  <2>1. B = A
    BY <1>2, <1>5, <1>6, <1>7
  <2> QED
    BY <1>3, <1>4, <2>1
<1>8. CASE ts \in first..t
  <2>1. t \in Int /\ first = t - Window + Skew + 1 /\ ts <= t
    BY <1>1, <1>8
  <2>2. ASSUME NEW i \in 1..d, i \in B PROVE FALSE
    <3>1. i \in 1..Len(hist) /\ hist[i] + Window <= clock /\ hist[i] \in Nat
      BY <1>1 DEF Tracks
    <3>2. hist[i] \in first..t
      BY <1>2, <2>2, <3>1
    <3> QED
      BY <1>1, <2>1, <3>1, <3>2
  <2>3. B \in SUBSET ((d + 1)..Len(H))
    <3> SUFFICES ASSUME NEW i \in B PROVE i \in (d + 1)..Len(H)
      OBVIOUS
    <3>1. i \in 1..Len(H) /\ i \notin 1..d
      BY <2>2
    <3> QED
      BY <1>1, <1>2, <3>1
  <2> HIDE DEF B
  <2>4. IsFiniteSet((d + 1)..Len(H)) /\ Cardinality((d + 1)..Len(H)) = Len(list) + 1
    <3>1. d + 1 \in Int /\ Len(H) \in Int
      BY <1>1, <1>2
    <3>2. /\ IsFiniteSet((d + 1)..Len(H))
          /\ Cardinality((d + 1)..Len(H)) = IF d + 1 > Len(H) THEN 0 ELSE Len(H) - (d + 1) + 1
      BY <3>1, FS_Interval
    <3>3. ~(d + 1 > Len(H)) /\ Len(H) - (d + 1) + 1 = Len(list) + 1
      BY <1>1, <1>2
    <3> QED
      BY <3>2, <3>3
  <2>5. Cardinality(B) <= Len(list) + 1 /\ Cardinality(B) \in Nat
    <3> DEFINE I == (d + 1)..Len(H)
    <3>1. IsFiniteSet(I) /\ Cardinality(I) = Len(list) + 1 /\ B \in SUBSET I
      BY <2>3, <2>4
    <3> HIDE DEF I
    <3>2. IsFiniteSet(B) /\ Cardinality(B) <= Cardinality(I)
      BY <3>1, FS_Subset
    <3>3. Cardinality(B) \in Nat
      BY <3>2, FS_CardinalityType
    <3> QED
      BY <3>1, <3>2, <3>3
  <2> QED
    BY <1>1, <1>4, <2>5
<1> QED
  BY <1>7, <1>8

\* The span that ends a second later has no more times.
LEMMA LimitTick ==
    ASSUME NEW hist \in Seq(Nat), NEW clock \in Nat, \A i \in 1..Len(hist) : hist[i] <= clock,
           NEW max \in Nat, Limited(hist, max, clock)
    PROVE  Limited(hist, max, clock + 1)
<1>1. Skew \in Nat /\ Window \in Nat /\ \A i \in 1..Len(hist) : hist[i] \in Nat
  BY LimiterAssumption
<1> SUFFICES ASSUME NEW t \in 0..(clock + 1)
             PROVE  Accepted(hist, t - (Window - Skew) + 1, t) <= max
  BY DEF Limited
<1>2. CASE t \in 0..clock
  BY <1>2 DEF Limited
<1>3. CASE t = clock + 1
  <2> DEFINE f == clock - (Window - Skew) + 1
             g == t - (Window - Skew) + 1
             A == {i \in 1..Len(hist) : hist[i] \in f..clock}
             B == {i \in 1..Len(hist) : hist[i] \in g..t}
  <2>1. Accepted(hist, f, clock) = Cardinality(A) /\ IsFiniteSet(A)
    BY AcceptedFinite
  <2>2. Accepted(hist, g, t) = Cardinality(B) /\ Accepted(hist, g, t) \in Nat
    BY AcceptedFinite
  <2>3. B \in SUBSET A
    <3> SUFFICES ASSUME NEW i \in B PROVE i \in A
      OBVIOUS
    <3>1. i \in 1..Len(hist) /\ hist[i] \in g..t /\ hist[i] \in Nat /\ hist[i] <= clock
      BY <1>1
    <3>2. hist[i] \in f..clock
      BY <1>1, <1>3, <3>1
    <3> QED
      BY <3>1, <3>2
  <2> HIDE DEF A, B
  <2>4. Cardinality(B) <= Cardinality(A) /\ Cardinality(A) \in Nat
    BY <2>1, <2>3, FS_Subset, FS_CardinalityType
  <2>5. Cardinality(A) <= max
    BY <2>1 DEF Limited
  <2> QED
    BY <2>2, <2>4, <2>5
<1> QED
  BY <1>2, <1>3

\* A full list is the proof of a reason to refuse.
LEMMA FullList ==
    ASSUME NEW list, NEW hist, NEW clock \in Nat, Tracks(list, hist, clock),
           NEW ts \in Nat, ts <= clock,
           NEW max \in Nat, max > 0, Len(trimCutoff(list, ts - Window)) >= max
    PROVE  Accepted(hist, ts - (Window + Skew) + 1, clock) >= max
<1> DEFINE out == trimCutoff(list, ts - Window)
           first == ts - (Window + Skew) + 1
           d == Len(hist) - Len(out)
           A == {i \in 1..Len(hist) : hist[i] \in first..clock}
<1>1. Tracks(out, hist, clock)
  BY TrimTracks
<1>2. list \in Seq(Nat) /\ ts - Window \in Int /\ Skew \in Nat /\ Window \in Nat
  BY LimiterAssumption DEF Tracks
<1>3. Len(out) > 0 => out[1] > ts - Window
  BY <1>2, TrimFacts
<1>4. Len(out) >= max
  OBVIOUS
<1> HIDE DEF out
<1>5. /\ hist \in Seq(Nat) /\ Len(out) \in Nat /\ Len(hist) \in Nat /\ Len(out) <= Len(hist)
      /\ \A i \in 1..Len(hist) : hist[i] \in Nat
  BY <1>1, TracksTypes
<1>6. 1 \in 1..Len(out) /\ d + 1 \in 1..Len(hist) /\ hist[d + 1] > ts - Window
  <2>1. 1 \in 1..Len(out) /\ Len(out) > 0
    BY <1>4, <1>5
  <2>2. out[1] = hist[d + 1] /\ d + 1 \in 1..Len(hist)
    BY <1>1, <1>5, <2>1 DEF Tracks
  <2> QED
    BY <1>3, <2>1, <2>2
<1>7. ASSUME NEW i \in (d + 1)..Len(hist) PROVE i \in A
  <2>1. i \in 1..Len(hist) /\ hist[i] \in Nat /\ hist[i] <= clock
    BY <1>1, <1>5 DEF Tracks
  <2>2. d \in Int
    BY <1>5
  <2> HIDE DEF d
  <2>3. hist[d + 1] <= hist[i] + Skew
    <3>1. CASE i = d + 1
      BY <1>2, <2>1, <3>1
    <3>2. CASE d + 1 < i
      BY <1>1, <1>6, <2>1, <3>2 DEF Tracks
    <3> QED
      BY <2>2, <3>1, <3>2
  <2>4. hist[i] \in first..clock
    <3>1. hist[d + 1] \in Nat
      BY <1>5, <1>6
    <3>2. first <= hist[i]
      BY <1>2, <1>6, <2>1, <2>3, <3>1
    <3> QED
      BY <1>2, <2>1, <3>2
  <2> QED
    BY <2>1, <2>4
<1>8. Accepted(hist, first, clock) = Cardinality(A) /\ IsFiniteSet(A)
  BY <1>5, AcceptedFinite
<1> HIDE DEF A
<1>9. (d + 1)..Len(hist) \in SUBSET A
  BY <1>7
<1>10. Cardinality((d + 1)..Len(hist)) = Len(out)
  <2>1. d + 1 \in Int /\ Len(hist) \in Int
    BY <1>5
  <2>2. Cardinality((d + 1)..Len(hist)) = IF d + 1 > Len(hist) THEN 0 ELSE Len(hist) - (d + 1) + 1
    BY <2>1, FS_Interval
  <2>3. ~(d + 1 > Len(hist)) /\ Len(hist) - (d + 1) + 1 = Len(out)
    BY <1>5, <1>6
  <2> QED
    BY <2>2, <2>3
<1>11. Len(out) <= Cardinality(A) /\ Cardinality(A) \in Nat
  BY <1>8, <1>9, <1>10, FS_Subset, FS_CardinalityType
<1> QED
  BY <1>4, <1>5, <1>8, <1>11

---------------------------------------------------------------------------
Calls == [on : BOOLEAN, tenant : Tenants \cup {"none"}, ts : Nat]

\* A request that waits has read the clock at most Skew seconds ago.
CallsFresh ==
    /\ call \in [Clients -> Calls]
    /\ \A c \in Clients : call[c].on =>
          call[c].tenant \in Tenants /\ call[c].ts <= now /\ now <= call[c].ts + Skew

Limiting == GlobalMax > 0 \/ PerTenantMax > 0

\* With a limit, every list is the end of its history.
ListsTrack ==
    /\ accepted \in Seq(Nat)
    /\ tenants \in [Tenants -> Seq(Nat)] /\ acceptedOf \in [Tenants -> Seq(Nat)]
    /\ Limiting => /\ Tracks(global, accepted, now)
                   /\ \A t \in Tenants : Tracks(tenants[t], acceptedOf[t], now)

LInv == now \in Nat /\ CallsFresh /\ ListsTrack

LEMMA EmptyTracks == ASSUME NEW clock \in Nat PROVE Tracks(<<>>, <<>>, clock)
BY DEF Tracks

LEMMA InitLInv == Init => LInv /\ LimitsHold
<1> SUFFICES ASSUME Init PROVE LInv /\ LimitsHold
  OBVIOUS
<1>1. CallsFresh
  BY DEF Init, CallsFresh, Calls, NoCall
<1>2. ListsTrack
  BY EmptyTracks DEF Init, ListsTrack
<1>3. \A first, last : Accepted(<<>>, first, last) = 0
  <2>1. ASSUME NEW first, NEW last PROVE {i \in 1..Len(<<>>) : <<>>[i] \in first..last} = {}
    OBVIOUS
  <2> QED
    BY <2>1, FS_EmptySet DEF Accepted
<1>4. LimitsHold
  BY <1>3, LimiterAssumption DEF Init, LimitsHold
<1> QED
  BY <1>1, <1>2, <1>4 DEF Init, LInv

\* What a step of a waiting request finds.
LEMMA CallFacts ==
    ASSUME LInv, NEW c \in Clients, call[c].on
    PROVE  /\ call[c].ts \in Nat /\ call[c].tenant \in Tenants
           /\ call[c].ts <= now /\ now <= call[c].ts + Skew
           /\ now \in Nat
           /\ Limiting => /\ Tracks(global, accepted, now)
                          /\ Tracks(Trimmed(global, c), accepted, now)
                          /\ \A t \in Tenants : Tracks(tenants[t], acceptedOf[t], now)
                          /\ Tracks(Trimmed(tenants[call[c].tenant], c), acceptedOf[call[c].tenant], now)
<1>1. /\ call[c].ts \in Nat /\ call[c].tenant \in Tenants
      /\ call[c].ts <= now /\ now <= call[c].ts + Skew /\ now \in Nat
  BY DEF LInv, CallsFresh, Calls
<1>2. ASSUME Limiting
      PROVE  /\ Tracks(global, accepted, now)
             /\ \A t \in Tenants : Tracks(tenants[t], acceptedOf[t], now)
  BY <1>2 DEF LInv, ListsTrack
<1>3. ASSUME Limiting PROVE Tracks(Trimmed(global, c), accepted, now)
  BY <1>1, <1>2, <1>3, TrimTracks DEF Trimmed
<1>4. ASSUME Limiting
      PROVE  Tracks(Trimmed(tenants[call[c].tenant], c), acceptedOf[call[c].tenant], now)
  BY <1>1, <1>2, <1>4, TrimTracks DEF Trimmed
<1> QED
  BY <1>1, <1>2, <1>3, <1>4

\* A call that ends leaves the others as they are.
LEMMA CallEnds ==
    ASSUME LInv, NEW c \in Clients, call' = [call EXCEPT ![c] = NoCall], UNCHANGED now
    PROVE  CallsFresh'
<1>1. NoCall \in Calls /\ ~NoCall.on
  BY DEF NoCall, Calls
<1>2. call \in [Clients -> Calls]
  BY DEF LInv, CallsFresh
<1>3. call' \in [Clients -> Calls]
  BY <1>1, <1>2
<1>4. \A b \in Clients : call'[b].on => call'[b] = call[b] /\ call[b].on
  BY <1>1, <1>2
<1> QED
  BY <1>3, <1>4 DEF LInv, CallsFresh

LEMMA RefuseGlobalStep ==
    ASSUME LInv, NEW c \in Clients, RefuseGlobal(c)
    PROVE  LInv'
<1>1. /\ call[c].on /\ global' = Trimmed(global, c) /\ call' = [call EXCEPT ![c] = NoCall]
      /\ UNCHANGED <<tenants, now, accepted, acceptedOf>>
  BY DEF RefuseGlobal, history
<1>2. CallsFresh'
  BY <1>1, CallEnds
<1>3. Limiting => Tracks(global, accepted, now)'
  BY <1>1, CallFacts
<1>4. ListsTrack'
  BY <1>1, <1>3 DEF LInv, ListsTrack
<1> QED
  BY <1>1, <1>2, <1>4 DEF LInv

LEMMA RefuseTenantStep ==
    ASSUME LInv, NEW c \in Clients, RefuseTenant(c)
    PROVE  LInv'
<1> DEFINE own == call[c].tenant
<1>1. /\ call[c].on /\ global' = Trimmed(global, c) /\ call' = [call EXCEPT ![c] = NoCall]
      /\ tenants' = [tenants EXCEPT ![own] = Trimmed(tenants[own], c)]
      /\ UNCHANGED <<now, accepted, acceptedOf>>
      /\ PerTenantMax > 0
  BY DEF RefuseTenant, history, TenantFull
<1>2. CallsFresh'
  BY <1>1, CallEnds
<1>3. Tracks(global', accepted', now')
  BY <1>1, CallFacts DEF Limiting
<1>4. /\ own \in Tenants
      /\ \A t \in Tenants : Tracks(tenants[t], acceptedOf[t], now)
      /\ Tracks(Trimmed(tenants[own], c), acceptedOf[own], now)
  BY <1>1, CallFacts DEF Limiting
<1> HIDE DEF own
<1>5. tenants \in [Tenants -> Seq(Nat)] /\ Trimmed(tenants[own], c) \in Seq(Nat)
  BY <1>4, TracksTypes DEF LInv, ListsTrack
<1>6. tenants' \in [Tenants -> Seq(Nat)]
  BY <1>1, <1>5
<1>7. \A t \in Tenants : Tracks(tenants'[t], acceptedOf'[t], now')
  BY <1>1, <1>4, <1>5
<1>8. ListsTrack'
  BY <1>1, <1>3, <1>6, <1>7 DEF LInv, ListsTrack
<1> QED
  BY <1>1, <1>2, <1>8 DEF LInv

LEMMA AllowStep ==
    ASSUME LInv, LimitsHold, NEW c \in Clients, Allow(c)
    PROVE  LInv' /\ LimitsHold'
<1> DEFINE own == call[c].tenant
           ts == call[c].ts
<1>1. /\ call[c].on /\ ~GlobalFull(c) /\ ~TenantFull(c)
      /\ call' = [call EXCEPT ![c] = NoCall]
      /\ accepted' = Append(accepted, ts)
      /\ acceptedOf' = [acceptedOf EXCEPT ![own] = Append(acceptedOf[own], ts)]
      /\ UNCHANGED now
  BY DEF Allow
<1>2. CallsFresh'
  BY <1>1, CallEnds
<1>3. own \in Tenants /\ ts \in Nat /\ ts <= now /\ now <= ts + Skew /\ now \in Nat
  BY <1>1, CallFacts
<1>4. tenants \in [Tenants -> Seq(Nat)] /\ acceptedOf \in [Tenants -> Seq(Nat)]
  BY DEF LInv, ListsTrack
<1>5. PerTenantMax \in Nat /\ GlobalMax \in Nat
  BY LimiterAssumption
<1>6. acceptedOf' \in [Tenants -> Seq(Nat)] /\ accepted' \in Seq(Nat)
  BY <1>1, <1>3, <1>4 DEF LInv, ListsTrack
<1>7. CASE ~Limiting
  <2>1. tenants' = tenants
    BY <1>1, <1>5, <1>7 DEF Allow, Limiting
  <2>2. ListsTrack'
    BY <1>4, <1>6, <1>7, <2>1 DEF ListsTrack, Limiting
  <2>3. LimitsHold'
    BY <1>7 DEF LimitsHold, Limiting
  <2> QED
    BY <1>1, <1>2, <1>3, <2>2, <2>3 DEF LInv
<1>8. CASE Limiting
  <2> DEFINE gl == Trimmed(global, c)
             tl == Trimmed(tenants[own], c)
  <2>1. /\ global' = Append(gl, ts)
        /\ tenants' = [tenants EXCEPT ![own] = Append(tl, ts)]
    BY <1>1, <1>5, <1>8 DEF Allow, Limiting
  <2>2. /\ Tracks(gl, accepted, now) /\ Tracks(tl, acceptedOf[own], now)
        /\ \A t \in Tenants : Tracks(tenants[t], acceptedOf[t], now)
    BY <1>1, <1>8, CallFacts
  <2>3. /\ GlobalMax > 0 => Len(gl) < GlobalMax
        /\ PerTenantMax > 0 => Len(tl) < PerTenantMax
    <3>1. Len(gl) \in Nat /\ Len(tl) \in Nat
      BY <2>2, TracksTypes
    <3> QED
      BY <1>1, <1>5, <3>1 DEF GlobalFull, TenantFull
  <2> HIDE DEF gl, tl, own, ts
  <2>4. Tracks(global', accepted', now')
    BY <1>1, <1>3, <2>1, <2>2, AppendTracks
  <2>5. Tracks(Append(tl, ts), Append(acceptedOf[own], ts), now)
    BY <1>3, <2>2, AppendTracks
  <2>6. \A t \in Tenants : Tracks(tenants'[t], acceptedOf'[t], now')
    BY <1>1, <1>3, <1>4, <2>1, <2>2, <2>5
  <2>7. tenants' \in [Tenants -> Seq(Nat)]
    <3>1. Append(tl, ts) \in Seq(Nat)
      BY <2>5 DEF Tracks
    <3> QED
      BY <1>3, <1>4, <2>1, <3>1
  <2>8. ListsTrack'
    BY <1>6, <2>4, <2>6, <2>7 DEF ListsTrack
  <2>9. ASSUME GlobalMax > 0 PROVE Limited(accepted', GlobalMax, now')
    <3>1. Limited(accepted, GlobalMax, now)
      BY <2>9 DEF LimitsHold, Limited
    <3> QED
      BY <1>1, <1>3, <1>5, <2>2, <2>3, <2>9, <3>1, LimitAppend
  <2>10. ASSUME PerTenantMax > 0, NEW t \in Tenants PROVE Limited(acceptedOf'[t], PerTenantMax, now')
    <3>1. Limited(acceptedOf[t], PerTenantMax, now)
      BY <2>10 DEF LimitsHold, Limited
    <3>2. CASE t = own
      <4>1. Limited(Append(acceptedOf[own], ts), PerTenantMax, now)
        BY <1>3, <1>5, <2>2, <2>3, <2>10, <3>1, <3>2, LimitAppend
      <4> QED
        BY <1>1, <1>3, <1>4, <3>2, <4>1
    <3>3. CASE t # own
      BY <1>1, <1>4, <3>1, <3>3
    <3> QED
      BY <3>2, <3>3
  <2>11. LimitsHold'
    BY <2>9, <2>10 DEF LimitsHold, Limited
  <2> QED
    BY <1>1, <1>2, <1>3, <2>8, <2>11 DEF LInv
<1> QED
  BY <1>7, <1>8

LEMMA TickStep ==
    ASSUME LInv, LimitsHold, Tick
    PROVE  LInv' /\ LimitsHold'
<1>1. /\ now' = now + 1 /\ now \in Nat
      /\ UNCHANGED <<tenants, global, call, accepted, acceptedOf>>
      /\ \A c \in Clients : call[c].on => now < call[c].ts + Skew
  BY DEF Tick, history, LInv
<1>2. Skew \in Nat /\ PerTenantMax \in Nat /\ GlobalMax \in Nat
  BY LimiterAssumption
<1>3. CallsFresh'
  <2>1. call \in [Clients -> Calls]
    BY DEF LInv, CallsFresh
  <2>2. ASSUME NEW c \in Clients, call[c].on
        PROVE  /\ call[c].tenant \in Tenants /\ call[c].ts <= now + 1
               /\ now + 1 <= call[c].ts + Skew
    <3>1. call[c].ts \in Nat /\ call[c].ts <= now /\ now < call[c].ts + Skew
      BY <1>1, <2>1, <2>2 DEF LInv, CallsFresh, Calls
    <3>2. call[c].tenant \in Tenants
      BY <2>2 DEF LInv, CallsFresh
    <3> QED
      BY <1>1, <1>2, <3>1, <3>2
  <2> QED
    BY <1>1, <2>1, <2>2 DEF CallsFresh
<1>4. ASSUME Limiting
      PROVE  /\ Tracks(global, accepted, now) /\ Tracks(global', accepted', now')
             /\ \A t \in Tenants : /\ Tracks(tenants[t], acceptedOf[t], now)
                                   /\ Tracks(tenants'[t], acceptedOf'[t], now')
  BY <1>1, <1>4, ClockTracks DEF LInv, ListsTrack
<1>5. ListsTrack'
  BY <1>1, <1>4 DEF LInv, ListsTrack
<1>6. ASSUME GlobalMax > 0 PROVE Limited(accepted', GlobalMax, now')
  <2>1. Limited(accepted, GlobalMax, now)
    BY <1>6 DEF LimitsHold, Limited
  <2>2. accepted \in Seq(Nat) /\ \A i \in 1..Len(accepted) : accepted[i] <= now
    BY <1>4, <1>6 DEF Tracks, Limiting
  <2> QED
    BY <1>1, <1>2, <2>1, <2>2, LimitTick
<1>7. ASSUME PerTenantMax > 0, NEW t \in Tenants PROVE Limited(acceptedOf'[t], PerTenantMax, now')
  <2> DEFINE h == acceptedOf[t]
  <2>1. Limited(h, PerTenantMax, now)
    BY <1>7 DEF LimitsHold, Limited
  <2>2. h \in Seq(Nat) /\ \A i \in 1..Len(h) : h[i] <= now
    BY <1>4, <1>7 DEF Tracks, Limiting
  <2> HIDE DEF h
  <2>3. Limited(h, PerTenantMax, now + 1)
    BY <1>1, <1>2, <2>1, <2>2, LimitTick
  <2> QED
    BY <1>1, <2>3 DEF h
<1>8. LimitsHold'
  BY <1>6, <1>7 DEF LimitsHold, Limited
<1> QED
  BY <1>1, <1>3, <1>5, <1>8 DEF LInv

LEMMA ArriveStep ==
    ASSUME LInv, NEW c \in Clients, NEW tenant \in Tenants, Arrive(c, tenant)
    PROVE  LInv'
<1>1. /\ call' = [call EXCEPT ![c] = [on |-> TRUE, tenant |-> tenant, ts |-> now]]
      /\ UNCHANGED <<tenants, global, now, accepted, acceptedOf>>
  BY DEF Arrive, history
<1>2. call \in [Clients -> Calls] /\ now \in Nat /\ Skew \in Nat
  BY LimiterAssumption DEF LInv, CallsFresh
<1>3. call' \in [Clients -> Calls]
  BY <1>1, <1>2 DEF Calls
<1>4. ASSUME NEW b \in Clients, call'[b].on
      PROVE  call'[b].tenant \in Tenants /\ call'[b].ts <= now /\ now <= call'[b].ts + Skew
  <2>1. CASE b = c
    BY <1>1, <1>2, <2>1
  <2>2. CASE b # c
    <3>1. call'[b] = call[b]
      BY <1>1, <1>2, <2>2
    <3> QED
      BY <1>4, <3>1 DEF LInv, CallsFresh
  <2> QED
    BY <2>1, <2>2
<1>5. CallsFresh'
  BY <1>1, <1>3, <1>4 DEF CallsFresh
<1>6. ListsTrack'
  BY <1>1 DEF LInv, ListsTrack
<1> QED
  BY <1>1, <1>2, <1>5, <1>6 DEF LInv

LEMMA StepLInv == LInv /\ LimitsHold /\ [Next]_vars => LInv' /\ LimitsHold'
<1> SUFFICES ASSUME LInv, LimitsHold, [Next]_vars PROVE LInv' /\ LimitsHold'
  OBVIOUS
<1>1. ASSUME UNCHANGED <<now, accepted, acceptedOf>> PROVE LimitsHold'
  BY <1>1 DEF LimitsHold
<1>2. CASE UNCHANGED vars
  BY <1>1, <1>2 DEF vars, history, LInv, CallsFresh, ListsTrack
<1>3. ASSUME NEW c \in Clients, NEW tenant \in Tenants, Arrive(c, tenant) PROVE LInv' /\ LimitsHold'
  BY <1>1, <1>3, ArriveStep DEF Arrive, history
<1>4. ASSUME NEW c \in Clients, RefuseGlobal(c) PROVE LInv' /\ LimitsHold'
  BY <1>1, <1>4, RefuseGlobalStep DEF RefuseGlobal, history
<1>5. ASSUME NEW c \in Clients, RefuseTenant(c) PROVE LInv' /\ LimitsHold'
  BY <1>1, <1>5, RefuseTenantStep DEF RefuseTenant, history
<1> QED
  BY <1>2, <1>3, <1>4, <1>5, AllowStep, TickStep DEF Next

\* No span of Window - Skew seconds has more accepted submissions than the
\* limits of submitLimiter.allow, however requests overtake each other.
THEOREM LimitsAlwaysHold == Spec => []LimitsHold
BY InitLInv, StepLInv, PTL DEF Spec

\* A refused submission had a reason: the tenant or all of them had the maximum
\* accepted in the last Window + Skew seconds.
THEOREM RefusalsHaveReasons == Spec => RefusalsJustified
<1> DEFINE Reasons ==
      \A c \in Clients :
          call[c].on /\ ~call'[c].on /\ accepted' = accepted =>
              LET first == call[c].ts - (Window + Skew) + 1
              IN  \/ GlobalMax > 0 /\ Accepted(accepted, first, now) >= GlobalMax
                  \/ /\ PerTenantMax > 0
                     /\ Accepted(acceptedOf[call[c].tenant], first, now) >= PerTenantMax
<1>1. LInv /\ [Next]_vars => [Reasons]_vars
  <2> SUFFICES ASSUME LInv, Next, NEW c \in Clients,
                      call[c].on, ~call'[c].on, accepted' = accepted
               PROVE  LET first == call[c].ts - (Window + Skew) + 1
                      IN  \/ GlobalMax > 0 /\ Accepted(accepted, first, now) >= GlobalMax
                          \/ /\ PerTenantMax > 0
                             /\ Accepted(acceptedOf[call[c].tenant], first, now) >= PerTenantMax
    OBVIOUS
  <2>1. call \in [Clients -> Calls] /\ PerTenantMax \in Nat /\ GlobalMax \in Nat
    BY LimiterAssumption DEF LInv, CallsFresh
  <2>2. ASSUME NEW b \in Clients, b # c, NEW r, call' = [call EXCEPT ![b] = r] PROVE FALSE
    BY <2>1, <2>2
  <2>3. ASSUME NEW b \in Clients, NEW tenant \in Tenants, Arrive(b, tenant) PROVE FALSE
    BY <2>1, <2>2, <2>3 DEF Arrive
  <2>4. ASSUME NEW b \in Clients, Allow(b) PROVE FALSE
    <3>1. accepted \in Seq(Nat) /\ accepted = Append(accepted, call[b].ts)
      BY <2>4 DEF LInv, ListsTrack, Allow
    <3>2. call[b].ts \in Nat
      BY <2>1 DEF Calls
    <3>3. Len(Append(accepted, call[b].ts)) = Len(accepted) + 1 /\ Len(accepted) \in Nat
      BY <3>1, <3>2
    <3> QED
      BY <3>1, <3>3
  <2>5. ASSUME Tick PROVE FALSE
    BY <2>5 DEF Tick
  <2>6. PICK b \in Clients : RefuseGlobal(b) \/ RefuseTenant(b)
    BY <2>3, <2>4, <2>5 DEF Next
  <2>7. b = c
    BY <2>2, <2>6 DEF RefuseGlobal, RefuseTenant
  <2>8. CASE GlobalFull(c)
    BY <2>1, <2>8, CallFacts, FullList DEF GlobalFull, Trimmed, Limiting
  <2>9. CASE TenantFull(c)
    <3>1. Tracks(tenants[call[c].tenant], acceptedOf[call[c].tenant], now)
      BY <2>9, CallFacts DEF TenantFull, Limiting
    <3> QED
      BY <2>1, <2>9, <3>1, CallFacts, FullList DEF TenantFull, Trimmed
  <2> QED
    BY <2>6, <2>7, <2>8, <2>9 DEF RefuseGlobal, RefuseTenant
<1> QED
  BY <1>1, InitLInv, StepLInv, PTL DEF Spec, RefusalsJustified
=============================================================================
