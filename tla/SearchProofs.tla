---------------------------- MODULE SearchProofs ----------------------------
(***************************************************************************)
(* What a client that reads every page of a listing can rely on, for every *)
(* table, query, page size and number of writes.  A client that has read   *)
(* the first k rows of the listing has left rows behind and has rows       *)
(* ahead.  A row that comes to a place moves those after it one on, so one *)
(* row at most is ahead again; a row that leaves its place moves those     *)
(* after it one back, so one row at most is behind and was never seen.  A  *)
(* patch of the date does both at once, and the row it moves may itself be *)
(* the one that is seen again or missed; still it counts once.  The        *)
(* invariant counts both, and what lies ahead against the count of the     *)
(* search under way, which says when to stop.                              *)
(***************************************************************************)
EXTENDS Search, FiniteSetTheorems, SequenceTheorems, TLAPS

-----------------------------------------------------------------------------
(* Ranks.                                                                  *)

\* The rows S of t have places of their own.
Orders(t, S) ==
    \A e \in S : /\ t[e].place \in Nat
                 /\ \A f \in S : t[e].place = t[f].place => e = f

\* Each row has a rank of its own, in the order of the places.
LEMMA RanksAreOwn ==
    ASSUME NEW t, NEW S, Orders(t, S), IsFiniteSet(S)
    PROVE  /\ \A e \in S : Rank(t, S, e) \in 1..Cardinality(S)
           /\ \A e, f \in S : t[e].place < t[f].place => Rank(t, S, e) < Rank(t, S, f)
           /\ \A e, f \in S : Rank(t, S, e) = Rank(t, S, f) => e = f
<1> DEFINE UpTo(e) == {f \in S : t[f].place <= t[e].place}
<1>1. ASSUME NEW e \in S PROVE Rank(t, S, e) \in 1..Cardinality(S)
  <2>1. IsFiniteSet(UpTo(e)) /\ Cardinality(UpTo(e)) <= Cardinality(S)
    BY FS_Subset
  <2>2. e \in UpTo(e)
    <3>1. t[e].place \in Nat
      BY DEF Orders
    <3> QED BY <3>1
  <2>3. Cardinality(UpTo(e)) \in Nat /\ Cardinality(UpTo(e)) # 0 /\ Cardinality(S) \in Nat
    BY <2>1, <2>2, FS_CardinalityType, FS_EmptySet
  <2> HIDE DEF UpTo
  <2>4. Rank(t, S, e) = Cardinality(UpTo(e))
    BY DEF Rank, UpTo
  <2> QED BY <2>1, <2>3, <2>4
<1>2. ASSUME NEW e \in S, NEW f \in S, t[e].place < t[f].place
      PROVE  Rank(t, S, e) < Rank(t, S, f)
  <2>1. UpTo(e) \subseteq UpTo(f) /\ f \in UpTo(f) /\ f \notin UpTo(e)
    <3>1. \A g \in S : t[g].place \in Nat
      BY DEF Orders
    <3>2. /\ ~(t[f].place <= t[e].place) /\ t[f].place <= t[f].place
          /\ \A g \in S : t[g].place <= t[e].place => t[g].place <= t[f].place
      BY <1>2, <3>1
    <3> QED BY <3>2
  <2>2. IsFiniteSet(UpTo(f)) /\ IsFiniteSet(UpTo(e))
    BY FS_Subset
  <2> HIDE DEF UpTo
  <2>3. Cardinality(UpTo(e)) <= Cardinality(UpTo(f)) /\ Cardinality(UpTo(e)) # Cardinality(UpTo(f))
    BY <2>1, <2>2, FS_Subset
  <2>4. Cardinality(UpTo(e)) \in Nat /\ Cardinality(UpTo(f)) \in Nat
    BY <2>2, FS_CardinalityType
  <2>5. Rank(t, S, e) = Cardinality(UpTo(e)) /\ Rank(t, S, f) = Cardinality(UpTo(f))
    BY DEF Rank, UpTo
  <2> QED BY <2>3, <2>4, <2>5
<1>3. ASSUME NEW e \in S, NEW f \in S, Rank(t, S, e) = Rank(t, S, f) PROVE e = f
  <2>1. t[e].place \in Nat /\ t[f].place \in Nat /\ (t[e].place = t[f].place => e = f)
    BY DEF Orders
  <2>2. Rank(t, S, e) \in 1..Cardinality(S) /\ Cardinality(S) \in Nat
    BY <1>1, FS_CardinalityType
  <2>3. ~(t[e].place < t[f].place) /\ ~(t[f].place < t[e].place)
    BY <1>2, <1>3, <2>2
  <2> QED BY <2>1, <2>3
<1> QED BY <1>1, <1>2, <1>3

\* Every place up to the number of rows has a row.
LEMMA RanksAreTaken ==
    ASSUME NEW t, NEW S, Orders(t, S), IsFiniteSet(S)
    PROVE  \A i \in 1..Cardinality(S) : \E e \in S : Rank(t, S, e) = i
<1> DEFINE T == 1..Cardinality(S)
           g == [e \in S |-> Rank(t, S, e)]
<1>1. Cardinality(S) \in Nat
  BY FS_CardinalityType
<1>2. IsFiniteSet(T) /\ Cardinality(T) = Cardinality(S)
  BY <1>1, FS_Interval
<1>3. g \in Injection(S, T)
  BY RanksAreOwn DEF Injection, IsInjective
<1> HIDE DEF T
<1>4. g \in Surjection(S, T)
  <2> HIDE DEF g
  <2> QED BY <1>2, <1>3, FS_Injection
<1> QED BY <1>4 DEF Surjection, T

\* The rows in order: one at each place.
LEMMA InOrderLists ==
    ASSUME NEW t, NEW S, Orders(t, S), IsFiniteSet(S)
    PROVE  /\ InOrder(t, S) \in Seq(S)
           /\ Len(InOrder(t, S)) = Cardinality(S)
           /\ \A i \in 1..Cardinality(S) : Rank(t, S, InOrder(t, S)[i]) = i
           /\ \A e \in S : InOrder(t, S)[Rank(t, S, e)] = e
<1>1. Cardinality(S) \in Nat
  BY FS_CardinalityType
<1>2. \A i \in 1..Cardinality(S) : InOrder(t, S)[i] \in S /\ Rank(t, S, InOrder(t, S)[i]) = i
  <2> SUFFICES ASSUME NEW i \in 1..Cardinality(S)
               PROVE  InOrder(t, S)[i] \in S /\ Rank(t, S, InOrder(t, S)[i]) = i
    OBVIOUS
  <2>1. \E e \in S : Rank(t, S, e) = i
    BY RanksAreTaken
  <2>2. InOrder(t, S)[i] = CHOOSE e \in S : Rank(t, S, e) = i
    BY DEF InOrder
  <2> QED BY <2>1, <2>2
<1>3. /\ DOMAIN InOrder(t, S) = 1..Cardinality(S)
      /\ InOrder(t, S) = [i \in 1..Cardinality(S) |-> InOrder(t, S)[i]]
  BY DEF InOrder
<1>4. InOrder(t, S) \in [1..Cardinality(S) -> S]
  BY <1>2, <1>3
<1>5. InOrder(t, S) \in Seq(S) /\ Len(InOrder(t, S)) = Cardinality(S)
  BY <1>1, <1>4
<1>6. ASSUME NEW e \in S PROVE InOrder(t, S)[Rank(t, S, e)] = e
  <2>1. Rank(t, S, e) \in 1..Cardinality(S)
    BY RanksAreOwn
  <2>2. InOrder(t, S)[Rank(t, S, e)] \in S /\ Rank(t, S, InOrder(t, S)[Rank(t, S, e)]) = Rank(t, S, e)
    BY <1>2, <2>1
  <2>3. \A f, g \in S : Rank(t, S, f) = Rank(t, S, g) => f = g
    BY RanksAreOwn
  <2> HIDE DEF InOrder
  <2> QED BY <2>2, <2>3
<1> QED BY <1>2, <1>5, <1>6

\* A sequence without repetitions is as long as its range is large.
LEMMA NoRepetition ==
    ASSUME NEW S, NEW s \in Seq(S), \A i, j \in DOMAIN s : s[i] = s[j] => i = j
    PROVE  IsFiniteSet(Range(s)) /\ Cardinality(Range(s)) = Len(s)
<1> DEFINE T == 1..Len(s)
<1>1. Len(s) \in Nat /\ DOMAIN s = T /\ s \in [T -> S]
  BY LenProperties
<1>2. IsFiniteSet(T) /\ Cardinality(T) = Len(s)
  <2>1. 1 \in Int /\ Len(s) \in Int /\ (IF 1 > Len(s) THEN 0 ELSE Len(s) - 1 + 1) = Len(s)
    BY <1>1
  <2> QED BY <2>1, FS_Interval
<1> HIDE DEF T
<1>3. s \in [T -> Range(s)] /\ \A t \in Range(s) : \E i \in T : s[i] = t
  BY <1>1 DEF Range
<1>4. s \in Bijection(T, Range(s))
  BY <1>1, <1>3 DEF Bijection, Injection, Surjection, IsInjective
<1>5. ExistsBijection(T, Range(s))
  BY <1>4 DEF ExistsBijection
<1> QED BY <1>2, <1>5, FS_Bijection

\* Any sequence has a finite range, no larger than it is long.
LEMMA RangeIsFinite ==
    ASSUME NEW S, NEW s \in Seq(S)
    PROVE  /\ IsFiniteSet(Range(s))
           /\ Cardinality(Range(s)) \in Nat
           /\ Cardinality(Range(s)) <= Len(s)
<1> DEFINE T == 1..Len(s)
<1>1. Len(s) \in Nat /\ DOMAIN s = T /\ s \in [T -> S]
  BY LenProperties
<1>2. IsFiniteSet(T) /\ Cardinality(T) = Len(s)
  <2>1. 1 \in Int /\ Len(s) \in Int /\ (IF 1 > Len(s) THEN 0 ELSE Len(s) - 1 + 1) = Len(s)
    BY <1>1
  <2> QED BY <2>1, FS_Interval
<1> HIDE DEF T
<1>3. s \in Surjection(T, Range(s))
  BY <1>1 DEF Surjection, Range
<1> QED BY <1>2, <1>3, FS_Surjection, FS_CardinalityType

\* A slice holds the rows at its places, each once.
LEMMA SliceHolds ==
    ASSUME NEW t, NEW S, Orders(t, S), IsFiniteSet(S), NEW o \in Nat, NEW n \in Nat
    PROVE  LET s == Slice(InOrder(t, S), o, n)
           IN  /\ s \in Seq(S)
               /\ Len(s) <= n
               /\ Range(s) \subseteq S
               /\ \A e \in S : e \in Range(s) <=> o < Rank(t, S, e) /\ Rank(t, S, e) <= o + n
               /\ IsFiniteSet(Range(s))
               /\ Cardinality(Range(s)) = Len(s)
<1> DEFINE list == InOrder(t, S)
           last == IF o + n < Len(list) THEN o + n ELSE Len(list)
           s == SubSeq(list, o + 1, last)
<1>1. /\ list \in Seq(S) /\ Len(list) \in Nat /\ Len(list) = Cardinality(S)
      /\ \A i \in 1..Len(list) : list[i] \in S /\ Rank(t, S, list[i]) = i
      /\ \A e \in S : list[Rank(t, S, e)] = e /\ Rank(t, S, e) \in 1..Len(list)
  BY InOrderLists, RanksAreOwn, FS_CardinalityType
<1> HIDE DEF list
<1>2. /\ last \in Nat /\ last <= Len(list) /\ last <= o + n
      /\ \A k \in Nat : k <= o + n /\ k <= Len(list) => k <= last
  BY <1>1
<1> HIDE DEF last
<1>3. \A i \in (o + 1)..last : list[i] \in S
  BY <1>1, <1>2
<1>4. /\ s \in Seq(S)
      /\ Len(s) = IF o + 1 <= last THEN last - o ELSE 0
      /\ \A i \in 1..(last - o) : s[i] = list[o + i]
  <2>1. /\ s \in Seq(S)
        /\ Len(s) = IF o + 1 <= last THEN last - (o + 1) + 1 ELSE 0
        /\ \A i \in 1..(last - (o + 1) + 1) : s[i] = list[(o + 1) + i - 1]
    BY <1>2, <1>3, SubSeqProperties
  <2> HIDE DEF s
  <2>2. last - (o + 1) + 1 = last - o /\ \A i \in 1..(last - o) : (o + 1) + i - 1 = o + i
    BY <1>2
  <2> QED BY <2>1, <2>2
<1>5. DOMAIN s = 1..Len(s) /\ Len(s) \in Nat
  BY <1>4, LenProperties
<1> HIDE DEF s
<1>6. \A i \in DOMAIN s : /\ i <= last - o /\ s[i] = list[o + i] /\ o + i \in 1..Len(list)
                         /\ s[i] \in S /\ Rank(t, S, s[i]) = o + i
  <2>1. ASSUME NEW i \in DOMAIN s
        PROVE  i \in 1..(last - o) /\ i <= last - o /\ o + i \in 1..Len(list)
    BY <1>1, <1>2, <1>4, <1>5
  <2>2. ASSUME NEW i \in DOMAIN s
        PROVE  /\ s[i] = list[o + i]
               /\ list[o + i] \in S /\ Rank(t, S, list[o + i]) = o + i
    BY <1>1, <1>4, <2>1
  <2> QED BY <2>1, <2>2
<1>7. /\ Range(s) \subseteq S
      /\ \A e \in S : e \in Range(s) <=> o < Rank(t, S, e) /\ Rank(t, S, e) <= o + n
  <2>1. ASSUME NEW e \in Range(s) PROVE e \in S /\ o < Rank(t, S, e) /\ Rank(t, S, e) <= o + n
    <3>1. PICK i \in DOMAIN s : s[i] = e
      BY <2>1 DEF Range
    <3> QED BY <1>2, <1>5, <1>6, <3>1
  <2>2. ASSUME NEW e \in S, o < Rank(t, S, e), Rank(t, S, e) <= o + n PROVE e \in Range(s)
    <3>1. Rank(t, S, e) - o \in 1..(last - o) /\ Len(s) = last - o
      <4>1. PICK k : k = Rank(t, S, e)
        OBVIOUS
      <4>2. k \in 1..Len(list) /\ Len(list) \in Nat /\ o < k /\ k <= o + n
        BY <1>1, <2>2, <4>1
      <4>3. k \in Nat /\ k <= last
        BY <1>2, <4>2
      <4>4. k - o \in 1..(last - o) /\ o + 1 <= last
        BY <1>2, <4>2, <4>3
      <4> QED BY <1>4, <4>1, <4>4
    <3>2. s[Rank(t, S, e) - o] = list[o + (Rank(t, S, e) - o)]
      BY <1>4, <3>1
    <3>3. o + (Rank(t, S, e) - o) = Rank(t, S, e)
      BY <1>1
    <3> QED BY <1>1, <1>5, <3>1, <3>2, <3>3 DEF Range
  <2> QED BY <2>1, <2>2
<1>8. Len(s) <= n
  BY <1>2, <1>4
<1>9. IsFiniteSet(Range(s)) /\ Cardinality(Range(s)) = Len(s)
  <2>1. \A i, j \in DOMAIN s : s[i] = s[j] => i = j
    BY <1>5, <1>6
  <2> QED BY <1>4, <2>1, NoRepetition
<1> QED BY <1>4, <1>7, <1>8, <1>9 DEF Slice, s, list, last

\* No more rows lie beyond a place than there are places beyond it.
LEMMA RowsBeyond ==
    ASSUME NEW t, NEW S, Orders(t, S), IsFiniteSet(S), NEW k \in Nat
    PROVE  LET T == {e \in S : Rank(t, S, e) > k}
           IN  /\ IsFiniteSet(T)
               /\ Cardinality(T) <= IF Cardinality(S) > k THEN Cardinality(S) - k ELSE 0
<1> DEFINE T == {e \in S : Rank(t, S, e) > k}
           U == (k + 1)..Cardinality(S)
           g == [e \in T |-> Rank(t, S, e)]
<1>1. Cardinality(S) \in Nat
  BY FS_CardinalityType
<1>2. IsFiniteSet(U) /\ Cardinality(U) = IF Cardinality(S) > k THEN Cardinality(S) - k ELSE 0
  <2>1. k + 1 \in Int /\ Cardinality(S) \in Int
    BY <1>1
  <2>2. IsFiniteSet(U)
        /\ Cardinality(U) = IF k + 1 > Cardinality(S) THEN 0 ELSE Cardinality(S) - (k + 1) + 1
    BY <2>1, FS_Interval
  <2> HIDE DEF U
  <2> QED BY <1>1, <2>2
<1>3. g \in Injection(T, U)
  <2>1. \A e \in T : Rank(t, S, e) \in U
    BY <1>1, RanksAreOwn
  <2>2. \A e, f \in T : Rank(t, S, e) = Rank(t, S, f) => e = f
    BY RanksAreOwn
  <2> HIDE DEF T, U
  <2> QED BY <2>1, <2>2 DEF Injection, IsInjective
<1> HIDE DEF T, U, g
<1>4. IsFiniteSet(T) /\ Cardinality(T) <= Cardinality(U)
  BY <1>2, <1>3, FS_Injection
<1> QED BY <1>2, <1>4 DEF T

\* A row that comes moves those after it one rank on.
LEMMA RankAfterInsert ==
    ASSUME NEW t, NEW S, IsFiniteSet(S), NEW x, x \notin S, NEW e
    PROVE  Rank(t, S \cup {x}, e) =
               IF t[x].place <= t[e].place THEN Rank(t, S, e) + 1 ELSE Rank(t, S, e)
<1> DEFINE UpTo == {f \in S : t[f].place <= t[e].place}
<1>1. IsFiniteSet(UpTo) /\ x \notin UpTo
  BY FS_Subset
<1>2. {f \in S \cup {x} : t[f].place <= t[e].place} =
          IF t[x].place <= t[e].place THEN UpTo \cup {x} ELSE UpTo
  OBVIOUS
<1> HIDE DEF UpTo
<1>3. Cardinality(UpTo \cup {x}) = Cardinality(UpTo) + 1
  BY <1>1, FS_AddElement
<1>4. Rank(t, S, e) = Cardinality(UpTo)
  BY DEF Rank, UpTo
<1>5. Rank(t, S \cup {x}, e) = Cardinality({f \in S \cup {x} : t[f].place <= t[e].place})
  BY DEF Rank
<1> QED BY <1>2, <1>3, <1>4, <1>5

\* A set that gains at most one element grows by at most one.
LEMMA AtMostOneMore ==
    ASSUME NEW S, NEW T, IsFiniteSet(S), \A a, b \in T \ S : a = b
    PROVE  IsFiniteSet(T) /\ Cardinality(T) <= Cardinality(S) + 1
<1>1. PICK x : T \ S \subseteq {x}
  OBVIOUS
<1>2. T \subseteq S \cup {x}
  BY <1>1
<1>3. IsFiniteSet(S \cup {x}) /\ Cardinality(S \cup {x}) <= Cardinality(S) + 1
  <2>1. Cardinality(S) \in Nat
    BY FS_CardinalityType
  <2> QED BY <2>1, FS_AddElement
<1>4. IsFiniteSet(T) /\ Cardinality(T) <= Cardinality(S \cup {x})
  BY <1>2, <1>3, FS_Subset
<1>5. Cardinality(T) \in Nat /\ Cardinality(S \cup {x}) \in Nat /\ Cardinality(S) \in Nat
  BY <1>3, <1>4, FS_CardinalityType
<1> QED BY <1>3, <1>4, <1>5

-----------------------------------------------------------------------------
(* Ahead and behind.                                                       *)

\* The rows of Z a client that has read k places of S is to meet, or has left behind.
Ahead(t, S, Z, k) == {e \in S \cap Z : Rank(t, S, e) > k}
Behind(t, S, Z, k) == {e \in S \cap Z : Rank(t, S, e) <= k}

\* Both are finite, and no more lie ahead than there are places.
LEMMA AheadAndBehind ==
    ASSUME NEW t, NEW S, Orders(t, S), IsFiniteSet(S), NEW Z, NEW k \in Nat
    PROVE  /\ IsFiniteSet(Ahead(t, S, Z, k)) /\ Cardinality(Ahead(t, S, Z, k)) \in Nat
           /\ IsFiniteSet(Behind(t, S, Z, k)) /\ Cardinality(Behind(t, S, Z, k)) \in Nat
           /\ Cardinality(Ahead(t, S, Z, k)) <=
                  IF Cardinality(S) > k THEN Cardinality(S) - k ELSE 0
<1> DEFINE T == {e \in S : Rank(t, S, e) > k}
<1>1. IsFiniteSet(T) /\ Cardinality(T) <= IF Cardinality(S) > k THEN Cardinality(S) - k ELSE 0
  BY RowsBeyond
<1>2. Ahead(t, S, Z, k) \subseteq T /\ Behind(t, S, Z, k) \subseteq S
  BY DEF Ahead, Behind
<1> HIDE DEF T
<1>3. /\ IsFiniteSet(Ahead(t, S, Z, k)) /\ Cardinality(Ahead(t, S, Z, k)) <= Cardinality(T)
      /\ IsFiniteSet(Behind(t, S, Z, k))
  BY <1>1, <1>2, FS_Subset
<1>4. /\ Cardinality(T) \in Nat /\ Cardinality(S) \in Nat
      /\ Cardinality(Ahead(t, S, Z, k)) \in Nat /\ Cardinality(Behind(t, S, Z, k)) \in Nat
  BY <1>1, <1>3, FS_CardinalityType
<1> QED BY <1>1, <1>3, <1>4

\* A row that comes puts at most one row of Z ahead again, and none that was ahead
\* behind.
LEMMA RowComes ==
    ASSUME NEW t, NEW S, IsFiniteSet(S), NEW Z, NEW k \in Nat,
           NEW x, x \notin S, Orders(t, S \cup {x})
    PROVE  /\ Cardinality(Ahead(t, S \cup {x}, Z, k)) <= Cardinality(Ahead(t, S, Z, k)) + 1
           /\ x \notin Z => Behind(t, S \cup {x}, Z, k) \subseteq Behind(t, S, Z, k)
<1> DEFINE T == S \cup {x}
<1>1. Orders(t, T) /\ Orders(t, S) /\ IsFiniteSet(T)
  BY FS_AddElement DEF Orders
<1>2. \A e \in S : /\ t[e].place \in Nat /\ t[x].place \in Nat /\ Rank(t, S, e) \in Nat
                   /\ t[x].place # t[e].place
                   /\ Rank(t, T, e) = IF t[x].place <= t[e].place
                                      THEN Rank(t, S, e) + 1 ELSE Rank(t, S, e)
  <2>1. \A e \in S : t[e].place \in Nat /\ t[x].place \in Nat /\ t[x].place # t[e].place
    BY DEF Orders
  <2>2. \A e \in S : Rank(t, S, e) \in Nat
    BY <1>1, RanksAreOwn, FS_CardinalityType
  <2> QED BY <2>1, <2>2, RankAfterInsert
<1>3. \A a, b \in T : t[a].place < t[b].place => Rank(t, T, a) < Rank(t, T, b)
  BY <1>1, RanksAreOwn
<1>4. \A a \in T : Rank(t, T, a) \in Nat
  BY <1>1, RanksAreOwn, FS_CardinalityType
<1>5. \A a, b \in S : Rank(t, S, a) = Rank(t, S, b) => a = b
  BY <1>1, RanksAreOwn
<1>6. ASSUME NEW a \in Ahead(t, T, Z, k) \ Ahead(t, S, Z, k), NEW b \in Ahead(t, T, Z, k) \ Ahead(t, S, Z, k)
      PROVE  a = b
  \* One of S that comes ahead is after x and was at place k.
  <2>1. ASSUME NEW e \in Ahead(t, T, Z, k) \ Ahead(t, S, Z, k), e # x
        PROVE  e \in S /\ t[x].place < t[e].place /\ Rank(t, S, e) = k /\ Rank(t, T, e) = k + 1
    <3>1. e \in S /\ e \in Z /\ Rank(t, T, e) > k /\ ~(Rank(t, S, e) > k)
      BY <2>1 DEF Ahead
    <3>2. /\ t[e].place \in Nat /\ t[x].place \in Nat /\ Rank(t, S, e) \in Nat
          /\ t[x].place # t[e].place
          /\ Rank(t, T, e) = IF t[x].place <= t[e].place
                             THEN Rank(t, S, e) + 1 ELSE Rank(t, S, e)
      BY <1>2, <3>1
    <3> HIDE DEF T
    <3> QED BY <2>1, <3>1, <3>2
  <2>2. ASSUME NEW e \in Ahead(t, T, Z, k) \ Ahead(t, S, Z, k), e # x,
               x \in Ahead(t, T, Z, k)
        PROVE  FALSE
    <3>1. t[x].place < t[e].place /\ Rank(t, T, e) = k + 1 /\ e \in T
      BY <2>1, <2>2
    <3>2. x \in T /\ Rank(t, T, x) > k
      BY <2>2 DEF Ahead
    <3>3. Rank(t, T, x) < Rank(t, T, e)
      BY <1>3, <3>1, <3>2
    <3>4. Rank(t, T, x) \in Nat
      BY <1>4, <3>2
    <3> HIDE DEF T
    <3> QED BY <3>1, <3>2, <3>3, <3>4
  <2>3. CASE a # x /\ b # x
    <3>1. a \in S /\ b \in S /\ Rank(t, S, a) = Rank(t, S, b)
      BY <2>1, <2>3
    <3> QED BY <1>5, <3>1
  <2> QED BY <2>2, <2>3
<1>7. Cardinality(Ahead(t, T, Z, k)) <= Cardinality(Ahead(t, S, Z, k)) + 1
  <2> HIDE DEF T
  <2> QED BY <1>1, <1>6, AheadAndBehind, AtMostOneMore
<1>8. ASSUME x \notin Z PROVE Behind(t, T, Z, k) \subseteq Behind(t, S, Z, k)
  <2> SUFFICES ASSUME NEW e \in Behind(t, T, Z, k) PROVE e \in Behind(t, S, Z, k)
    OBVIOUS
  <2>1. e \in S /\ e \in Z /\ Rank(t, T, e) <= k
    BY <1>8 DEF Behind
  <2>2. Rank(t, S, e) <= k
    <3>1. Rank(t, S, e) \in Nat /\ (Rank(t, T, e) = Rank(t, S, e) + 1 \/ Rank(t, T, e) = Rank(t, S, e))
      BY <1>2, <2>1
    <3> HIDE DEF T
    <3> QED BY <2>1, <3>1
  <2> QED BY <2>1, <2>2 DEF Behind
<1> QED BY <1>7, <1>8

\* A row that goes puts at most one row of Z behind, and none that was behind ahead.
LEMMA RowGoes ==
    ASSUME NEW t, NEW S, Orders(t, S), IsFiniteSet(S), NEW Z, NEW k \in Nat, NEW x \in S
    PROVE  /\ Cardinality(Behind(t, S \ {x}, Z, k)) <= Cardinality(Behind(t, S, Z, k)) + 1
           /\ Ahead(t, S \ {x}, Z, k) \subseteq Ahead(t, S, Z, k)
<1> DEFINE T == S \ {x}
<1>1. Orders(t, T) /\ IsFiniteSet(T) /\ x \notin T /\ S = T \cup {x}
  BY FS_RemoveElement DEF Orders
<1>2. \A e \in T : /\ Rank(t, T, e) \in Nat
                   /\ Rank(t, S, e) = Rank(t, T, e) \/ Rank(t, S, e) = Rank(t, T, e) + 1
  <2>1. \A e \in T : Rank(t, T, e) \in Nat
    BY <1>1, RanksAreOwn, FS_CardinalityType
  <2> HIDE DEF T
  <2>2. \A e \in T : \/ Rank(t, T \cup {x}, e) = Rank(t, T, e)
                     \/ Rank(t, T \cup {x}, e) = Rank(t, T, e) + 1
    BY <1>1, RankAfterInsert
  <2>3. \A e \in T : Rank(t, S, e) = Rank(t, T \cup {x}, e)
    BY <1>1
  <2> QED BY <2>1, <2>2, <2>3
<1>3. \A a, b \in S : Rank(t, S, a) = Rank(t, S, b) => a = b
  BY RanksAreOwn
<1>4. \A a, b \in Behind(t, T, Z, k) \ Behind(t, S, Z, k) : a = b
  <2>1. ASSUME NEW e \in Behind(t, T, Z, k) \ Behind(t, S, Z, k)
        PROVE  e \in S /\ Rank(t, S, e) = k + 1
    <3>1. e \in T /\ e \in S /\ Rank(t, T, e) <= k /\ ~(Rank(t, S, e) <= k)
      BY <2>1 DEF Behind
    <3> HIDE DEF T
    <3> QED BY <1>2, <3>1
  <2> QED BY <1>3, <2>1
<1>5. Cardinality(Behind(t, T, Z, k)) <= Cardinality(Behind(t, S, Z, k)) + 1
  <2> HIDE DEF T
  <2> QED BY <1>1, <1>4, AheadAndBehind, AtMostOneMore
<1>6. Ahead(t, T, Z, k) \subseteq Ahead(t, S, Z, k)
  <2> SUFFICES ASSUME NEW e \in Ahead(t, T, Z, k) PROVE e \in Ahead(t, S, Z, k)
    OBVIOUS
  <2>1. e \in T /\ e \in S /\ e \in Z /\ Rank(t, T, e) > k
    BY DEF Ahead
  <2>2. Rank(t, S, e) > k
    <3> HIDE DEF T
    <3> QED BY <1>2, <2>1
  <2> QED BY <2>1, <2>2 DEF Ahead
<1> QED BY <1>5, <1>6

\* What is ahead and behind depends on the places of the rows alone.
LEMMA SamePlaces ==
    ASSUME NEW t, NEW u, NEW S, \A e \in S : u[e].place = t[e].place, NEW Z, NEW k
    PROVE  Ahead(u, S, Z, k) = Ahead(t, S, Z, k) /\ Behind(u, S, Z, k) = Behind(t, S, Z, k)
<1>1. ASSUME NEW e \in S PROVE Rank(u, S, e) = Rank(t, S, e)
  BY <1>1 DEF Rank
<1> QED BY <1>1 DEF Ahead, Behind

\* A row of Z that was ahead leaves no row behind where it goes.
LEMMA AheadGoes ==
    ASSUME NEW t, NEW S, Orders(t, S), IsFiniteSet(S), NEW Z, NEW k \in Nat,
           NEW x \in S, Rank(t, S, x) > k
    PROVE  Behind(t, S \ {x}, Z, k) \subseteq Behind(t, S, Z, k)
<1> DEFINE T == S \ {x}
<1>1. Orders(t, T) /\ IsFiniteSet(T) /\ x \notin T /\ S = T \cup {x} /\ T \subseteq S
  BY FS_RemoveElement DEF Orders
<1>2. ASSUME NEW e \in T, Rank(t, T, e) <= k PROVE Rank(t, S, e) <= k
  <2>1. /\ Rank(t, T, e) \in Nat /\ Rank(t, S, e) \in Nat /\ Rank(t, S, x) \in Nat
        /\ t[e].place \in Nat /\ t[x].place \in Nat
        /\ t[x].place < t[e].place => Rank(t, S, x) < Rank(t, S, e)
        /\ t[x].place # t[e].place
    BY <1>1, RanksAreOwn, FS_CardinalityType DEF Orders
  <2>2. Rank(t, S, e) = IF t[x].place <= t[e].place THEN Rank(t, T, e) + 1 ELSE Rank(t, T, e)
    BY <1>1, RankAfterInsert
  <2> HIDE DEF T
  <2> QED BY <1>2, <2>1, <2>2
<1> QED BY <1>2 DEF Behind

\* A row x that leaves its place, comes to one or does both puts at most one row of Z
\* ahead again, if it comes, and at most one behind, if it goes.
LEMMA Moves ==
    ASSUME NEW t, NEW S, Orders(t, S), IsFiniteSet(S),
           NEW u, NEW T, Orders(u, T), IsFiniteSet(T),
           NEW x, S \ {x} = T \ {x}, \A e \in S \ {x} : u[e].place = t[e].place,
           NEW k \in Nat
    PROVE  /\ \A Z : Cardinality(Ahead(u, T, Z, k)) <=
                         Cardinality(Ahead(t, S, Z, k)) + (IF x \in T THEN 1 ELSE 0)
           /\ \A Z \in SUBSET S :
                 LET Y == IF x \in T THEN Z ELSE Z \ {x}
                 IN  Cardinality(Behind(u, T, Y, k)) <=
                         Cardinality(Behind(t, S, Z, k)) + (IF x \in S THEN 1 ELSE 0)
<1> DEFINE R == S \ {x}
<1>1. /\ Orders(t, R) /\ Orders(u, R) /\ IsFiniteSet(R) /\ x \notin R
      /\ x \notin S => S = R
      /\ x \notin T => T = R
      /\ x \in T => T = R \cup {x} /\ Orders(u, R \cup {x})
  <2>1. Orders(t, R) /\ Orders(u, R)
    BY DEF Orders
  <2>2. IsFiniteSet(R)
    BY FS_RemoveElement, FS_Subset
  <2>3. x \in T => T = R \cup {x}
    OBVIOUS
  <2>4. x \in T => Orders(u, R \cup {x})
    BY <2>3, Zenon
  <2> QED BY <2>1, <2>2, <2>3, <2>4
<1>2. \A e \in R : u[e].place = t[e].place
  OBVIOUS
<1> HIDE DEF R
<1>3. \A Z : Ahead(u, R, Z, k) = Ahead(t, R, Z, k) /\ Behind(u, R, Z, k) = Behind(t, R, Z, k)
  BY <1>2, SamePlaces
<1>4. \A Z : /\ IsFiniteSet(Ahead(t, S, Z, k)) /\ Cardinality(Ahead(t, S, Z, k)) \in Nat
             /\ IsFiniteSet(Ahead(u, T, Z, k)) /\ Cardinality(Ahead(u, T, Z, k)) \in Nat
             /\ IsFiniteSet(Behind(t, S, Z, k)) /\ Cardinality(Behind(t, S, Z, k)) \in Nat
             /\ IsFiniteSet(Behind(u, T, Z, k)) /\ Cardinality(Behind(u, T, Z, k)) \in Nat
             /\ IsFiniteSet(Ahead(t, R, Z, k)) /\ Cardinality(Ahead(t, R, Z, k)) \in Nat
             /\ IsFiniteSet(Behind(t, R, Z, k)) /\ Cardinality(Behind(t, R, Z, k)) \in Nat
  BY <1>1, AheadAndBehind
\* Where x goes, first.
<1>5. ASSUME NEW Z
      PROVE  /\ Cardinality(Ahead(t, R, Z, k)) <= Cardinality(Ahead(t, S, Z, k))
             /\ Cardinality(Behind(t, R, Z, k)) <=
                    Cardinality(Behind(t, S, Z, k)) + (IF x \in S THEN 1 ELSE 0)
  <2>1. CASE x \in S
    <3>1. /\ Cardinality(Behind(t, R, Z, k)) <= Cardinality(Behind(t, S, Z, k)) + 1
          /\ Ahead(t, R, Z, k) \subseteq Ahead(t, S, Z, k)
      BY <2>1, RowGoes DEF R
    <3>2. Cardinality(Ahead(t, R, Z, k)) <= Cardinality(Ahead(t, S, Z, k))
      BY <1>4, <3>1, FS_Subset
    <3> QED BY <2>1, <3>1, <3>2
  <2>2. CASE x \notin S
    BY <1>1, <1>4, <2>2
  <2> QED BY <2>1, <2>2
\* Then where it comes.
<1>6. ASSUME NEW Z
      PROVE  Cardinality(Ahead(u, T, Z, k)) <=
                 Cardinality(Ahead(t, S, Z, k)) + (IF x \in T THEN 1 ELSE 0)
  <2>1. CASE x \in T
    <3>1. Cardinality(Ahead(u, T, Z, k)) <= Cardinality(Ahead(u, R, Z, k)) + 1
      BY <1>1, <2>1, RowComes
    <3> QED BY <1>3, <1>4, <1>5, <2>1, <3>1
  <2>2. CASE x \notin T
    BY <1>1, <1>3, <1>4, <1>5, <2>2
  <2> QED BY <2>1, <2>2
<1>7. ASSUME NEW Z, x \notin Z
      PROVE  Cardinality(Behind(u, T, Z, k)) <=
                 Cardinality(Behind(t, S, Z, k)) + (IF x \in S THEN 1 ELSE 0)
  <2>1. Behind(u, T, Z, k) \subseteq Behind(t, R, Z, k)
    <3>1. CASE x \in T
      <4>1. Behind(u, R \cup {x}, Z, k) \subseteq Behind(u, R, Z, k)
        BY <1>1, <1>7, <3>1, RowComes
      <4> QED BY <1>1, <1>3, <3>1, <4>1
    <3>2. CASE x \notin T
      BY <1>1, <1>3, <3>2
    <3> QED BY <3>1, <3>2
  <2>2. Cardinality(Behind(u, T, Z, k)) <= Cardinality(Behind(t, R, Z, k))
    BY <1>4, <2>1, FS_Subset
  <2> QED BY <1>4, <1>5, <2>2
\* A row of Z that moves may be behind where it comes, but then it was behind before,
\* or no other is behind for its going.
<1>8. ASSUME NEW Z, x \in Z, x \in S, x \in T
      PROVE  Cardinality(Behind(u, T, Z, k)) <= Cardinality(Behind(t, S, Z, k)) + 1
  <2> DEFINE Y == Z \ {x}
  <2>1. Behind(u, T, Y, k) \subseteq Behind(t, R, Y, k)
    <3>1. x \notin Y
      OBVIOUS
    <3> HIDE DEF Y
    <3>2. Behind(u, R \cup {x}, Y, k) \subseteq Behind(u, R, Y, k)
      BY <1>1, <1>8, <3>1, RowComes
    <3> QED BY <1>1, <1>3, <1>8, <3>2
  <2>2. Behind(u, T, Z, k) \subseteq Behind(t, R, Y, k) \cup {x}
    BY <2>1 DEF Behind
  <2>3. /\ IsFiniteSet(Behind(t, R, Y, k)) /\ Cardinality(Behind(t, R, Y, k)) \in Nat
        /\ Cardinality(Behind(t, R, Y, k) \cup {x}) <= Cardinality(Behind(t, R, Y, k)) + 1
        /\ IsFiniteSet(Behind(t, R, Y, k) \cup {x})
        /\ Cardinality(Behind(t, R, Y, k) \cup {x}) \in Nat
    <3>1. PICK B : B = Behind(t, R, Y, k)
      OBVIOUS
    <3>2. IsFiniteSet(B) /\ Cardinality(B) \in Nat
      BY <1>4, <3>1
    <3>3. IsFiniteSet(B \cup {x}) /\ Cardinality(B \cup {x}) <= Cardinality(B) + 1
      <4>1. \A a, b \in (B \cup {x}) \ B : a = b
        OBVIOUS
      <4> QED BY <3>2, <4>1, AtMostOneMore
    <3>4. Cardinality(B \cup {x}) \in Nat
      BY <3>3, FS_CardinalityType
    <3> QED BY <3>1, <3>2, <3>3, <3>4
  <2>4. Cardinality(Behind(u, T, Z, k)) <= Cardinality(Behind(t, R, Y, k)) + 1
    <3>1. Cardinality(Behind(u, T, Z, k)) <= Cardinality(Behind(t, R, Y, k) \cup {x})
      BY <2>2, <2>3, FS_Subset
    <3> QED BY <1>4, <2>3, <3>1
  <2>5. Cardinality(Behind(t, R, Y, k)) <= Cardinality(Behind(t, S, Z, k))
    <3>1. CASE Rank(t, S, x) > k
      <4>1. Behind(t, R, Z, k) \subseteq Behind(t, S, Z, k)
        BY <1>8, <3>1, AheadGoes DEF R
      <4>2. Behind(t, R, Y, k) \subseteq Behind(t, R, Z, k)
        BY DEF Behind
      <4> QED BY <1>4, <4>1, <4>2, FS_Subset
    <3>2. CASE ~(Rank(t, S, x) > k)
      <4>1. Rank(t, S, x) \in Nat
        BY <1>8, RanksAreOwn, FS_CardinalityType
      <4>2. x \in Behind(t, S, Z, k) /\ Behind(t, S, Y, k) = Behind(t, S, Z, k) \ {x}
        BY <1>8, <3>2, <4>1 DEF Behind
      <4>3. Cardinality(Behind(t, S, Y, k)) = Cardinality(Behind(t, S, Z, k)) - 1
        <5>1. PICK B : B = Behind(t, S, Z, k)
          OBVIOUS
        <5>2. IsFiniteSet(B) /\ x \in B
          BY <1>4, <4>2, <5>1
        <5>3. Cardinality(B \ {x}) = Cardinality(B) - 1
          BY <5>2, FS_RemoveElement
        <5> QED BY <4>2, <5>1, <5>3
      <4>4. Cardinality(Behind(t, R, Y, k)) <= Cardinality(Behind(t, S, Y, k)) + 1
        BY <1>5, <1>8
      <4> QED BY <1>4, <4>3, <4>4
    <3> QED BY <3>1, <3>2
  <2> QED BY <1>4, <2>3, <2>4, <2>5
<1>9. ASSUME NEW Z \in SUBSET S
      PROVE  LET Y == IF x \in T THEN Z ELSE Z \ {x}
             IN  Cardinality(Behind(u, T, Y, k)) <=
                     Cardinality(Behind(t, S, Z, k)) + (IF x \in S THEN 1 ELSE 0)
  <2>1. CASE x \in T
    <3>1. CASE x \in Z
      BY <1>8, <1>9, <2>1, <3>1
    <3>2. CASE x \notin Z
      BY <1>7, <2>1, <3>2
    <3> QED BY <2>1, <3>1, <3>2
  <2>2. CASE x \notin T
    <3>1. Behind(u, T, Z \ {x}, k) = Behind(t, R, Z, k)
      <4>1. Behind(u, T, Z \ {x}, k) = Behind(u, R, Z, k)
        BY <1>1, <2>2 DEF Behind
      <4> QED BY <1>3, <4>1
    <3> QED BY <1>5, <2>2, <3>1
  <2> QED BY <2>1, <2>2
<1> QED BY <1>6, <1>9

-----------------------------------------------------------------------------
(* The inductive invariant.                                                *)

Found == Matching(query)
Size == NormalizeSize(query.size)

\* What the page that was fetched shows, if the client has not had it yet; what it
\* has seen with it; how many rows of the listing it is past.
Fetched == IF data = NoData THEN {} ELSE Range(data)
Seen == Range(shown) \cup Fetched
Passed == OffsetFor(IF data = NoData THEN page ELSE page + 1, Size)

Missing == since \ Seen
Repeated == Len(shown) - Cardinality(Range(shown)) + Cardinality(Fetched \cap Range(shown))
Excess(m, n) == IF m > n THEN m - n ELSE 0

\* What the searches rest on that no patch changes.
Owned(e) ==
    IF query.list \in {"paymentMethods", "apiKeys"}
    THEN OwnerOf[e] = User
    ELSE User \in Members[GroupOf[e]]

KindsInv ==
    /\ TypeOK
    /\ IsFiniteSet(DOMAIN table)
    /\ came \in Nat /\ went \in Nat /\ slipped \in Nat
    /\ page = 0 => shown = << >> /\ since = {}
    /\ ~Reading => data = NoData /\ count = NoCount
    /\ page > 0 => query \in Queries /\ MayList(query)
    /\ Reading => since \subseteq Found

RowsInv ==
    /\ \A e \in Seen : Owned(e)
    /\ data # NoData => Cardinality(Range(data)) = Len(data)

\* Of the rows it misses no more lie behind the client than left a place; what lies
\* ahead is no more than the count of this search says and what slipped in.
MissedInv ==
    /\ Reading => Cardinality(Behind(table, Found, Missing, Passed)) <= went
    /\ count # NoCount /\ data = NoData => Cardinality(Found) <= count.total + slipped
    /\ count # NoCount /\ data # NoData =>
          Cardinality(Missing) <= went + slipped + Excess(count.total, Passed)
    /\ MissedOnlyByWrites

\* What it saw twice, and what it saw once and is ahead again.
RepeatedInv ==
    Repeated + (IF Reading THEN Cardinality(Ahead(table, Found, Seen, Passed)) ELSE 0) <= came

SearchInv == KindsInv /\ RowsInv /\ MissedInv /\ RepeatedInv

\* The sizes of pages.
LEMMA SizeType ==
    ASSUME NEW q \in Queries
    PROVE  /\ NormalizeSize(q.size) \in Nat \ {0}
           /\ NormalizeSize(q.size) <= MaxSize
<1>1. q.size \in Nat
  BY SearchAssumption
<1> QED BY <1>1, SearchAssumption DEF NormalizeSize

\* The next page begins where this one ends.
LEMMA OffsetType ==
    ASSUME NEW p \in Nat \ {0}, NEW n \in Nat
    PROVE  /\ OffsetFor(p, n) \in Nat
           /\ OffsetFor(p + 1, n) = OffsetFor(p, n) + n
           /\ OffsetFor(1, n) = 0
<1>1. p - 1 \in Nat /\ p + 1 - 1 = (p - 1) + 1 /\ 1 - 1 = 0
  OBVIOUS
<1>2. (p - 1) * n \in Nat /\ ((p - 1) + 1) * n = (p - 1) * n + n /\ 0 * n = 0
  BY <1>1
<1> QED BY <1>1, <1>2 DEF OffsetFor

\* As many pages as the response announces hold all that was counted.
LEMMA PagesHoldAll ==
    ASSUME NEW total \in Nat, NEW n \in Nat \ {0}, NEW p \in Nat \ {0},
           ~(p < TotalPages(total, n))
    PROVE  total <= OffsetFor(p + 1, n)
<1> DEFINE q == TotalPages(total, n)
<1>1. q \in Nat /\ total + n - 1 < (q + 1) * n
  <2> DEFINE a == total + n - 1
  <2>1. a \in Nat
    OBVIOUS
  <2> HIDE DEF a
  <2>2. a \div n \in Nat /\ a < (a \div n + 1) * n
    BY <2>1
  <2>3. q = a \div n
    BY DEF TotalPages, a
  <2> QED BY <2>2, <2>3 DEF a
<1> HIDE DEF q
<1>2. (q + 1) * n = q * n + n
  BY <1>1
<1>3. q <= p
  BY <1>1 DEF q
<1>4. q * n <= p * n
  BY <1>1, <1>3
<1>5. OffsetFor(p + 1, n) = p * n
  <2>1. p + 1 - 1 = p
    OBVIOUS
  <2> QED BY <2>1 DEF OffsetFor
<1>6. q * n \in Nat /\ p * n \in Nat
  BY <1>1
<1> QED BY <1>1, <1>2, <1>4, <1>5, <1>6

\* The rows of a table have places of their own.
LEMMA TablesAreOrdered ==
    ASSUME NEW t, IsTable(t), NEW S \in SUBSET DOMAIN t
    PROVE  Orders(t, S)
<1>1. ASSUME NEW e \in S PROVE t[e].place \in Nat
  <2>1. t[e] \in Entry
    BY DEF IsTable
  <2>2. t[e].place \in Places
    BY <2>1 DEF Entry
  <2> QED BY <2>2, SearchAssumption
<1>2. \A e, f \in S : t[e].place = t[f].place => e = f
  BY DEF IsTable
<1> QED BY <1>1, <1>2 DEF Orders

\* A search that is answered finds only rows of the groups of the user, or its own.
LEMMA FoundAreOwned ==
    ASSUME query \in Queries, MayList(query), NEW e, NEW entry, Matches(query, e, entry)
    PROVE  Owned(e)
<1>1. query.list \in Lists
  BY SearchAssumption
<1>2. CASE query.list = "expenses"
  BY <1>2 DEF Matches, ExpensesWhere, GroupIds, Owned
<1>3. CASE query.list = "groups"
  BY <1>3 DEF Matches, GroupsWhere, Owned
<1>4. CASE query.list = "members"
  <2>1. GroupOf[e] = query.group /\ query.group # NoGroup
    BY <1>4, SearchAssumption DEF Matches, MembersWhere
  <2>2. PICK g \in Groups : User \in Members[g] /\ query.group \in {g, NoGroup}
    BY <2>1 DEF MayList, GroupIds
  <2>3. User \in Members[GroupOf[e]]
    BY <2>1, <2>2
  <2> QED BY <1>4, <2>3 DEF Owned
<1>5. CASE query.list = "paymentMethods"
  BY <1>5 DEF Matches, MethodsWhere, Owned
<1>6. CASE query.list = "apiKeys"
  BY <1>6 DEF Matches, KeysWhere, Owned
<1> QED BY <1>1, <1>2, <1>3, <1>4, <1>5, <1>6 DEF Lists

\* What an invariant state is made of.
LEMMA StateFacts ==
    ASSUME KindsInv
    PROVE  /\ Orders(table, Found) /\ IsFiniteSet(Found) /\ Cardinality(Found) \in Nat
           /\ Found \subseteq DOMAIN table /\ Found \subseteq Rows
           /\ shown \in Seq(Rows)
           /\ IsFiniteSet(Range(shown)) /\ Cardinality(Range(shown)) \in Nat
           /\ Cardinality(Range(shown)) <= Len(shown) /\ Len(shown) \in Nat
           /\ IsFiniteSet(Fetched) /\ IsFiniteSet(Seen)
           /\ page > 0 => Size \in Nat \ {0} /\ Size <= MaxSize /\ Passed \in Nat
           /\ count # NoCount => count.total \in Nat
<1>1. Found \subseteq DOMAIN table /\ IsTable(table)
  BY DEF Found, Matching, KindsInv, TypeOK
<1>2. Orders(table, Found) /\ IsFiniteSet(Found) /\ Found \subseteq Rows
  BY <1>1, TablesAreOrdered, FS_Subset DEF KindsInv, IsTable
<1>3. Cardinality(Found) \in Nat
  BY <1>2, FS_CardinalityType
<1>4. shown \in Seq(Rows)
  BY DEF KindsInv, TypeOK
<1>5. /\ IsFiniteSet(Range(shown)) /\ Cardinality(Range(shown)) \in Nat
      /\ Cardinality(Range(shown)) <= Len(shown) /\ Len(shown) \in Nat
  BY <1>4, RangeIsFinite, LenProperties
<1>6. IsFiniteSet(Fetched)
  <2>1. CASE data = NoData
    BY <2>1, FS_EmptySet DEF Fetched
  <2>2. CASE data # NoData
    <3>1. data \in Seq(Rows)
      BY <2>2 DEF KindsInv, TypeOK
    <3> QED BY <2>2, <3>1, RangeIsFinite DEF Fetched
  <2> QED BY <2>1, <2>2
<1>7. IsFiniteSet(Seen)
  BY <1>5, <1>6, FS_Union DEF Seen
<1>8. ASSUME page > 0 PROVE Size \in Nat \ {0} /\ Size <= MaxSize /\ Passed \in Nat
  <2>1. query \in Queries /\ page \in Nat
    BY <1>8 DEF KindsInv, TypeOK
  <2>2. Size \in Nat \ {0} /\ Size <= MaxSize
    BY <2>1, SizeType DEF Size
  <2>3. page \in Nat \ {0} /\ page + 1 \in Nat \ {0} /\ Size \in Nat
    BY <1>8, <2>1, <2>2
  <2>4. OffsetFor(page, Size) \in Nat /\ OffsetFor(page + 1, Size) \in Nat
    BY <2>3, OffsetType
  <2> QED BY <2>2, <2>4 DEF Passed
<1>9. count # NoCount => count.total \in Nat
  BY DEF KindsInv, TypeOK
<1> QED BY <1>1, <1>2, <1>3, <1>4, <1>5, <1>6, <1>7, <1>8, <1>9

\* Of some rows no more are missing than lie behind, and the places ahead.
LEMMA BehindOrAhead ==
    ASSUME NEW t, NEW S, Orders(t, S), IsFiniteSet(S), NEW Z \in SUBSET S, NEW k \in Nat
    PROVE  /\ Cardinality(Z) \in Nat
           /\ Cardinality(Z) <= Cardinality(Behind(t, S, Z, k)) + Excess(Cardinality(S), k)
<1> DEFINE A == Ahead(t, S, Z, k)
           B == Behind(t, S, Z, k)
<1>1. /\ IsFiniteSet(A) /\ IsFiniteSet(B) /\ Cardinality(A) \in Nat /\ Cardinality(B) \in Nat
      /\ Cardinality(A) <= Excess(Cardinality(S), k)
  BY AheadAndBehind DEF Excess
<1>2. Z = A \cup B /\ A \cap B = {}
  <2>1. \A e \in S : Rank(t, S, e) \in Nat
    BY RanksAreOwn, FS_CardinalityType
  <2>2. \A e \in S : /\ Rank(t, S, e) > k \/ Rank(t, S, e) <= k
                     /\ ~(Rank(t, S, e) > k /\ Rank(t, S, e) <= k)
    BY <2>1
  <2>3. \A e \in S : e \in A <=> e \in Z /\ Rank(t, S, e) > k
    BY DEF Ahead
  <2>4. \A e \in S : e \in B <=> e \in Z /\ Rank(t, S, e) <= k
    BY DEF Behind
  <2>5. A \subseteq S /\ B \subseteq S
    BY DEF Ahead, Behind
  <2> HIDE DEF A, B
  <2> QED BY <2>2, <2>3, <2>4, <2>5
<1>3. Cardinality(S) \in Nat
  BY FS_CardinalityType
<1> HIDE DEF A, B
<1>4. Cardinality(A \cup B) = Cardinality(A) + Cardinality(B) - Cardinality(A \cap B)
  BY <1>1, FS_Union
<1>5. Cardinality(A \cap B) = 0
  BY <1>2, FS_EmptySet
<1>6. Excess(Cardinality(S), k) \in Nat
  BY <1>3 DEF Excess
<1>7. Cardinality(Z) = Cardinality(A) + Cardinality(B)
  BY <1>1, <1>2, <1>4, <1>5
<1> QED BY <1>1, <1>6, <1>7 DEF B

\* Two parts of a set that have nothing in common are together no larger.
LEMMA PartsFit ==
    ASSUME NEW C, IsFiniteSet(C), NEW A \in SUBSET C, NEW B \in SUBSET C, A \cap B = {}
    PROVE  /\ Cardinality(A) \in Nat /\ Cardinality(B) \in Nat /\ Cardinality(C) \in Nat
           /\ Cardinality(A) + Cardinality(B) <= Cardinality(C)
<1>1. IsFiniteSet(A) /\ IsFiniteSet(B)
  BY FS_Subset
<1>2. Cardinality(A \cup B) = Cardinality(A) + Cardinality(B) - Cardinality(A \cap B)
  BY <1>1, FS_Union
<1>3. Cardinality(A \cap B) = 0
  BY FS_EmptySet
<1>4. Cardinality(A \cup B) <= Cardinality(C)
  <2>1. A \cup B \in SUBSET C
    OBVIOUS
  <2> QED BY <2>1, FS_Subset
<1>5. Cardinality(A) \in Nat /\ Cardinality(B) \in Nat /\ Cardinality(C) \in Nat
  BY <1>1, FS_CardinalityType
<1> QED BY <1>2, <1>3, <1>4, <1>5

\* What a search finds depends on the table and the query alone.
LEMMA FoundStays ==
    ASSUME UNCHANGED <<table, query>>
    PROVE  Found' = Found /\ Size' = Size
BY DEF Found, Size, Matching

\* A page is a sequence of rows of the table, those at its places, each once.
LEMMA PageIs ==
    ASSUME KindsInv, Reading
    PROVE  LET o == OffsetFor(page, Size)
               s == PageOf(query, page)
           IN  /\ o \in Nat
               /\ s \in Seq(Rows) /\ s # NoData
               /\ Len(s) <= Size
               /\ Range(s) = {e \in Found : o < Rank(table, Found, e) /\ Rank(table, Found, e) <= o + Size}
               /\ IsFiniteSet(Range(s))
               /\ Cardinality(Range(s)) = Len(s)
<1> DEFINE o == OffsetFor(page, Size)
           s == PageOf(query, page)
<1>1. page \in Nat \ {0} /\ Size \in Nat /\ Orders(table, Found) /\ IsFiniteSet(Found)
  BY StateFacts DEF Reading, KindsInv, TypeOK
<1>2. o \in Nat
  BY <1>1, OffsetType
<1>3. s = Slice(InOrder(table, Found), o, Size)
  BY DEF PageOf, Found, Size
<1> HIDE DEF o, s
<1>4. /\ s \in Seq(Found)
      /\ Len(s) <= Size
      /\ Range(s) = {e \in Found : o < Rank(table, Found, e) /\ Rank(table, Found, e) <= o + Size}
      /\ IsFiniteSet(Range(s))
      /\ Cardinality(Range(s)) = Len(s)
  <2> DEFINE z == Slice(InOrder(table, Found), o, Size)
  <2>1. /\ z \in Seq(Found)
        /\ Len(z) <= Size
        /\ Range(z) \subseteq Found
        /\ \A e \in Found : e \in Range(z) <=>
                                o < Rank(table, Found, e) /\ Rank(table, Found, e) <= o + Size
        /\ IsFiniteSet(Range(z))
        /\ Cardinality(Range(z)) = Len(z)
    BY <1>1, <1>2, SliceHolds
  <2> HIDE DEF z
  <2>2. s = z
    BY <1>3 DEF z
  <2> QED BY <2>1, <2>2
<1>5. Found \subseteq Rows
  BY StateFacts
<1>6. s \in Seq(Rows)
  BY <1>4, <1>5, SeqMonotonic
<1>7. s # NoData
  BY <1>6, NullsAssumption
<1> QED BY <1>2, <1>4, <1>6, <1>7 DEF o, s

\* Before it begins the client has seen and missed nothing.
LEMMA InitEstablishes ==
    ASSUME Init
    PROVE  SearchInv
<1>1. Seen = {} /\ Fetched = {} /\ Range(shown) = {} /\ Len(shown) = 0
  BY DEF Init, Seen, Fetched, Range
<1>2. Cardinality({}) = 0
  BY FS_EmptySet
<1>3. KindsInv
  <2>1. shown \in Seq(Rows)
    BY DEF Init
  <2>2. TypeOK
    <3>1. writes \in 0..MaxWrites /\ came \in 0..writes /\ went \in 0..writes /\ slipped \in 0..came
      BY SearchAssumption DEF Init
    <3>2. /\ IsTable(table) /\ query \in Queries \cup {NoQuery} /\ page \in Nat
          /\ data = NoData /\ count \in [total : Nat] \cup {NoCount}
      BY SearchAssumption DEF Init
    <3>3. since \subseteq Rows /\ done \in BOOLEAN
      BY DEF Init
    <3> QED BY <2>1, <3>1, <3>2, <3>3 DEF TypeOK
  <2>3. ~Reading
    BY DEF Init, Reading
  <2>4. IsFiniteSet(DOMAIN table)
    BY SearchAssumption DEF Init
  <2> QED BY <2>2, <2>3, <2>4 DEF Init, KindsInv
<1>4. RowsInv
  BY <1>1 DEF Init, RowsInv
<1>5. MissedInv
  BY DEF Init, MissedInv, MissedOnlyByWrites, Reading
<1>6. RepeatedInv
  <2>1. Repeated = 0 - 0 + 0
    BY <1>1, <1>2 DEF Repeated
  <2> QED BY <2>1 DEF Init, RepeatedInv, Reading
<1> QED BY <1>3, <1>4, <1>5, <1>6 DEF SearchInv

\* When it begins everything is ahead, or it is refused.
LEMMA BeginKeeps ==
    ASSUME SearchInv, Begin
    PROVE  SearchInv'
<1>1. PICK q \in Queries :
        /\ query' = q
        /\ \/ MayList(q) /\ page' = 1 /\ since' = Matching(q) /\ done' = done
           \/ ~MayList(q) /\ done' = TRUE /\ page' = page /\ since' = since
  BY DEF Begin
<1>2. /\ page = 0 /\ done = FALSE
      /\ UNCHANGED <<table, data, count, shown, writes, came, went, slipped>>
  BY DEF Begin, SearchInv, KindsInv, TypeOK
<1>3. data = NoData /\ count = NoCount /\ shown = << >> /\ since = {}
  BY <1>2 DEF SearchInv, KindsInv, Reading
<1>4. Seen' = {} /\ Fetched' = {} /\ Range(shown') = {} /\ Len(shown') = 0
  BY <1>2, <1>3 DEF Seen, Fetched, Range
<1>5. Cardinality({}) = 0
  BY FS_EmptySet
<1>6. TypeOK /\ IsFiniteSet(DOMAIN table) /\ came \in Nat /\ went \in Nat /\ slipped \in Nat
  BY DEF SearchInv, KindsInv
<1>7. Matching(q) = Found' /\ Found' \subseteq Rows
  BY <1>1, <1>2, <1>6 DEF Found, Matching, TypeOK, IsTable
<1>8. KindsInv'
  <2>1. TypeOK'
    <3>1. page' \in Nat /\ done' \in BOOLEAN /\ since' \subseteq Rows /\ query' \in Queries
      <4>1. query' \in Queries
        BY <1>1
      <4>2. CASE MayList(q)
        <5>1. page' = 1 /\ done' = FALSE /\ since' = Found'
          BY <1>1, <1>2, <1>7, <4>2
        <5> QED BY <1>7, <4>1, <5>1
      <4>3. CASE ~MayList(q)
        <5>1. page' = 0 /\ done' = TRUE /\ since' = {}
          BY <1>1, <1>2, <1>3, <4>3
        <5> QED BY <4>1, <5>1
      <4> QED BY <4>2, <4>3
    <3>2. /\ IsTable(table)' /\ shown' \in Seq(Rows)
          /\ count' \in [total : Nat] \cup {NoCount}
      <4>1. IsTable(table) /\ shown \in Seq(Rows) /\ count \in [total : Nat] \cup {NoCount}
        BY <1>6 DEF TypeOK
      <4> QED BY <1>2, <4>1 DEF IsTable
    <3>3. writes' \in 0..MaxWrites /\ came' \in 0..writes' /\ went' \in 0..writes' /\ slipped' \in 0..came'
      BY <1>2, <1>6 DEF TypeOK
    <3>4. data' = NoData
      BY <1>2, <1>3
    <3> QED BY <3>1, <3>2, <3>3, <3>4 DEF TypeOK
  <2>2. CASE MayList(q)
    BY <1>1, <1>2, <1>3, <1>6, <1>7, <2>1, <2>2 DEF KindsInv
  <2>3. CASE ~MayList(q)
    <3>1. page' = 0 /\ since' = {} /\ ~Reading'
      BY <1>1, <1>2, <1>3, <2>3 DEF Reading
    <3> QED BY <1>2, <1>3, <1>6, <2>1, <3>1 DEF KindsInv
  <2> QED BY <2>2, <2>3
<1>9. RowsInv'
  BY <1>2, <1>3, <1>4 DEF RowsInv
<1>10. Repeated' = 0
  BY <1>4, <1>5 DEF Repeated
<1>11. CASE MayList(q)
  <2>1. page' = 1 /\ since' = Found' /\ done' = FALSE
    BY <1>1, <1>2, <1>7, <1>11
  <2>2. Passed' = 0
    <3>1. Size' \in Nat
      BY <1>1, SizeType DEF Size
    <3> QED BY <1>2, <1>3, <2>1, <3>1, OffsetType DEF Passed
  <2>3. Orders(table, Found') /\ IsFiniteSet(Found') /\ table' = table
    <3>1. Found' \subseteq DOMAIN table
      BY <1>2 DEF Found, Matching
    <3> QED BY <1>2, <1>6, <3>1, FS_Subset, TablesAreOrdered DEF TypeOK
  <2>4. \A e \in Found' : Rank(table', Found', e) \in Nat /\ ~(Rank(table', Found', e) <= 0)
    <3>1. PICK S : S = Found'
      OBVIOUS
    <3>2. (\A e \in S : Rank(table, S, e) \in 1..Cardinality(S)) /\ Cardinality(S) \in Nat
      BY <2>3, <3>1, RanksAreOwn, FS_CardinalityType
    <3>3. \A e \in S : Rank(table, S, e) \in Nat /\ ~(Rank(table, S, e) <= 0)
      BY <3>2
    <3> QED BY <2>3, <3>1, <3>3
  <2>5. Behind(table', Found', Missing', Passed') = {} /\ Ahead(table', Found', Seen', Passed') = {}
    BY <1>4, <2>2, <2>4 DEF Behind, Ahead
  <2>6. MissedInv'
    BY <1>2, <1>3, <1>5, <1>6, <2>1, <2>5 DEF MissedInv, MissedOnlyByWrites
  <2>7. RepeatedInv'
    BY <1>2, <1>5, <1>6, <1>10, <2>5 DEF RepeatedInv
  <2> QED BY <1>8, <1>9, <2>6, <2>7 DEF SearchInv
<1>12. CASE ~MayList(q)
  <2>1. page' = 0 /\ since' = {} /\ done' = TRUE /\ ~Reading'
    BY <1>1, <1>2, <1>3, <1>12 DEF Reading
  <2>2. Cardinality(since' \ Range(shown')) = 0
    BY <1>5, <2>1
  <2>3. MissedInv'
    BY <1>2, <1>3, <1>6, <2>1, <2>2 DEF MissedInv, MissedOnlyByWrites
  <2>4. RepeatedInv'
    BY <1>2, <1>6, <1>10, <2>1 DEF RepeatedInv
  <2> QED BY <1>8, <1>9, <2>3, <2>4 DEF SearchInv
<1> QED BY <1>11, <1>12

\* The page holds just the rows between the places passed before and after: those seen
\* a second time were counted as ahead again.
LEMMA FindManyKeeps ==
    ASSUME SearchInv, FindMany
    PROVE  SearchInv'
<1> DEFINE o == OffsetFor(page, Size)
           s == PageOf(query, page)
<1>1. /\ Reading /\ data = NoData /\ data' = s
      /\ UNCHANGED <<table, query, page, count, shown, done, writes, since, came, went, slipped>>
  BY DEF FindMany, history
<1>2. KindsInv /\ RowsInv /\ MissedInv /\ RepeatedInv
  BY DEF SearchInv
<1>3. /\ o \in Nat /\ s \in Seq(Rows) /\ s # NoData /\ Len(s) <= Size
      /\ Range(s) = {e \in Found : o < Rank(table, Found, e) /\ Rank(table, Found, e) <= o + Size}
      /\ IsFiniteSet(Range(s)) /\ Cardinality(Range(s)) = Len(s)
  BY <1>1, <1>2, PageIs
<1>4. /\ Orders(table, Found) /\ IsFiniteSet(Found) /\ Cardinality(Found) \in Nat
      /\ Size \in Nat \ {0} /\ Size <= MaxSize /\ page \in Nat \ {0}
      /\ Cardinality(Range(shown)) \in Nat /\ Len(shown) \in Nat /\ IsFiniteSet(Range(shown))
  BY <1>1, <1>2, StateFacts DEF Reading, KindsInv, TypeOK
<1>5. Found' = Found /\ Size' = Size
  BY <1>1, FoundStays
<1>6. Passed = o /\ Passed' = o + Size
  BY <1>1, <1>3, <1>4, <1>5, OffsetType DEF Passed
<1> HIDE DEF o, s
<1>7. Fetched = {} /\ Seen = Range(shown) /\ Fetched' = Range(s) /\ Seen' = Range(shown) \cup Range(s)
  BY <1>1, <1>3 DEF Fetched, Seen
<1>8. Reading' /\ since \subseteq Found
  BY <1>1, <1>2 DEF Reading, KindsInv
<1>9. \A e \in Found : Rank(table, Found, e) \in Nat
  BY <1>4, RanksAreOwn
<1>10. KindsInv'
  <2>1. TypeOK'
    <3>1. TypeOK /\ Len(s) <= MaxSize
      <4>1. Len(s) \in Nat /\ MaxSize \in Nat
        BY <1>3, LenProperties, SearchAssumption
      <4> QED BY <1>2, <1>3, <1>4, <4>1 DEF KindsInv
    <3>2. data' \in Seq(Rows) /\ Len(data') <= MaxSize
      BY <1>1, <1>3, <3>1
    <3> QED BY <1>1, <3>1, <3>2 DEF TypeOK
  <2> QED BY <1>1, <1>2, <1>5, <1>8, <2>1 DEF KindsInv
<1>11. RowsInv'
  <2>1. \A e \in Range(s) : Owned(e)
    <3>1. \A e \in Range(s) : Matches(query, e, table[e])
      BY <1>3 DEF Found, Matching
    <3> QED BY <1>1, <1>2, <3>1, FoundAreOwned DEF Reading, KindsInv
  <2>2. \A e \in Seen' : Owned(e)
    BY <1>2, <1>7, <2>1 DEF RowsInv
  <2>3. \A e \in Seen' : Owned(e)'
    BY <1>1, <2>2 DEF Owned
  <2> QED BY <1>1, <1>3, <2>3 DEF RowsInv
<1>12. /\ Behind(table, Found, Missing', o + Size) \subseteq Behind(table, Found, Missing, o)
       /\ Missing' \subseteq Found
  <2>1. Missing' = since \ (Range(shown) \cup Range(s)) /\ Missing = since \ Range(shown)
    BY <1>1, <1>7 DEF Missing
  <2>2. \A e \in Found : e \notin Range(s) /\ Rank(table, Found, e) <= o + Size => Rank(table, Found, e) <= o
    BY <1>3, <1>4, <1>9
  <2> QED BY <1>8, <2>1, <2>2 DEF Behind
<1>13. Cardinality(Behind(table, Found, Missing', o + Size)) <= went
  <2>1. /\ IsFiniteSet(Behind(table, Found, Missing, o)) /\ Cardinality(Behind(table, Found, Missing, o)) \in Nat
        /\ Cardinality(Behind(table, Found, Missing', o + Size)) \in Nat
    BY <1>3, <1>4, AheadAndBehind
  <2>2. Cardinality(Behind(table, Found, Missing, o)) <= went
    BY <1>1, <1>2, <1>6 DEF MissedInv
  <2>3. Cardinality(Behind(table, Found, Missing', o + Size)) <= Cardinality(Behind(table, Found, Missing, o))
    BY <1>12, <2>1, FS_Subset
  <2>4. went \in Nat
    BY <1>2 DEF KindsInv
  <2> QED BY <2>1, <2>2, <2>3, <2>4
<1>14. ASSUME count # NoCount
       PROVE  Cardinality(Missing') <= went + slipped + Excess(count.total, o + Size)
  <2>1. Cardinality(Found) <= count.total + slipped /\ count.total \in Nat
    BY <1>1, <1>2, <1>14, StateFacts DEF MissedInv
  <2>2. /\ Cardinality(Missing') \in Nat
        /\ Cardinality(Missing') <= Cardinality(Behind(table, Found, Missing', o + Size))
                                       + Excess(Cardinality(Found), o + Size)
    <3>1. o + Size \in Nat /\ Missing' \in SUBSET Found
      BY <1>3, <1>4, <1>12
    <3> QED BY <1>4, <3>1, BehindOrAhead
  <2>3. /\ Cardinality(Behind(table, Found, Missing', o + Size)) \in Nat /\ went \in Nat /\ slipped \in Nat
        /\ o + Size \in Nat
    BY <1>2, <1>3, <1>4, AheadAndBehind DEF KindsInv
  <2>4. Excess(Cardinality(Found), o + Size) <= Excess(count.total, o + Size) + slipped
    BY <1>4, <2>1, <2>3 DEF Excess
  <2>5. Excess(Cardinality(Found), o + Size) \in Nat /\ Excess(count.total, o + Size) \in Nat
    BY <1>4, <2>1, <2>3 DEF Excess
  <2> QED BY <1>13, <2>2, <2>3, <2>4, <2>5
<1>15. MissedInv'
  <2>1. done' = FALSE
    BY <1>1, <1>2 DEF Reading, KindsInv, TypeOK
  <2>2. data' # NoData
    BY <1>1, <1>3
  <2> QED BY <1>1, <1>5, <1>6, <1>13, <1>14, <2>1, <2>2 DEF MissedInv, MissedOnlyByWrites
<1>16. RepeatedInv'
  <2> DEFINE A == Range(s) \cap Range(shown)
             B == Ahead(table, Found, Seen', o + Size)
             C == Ahead(table, Found, Seen, o)
  <2>1. IsFiniteSet(C)
    BY <1>3, <1>4, AheadAndBehind
  <2>2. A \subseteq C
    BY <1>3, <1>7, <1>9 DEF Ahead
  <2>3. \A e \in Found : Rank(table, Found, e) > o + Size =>
                           Rank(table, Found, e) > o /\ ~(Rank(table, Found, e) <= o + Size)
    BY <1>3, <1>4, <1>9
  <2>4. B \subseteq C /\ A \cap B = {}
    BY <1>3, <1>7, <2>3 DEF Ahead
  <2>5. /\ Cardinality(A) \in Nat /\ Cardinality(B) \in Nat /\ Cardinality(C) \in Nat
        /\ Cardinality(A) + Cardinality(B) <= Cardinality(C)
    <3> HIDE DEF A, B, C
    <3> QED BY <2>1, <2>2, <2>4, PartsFit
  <2>6. Repeated = Len(shown) - Cardinality(Range(shown)) + 0
    BY <1>7, FS_EmptySet DEF Repeated
  <2>7. Repeated' = Len(shown) - Cardinality(Range(shown)) + Cardinality(A)
    BY <1>1, <1>7 DEF Repeated
  <2>8. Repeated + Cardinality(C) <= came
    BY <1>1, <1>2, <1>6 DEF RepeatedInv
  <2>9. Repeated' + Cardinality(B) <= came
    <3>1. came \in Nat
      BY <1>2 DEF KindsInv
    <3>2. Cardinality(Range(shown)) \in Nat /\ Len(shown) \in Nat
      BY <1>4
    <3> HIDE DEF A, B, C
    <3>3. PICK k, l : k = Cardinality(Range(shown)) /\ l = Len(shown)
      OBVIOUS
    <3>4. PICK a, b, c : a = Cardinality(A) /\ b = Cardinality(B) /\ c = Cardinality(C)
      OBVIOUS
    <3>5. (l - k) + 0 + c <= came /\ Repeated' = (l - k) + a
      BY <2>6, <2>7, <2>8, <3>3, <3>4
    <3>6. k \in Nat /\ l \in Nat /\ a \in Nat /\ b \in Nat /\ c \in Nat /\ a + b <= c
      BY <2>5, <3>2, <3>3, <3>4
    <3>7. (l - k) + a + b <= came
      BY <3>1, <3>5, <3>6
    <3> QED BY <3>4, <3>5, <3>7
  <2> QED BY <1>1, <1>5, <1>6, <1>8, <2>9 DEF RepeatedInv
<1> QED BY <1>10, <1>11, <1>15, <1>16 DEF SearchInv

\* The count says how many rows lie ahead at most.
LEMMA CountKeeps ==
    ASSUME SearchInv, Count
    PROVE  SearchInv'
<1>1. /\ Reading /\ count = NoCount /\ count' = [total |-> Cardinality(Found)]
      /\ UNCHANGED <<table, query, page, data, shown, done, writes, since, came, went, slipped>>
  BY DEF Count, history, Found
<1>2. KindsInv /\ RowsInv /\ MissedInv /\ RepeatedInv
  BY DEF SearchInv
<1>3. /\ Orders(table, Found) /\ IsFiniteSet(Found) /\ Cardinality(Found) \in Nat
      /\ Passed \in Nat
  BY <1>1, <1>2, StateFacts DEF Reading
<1>4. Found' = Found /\ Size' = Size
  BY <1>1, FoundStays
<1>5. Passed' = Passed /\ Seen' = Seen /\ Fetched' = Fetched /\ Missing' = Missing
      /\ Repeated' = Repeated /\ Reading'
  BY <1>1, <1>4 DEF Passed, Seen, Fetched, Missing, Repeated, Reading
<1>6. count' # NoCount /\ count' \in [total : Nat] /\ count'.total = Cardinality(Found)
  BY <1>1, <1>3, NullsAssumption
<1>7. KindsInv'
  <2>1. TypeOK'
    <3>1. TypeOK
      BY <1>2 DEF KindsInv
    <3> QED BY <1>1, <1>6, <3>1 DEF TypeOK
  <2> QED BY <1>1, <1>2, <1>4, <1>5, <2>1 DEF KindsInv
<1>8. RowsInv'
  <2>1. (\A e \in Seen' : Owned(e)') /\ (data' # NoData => Cardinality(Range(data')) = Len(data'))
    BY <1>1, <1>2, <1>5 DEF RowsInv, Owned
  <2> QED BY <2>1 DEF RowsInv, Owned
<1>9. MissedInv'
  <2>1. /\ slipped \in Nat /\ went \in Nat /\ Missing \subseteq Found
    BY <1>1, <1>2 DEF KindsInv, Missing
  <2>2. Cardinality(Behind(table, Found, Missing, Passed)) <= went
    BY <1>1, <1>2 DEF MissedInv
  <2>3. Cardinality(Missing) <= went + slipped + Excess(Cardinality(Found), Passed)
    <3>1. /\ Cardinality(Missing) \in Nat
          /\ Cardinality(Missing) <= Cardinality(Behind(table, Found, Missing, Passed))
                                        + Excess(Cardinality(Found), Passed)
          /\ Cardinality(Behind(table, Found, Missing, Passed)) \in Nat
      BY <1>3, <2>1, BehindOrAhead, AheadAndBehind
    <3>2. Excess(Cardinality(Found), Passed) \in Nat
      BY <1>3 DEF Excess
    <3> QED BY <2>1, <2>2, <3>1, <3>2
  <2>4. done' = FALSE
    BY <1>1, <1>2 DEF Reading, KindsInv, TypeOK
  <2>5. Cardinality(Found) <= Cardinality(Found) + slipped
    BY <1>3, <2>1
  <2> QED BY <1>1, <1>4, <1>5, <1>6, <2>2, <2>3, <2>4, <2>5 DEF MissedInv, MissedOnlyByWrites
<1>10. RepeatedInv'
  BY <1>1, <1>2, <1>4, <1>5 DEF RepeatedInv
<1> QED BY <1>7, <1>8, <1>9, <1>10 DEF SearchInv

\* The client stops only where as many places are passed as were counted.
LEMMA RespondKeeps ==
    ASSUME SearchInv, Respond
    PROVE  SearchInv'
<1>1. /\ data # NoData /\ count # NoCount /\ shown' = shown \o data
      /\ data' = NoData /\ count' = NoCount
      /\ \/ page' = page + 1 /\ slipped' = 0 /\ done' = done
         \/ /\ ~(page < TotalPages(count.total, Size))
            /\ done' = TRUE /\ page' = page /\ slipped' = slipped
      /\ UNCHANGED <<table, query, writes, since, came, went>>
  BY DEF Respond, Size
<1>2. KindsInv /\ RowsInv /\ MissedInv /\ RepeatedInv
  BY DEF SearchInv
<1>3. Reading /\ done = FALSE /\ page \in Nat \ {0}
  BY <1>1, <1>2 DEF KindsInv, Reading, TypeOK
<1>4. /\ shown \in Seq(Rows) /\ data \in Seq(Rows)
      /\ shown' \in Seq(Rows) /\ Len(shown') = Len(shown) + Len(data)
      /\ Range(shown') = Range(shown) \cup Range(data)
      /\ Len(data) \in Nat /\ Len(shown) \in Nat
  <2>1. shown \in Seq(Rows) /\ data \in Seq(Rows)
    BY <1>1, <1>2 DEF KindsInv, TypeOK
  <2> QED BY <1>1, <2>1, ConcatProperties, RangeConcatenation, LenProperties
<1>5. Fetched = Range(data) /\ Fetched' = {} /\ Range(shown') = Seen /\ Seen' = Seen
  BY <1>1, <1>4 DEF Fetched, Seen
<1>6. Found' = Found /\ Size' = Size /\ Missing' = Missing
  BY <1>1, <1>5, FoundStays DEF Missing
<1>7. /\ Size \in Nat \ {0} /\ Passed \in Nat /\ Passed = OffsetFor(page + 1, Size)
      /\ count.total \in Nat
  BY <1>1, <1>2, <1>3, StateFacts DEF Passed
<1>8. went \in Nat /\ slipped \in Nat /\ slipped' \in Nat /\ came \in Nat /\ slipped' <= slipped
  BY <1>1, <1>2 DEF KindsInv
<1>9. KindsInv'
  <2>1. TypeOK'
    <3>1. page' \in Nat /\ done' \in BOOLEAN
      <4>1. page + 1 \in Nat /\ page \in Nat
        BY <1>3
      <4>2. (page' = page + 1 \/ page' = page) /\ (done' = FALSE \/ done' = TRUE)
        BY <1>1, <1>3
      <4> QED BY <4>1, <4>2
    <3>2. writes' \in 0..MaxWrites /\ came' \in 0..writes' /\ went' \in 0..writes' /\ slipped' \in 0..came'
      <4>1. writes \in 0..MaxWrites /\ came \in 0..writes /\ went \in 0..writes /\ slipped \in 0..came
        BY <1>2 DEF KindsInv, TypeOK
      <4> QED BY <1>1, <1>8, <4>1
    <3>3. /\ IsTable(table)' /\ query' \in Queries \cup {NoQuery} /\ since' \subseteq Rows
      BY <1>1, <1>2 DEF KindsInv, TypeOK, IsTable
    <3>4. count' \in [total : Nat] \cup {NoCount} /\ data' = NoData
      BY <1>1
    <3> QED BY <1>4, <3>1, <3>2, <3>3, <3>4 DEF TypeOK
  <2>2. page' # 0 /\ page' > 0
    BY <1>1, <1>3
  <2>3. query \in Queries /\ MayList(query) /\ since \subseteq Found
    BY <1>2, <1>3 DEF KindsInv, Reading
  <2>4. MayList(query')
    BY <1>1, <2>3
  <2> QED BY <1>1, <1>2, <1>6, <1>8, <2>1, <2>2, <2>3, <2>4 DEF KindsInv
<1>10. RowsInv'
  <2>1. (\A e \in Seen' : Owned(e)') /\ (data' # NoData => Cardinality(Range(data')) = Len(data'))
    BY <1>1, <1>2, <1>5 DEF RowsInv, Owned
  <2> QED BY <2>1 DEF RowsInv, Owned
<1>11. Repeated' = Repeated
  <2>1. /\ IsFiniteSet(Range(shown)) /\ IsFiniteSet(Range(data))
        /\ Cardinality(Range(shown)) \in Nat /\ Cardinality(Range(data)) = Len(data)
    BY <1>1, <1>2, <1>4, RangeIsFinite DEF RowsInv
  <2>2. /\ Cardinality(Range(shown) \cup Range(data))
              = Cardinality(Range(shown)) + Len(data) - Cardinality(Range(shown) \cap Range(data))
        /\ Cardinality(Range(shown) \cap Range(data)) \in Nat
    BY <2>1, FS_Union, FS_Intersection, FS_CardinalityType
  <2>3. Repeated = Len(shown) - Cardinality(Range(shown)) + Cardinality(Range(shown) \cap Range(data))
    <3>1. Fetched \cap Range(shown) = Range(shown) \cap Range(data)
      BY <1>5
    <3> QED BY <3>1 DEF Repeated
  <2>4. Repeated' = (Len(shown) + Len(data)) - Cardinality(Range(shown) \cup Range(data)) + 0
    <3>1. Fetched' \cap Range(shown') = {}
      BY <1>5
    <3> QED BY <1>4, <3>1, FS_EmptySet DEF Repeated
  <2> QED BY <1>4, <2>1, <2>2, <2>3, <2>4
<1>12. CASE page' = page + 1 /\ slipped' = 0 /\ done' = done
  <2>1. Passed' = Passed /\ Reading'
    BY <1>1, <1>3, <1>6, <1>7, <1>12 DEF Passed, Reading
  <2>2. MissedInv'
    BY <1>1, <1>2, <1>3, <1>6, <1>12, <2>1 DEF MissedInv, MissedOnlyByWrites
  <2>3. RepeatedInv'
    BY <1>1, <1>2, <1>3, <1>5, <1>6, <1>11, <2>1 DEF RepeatedInv
  <2> QED BY <1>9, <1>10, <2>2, <2>3 DEF SearchInv
<1>13. CASE ~(page < TotalPages(count.total, Size)) /\ done' = TRUE /\ page' = page /\ slipped' = slipped
  <2>1. ~Reading'
    BY <1>13 DEF Reading
  <2>2. Excess(count.total, Passed) = 0
    <3>1. count.total <= Passed
      BY <1>3, <1>7, <1>13, PagesHoldAll
    <3> QED BY <1>7, <3>1 DEF Excess
  <2>3. Cardinality(Missing) <= went + slipped
    <3>1. Cardinality(Missing) <= went + slipped + Excess(count.total, Passed)
      BY <1>1, <1>2 DEF MissedInv
    <3> QED BY <1>8, <2>2, <3>1
  <2>4. since' \ Range(shown') = Missing
    BY <1>1, <1>5 DEF Missing
  <2>5. MissedInv'
    BY <1>1, <1>13, <2>1, <2>3, <2>4 DEF MissedInv, MissedOnlyByWrites
  <2>6. RepeatedInv'
    <3>1. Repeated + Cardinality(Ahead(table, Found, Seen, Passed)) <= came
      BY <1>2, <1>3 DEF RepeatedInv
    <3>2. Cardinality(Ahead(table, Found, Seen, Passed)) \in Nat
      BY <1>2, <1>7, StateFacts, AheadAndBehind
    <3>3. Repeated \in Int
      <4>1. Cardinality(Range(shown)) \in Nat /\ Cardinality(Fetched \cap Range(shown)) \in Nat
        BY <1>2, StateFacts, FS_Intersection, FS_CardinalityType
      <4> QED BY <1>4, <4>1 DEF Repeated
    <3>4. Repeated <= came /\ Repeated + 0 = Repeated
      BY <1>8, <3>1, <3>2, <3>3
    <3> QED BY <1>1, <1>11, <2>1, <3>4 DEF RepeatedInv
  <2> QED BY <1>9, <1>10, <2>5, <2>6 DEF SearchInv
<1> QED BY <1>1, <1>12, <1>13

\* One row may be ahead again for coming, and one behind unseen for going; a row that
\* slips in between the count and the page is one more than was counted.
LEMMA WriteKeeps ==
    ASSUME SearchInv, Reading, NEW x \in Rows, NEW entry, Write(x, entry),
           \/ entry = Gone
           \/ /\ entry # Gone /\ entry \in Entry
              /\ \A f \in DOMAIN table \ {x} : table[f].place # entry.place
    PROVE  SearchInv'
<1> DEFINE was == x \in Found
           is == entry # Gone /\ Matches(query, x, entry)
<1>1. /\ writes < MaxWrites
      /\ table' = [f \in IF entry = Gone THEN DOMAIN table \ {x} ELSE DOMAIN table \cup {x} |->
                     IF f = x THEN entry ELSE table[f]]
      /\ writes' = writes + 1
      /\ since' = IF is THEN since ELSE since \ {x}
      /\ went' = IF was THEN went + 1 ELSE went
      /\ came' = IF is THEN came + 1 ELSE came
      /\ slipped' = IF is /\ ~was /\ count # NoCount /\ data = NoData
                    THEN slipped + 1 ELSE slipped
      /\ UNCHANGED <<query, page, data, count, shown, done>>
  BY DEF Write, Found
<1>2. KindsInv /\ RowsInv /\ MissedInv /\ RepeatedInv
  BY DEF SearchInv
<1>3. /\ Orders(table, Found) /\ IsFiniteSet(Found) /\ Cardinality(Found) \in Nat
      /\ Passed \in Nat /\ Found \subseteq DOMAIN table /\ Found \subseteq Rows
  BY <1>2, StateFacts DEF Reading
<1>4. /\ writes \in Nat /\ came \in Nat /\ went \in Nat /\ slipped \in Nat
      /\ since \subseteq Found /\ done = FALSE /\ page # 0
      /\ query \in Queries /\ MayList(query)
  BY <1>2 DEF KindsInv, TypeOK, Reading
<1>5. /\ DOMAIN table' = IF entry = Gone THEN DOMAIN table \ {x} ELSE DOMAIN table \cup {x}
      /\ \A f \in DOMAIN table' : table'[f] = IF f = x THEN entry ELSE table[f]
      /\ \A f \in DOMAIN table' \ {x} : f \in DOMAIN table
      /\ table' = [f \in DOMAIN table' |-> table'[f]]
  BY <1>1
<1>6. IsTable(table') /\ IsFiniteSet(DOMAIN table')
  <2>1. IsTable(table) /\ IsFiniteSet(DOMAIN table)
    BY <1>2 DEF KindsInv, TypeOK
  <2>2. \A f \in DOMAIN table' : table'[f] \in Entry
    BY <1>5, <2>1 DEF IsTable
  <2>3. \A f, g \in DOMAIN table' : table'[f].place = table'[g].place => f = g
    BY <1>5, <2>1 DEF IsTable
  <2>4. DOMAIN table' \subseteq Rows
    BY <1>5, <2>1 DEF IsTable
  <2>5. table' \in [DOMAIN table' -> Entry]
    BY <1>5, <2>2
  <2>6. IsFiniteSet(DOMAIN table \ {x}) /\ IsFiniteSet(DOMAIN table \cup {x})
    BY <2>1, FS_AddElement, FS_RemoveElement, FS_Subset
  <2> QED BY <1>5, <2>3, <2>4, <2>5, <2>6 DEF IsTable
<1>7. Found' = {f \in DOMAIN table' : Matches(query, f, table'[f])}
  BY <1>1 DEF Found, Matching
<1>8. Found = {f \in DOMAIN table : Matches(query, f, table[f])}
  BY DEF Found, Matching
<1>9. Found \ {x} = Found' \ {x} /\ (x \in Found' <=> is)
  BY <1>5, <1>7, <1>8
<1>10. Orders(table', Found') /\ IsFiniteSet(Found') /\ Cardinality(Found') \in Nat
  <2>1. Found' \subseteq DOMAIN table'
    BY <1>7
  <2>2. PICK t, S : t = table' /\ S = Found'
    OBVIOUS
  <2>3. Orders(t, S) /\ IsFiniteSet(S)
    BY <1>6, <2>1, <2>2, TablesAreOrdered, FS_Subset
  <2>4. Cardinality(S) \in Nat
    BY <2>3, FS_CardinalityType
  <2> QED BY <2>2, <2>3, <2>4
<1>11. \A f \in Found \ {x} : table'[f].place = table[f].place
  BY <1>5, <1>7, <1>9
<1>12. Cardinality(Found') <= Cardinality(Found) + (IF is /\ ~was THEN 1 ELSE 0)
  <2>1. CASE is /\ ~was
    <3>1. Found' = Found \cup {x}
      BY <1>9, <2>1
    <3>2. Cardinality(Found \cup {x}) = Cardinality(Found) + 1
      BY <1>3, <2>1, FS_AddElement
    <3> QED BY <1>3, <2>1, <3>1, <3>2
  <2>2. CASE ~(is /\ ~was)
    <3>1. Found' \in SUBSET Found
      BY <1>9, <2>2
    <3>2. Cardinality(Found') <= Cardinality(Found)
      BY <1>3, <3>1, FS_Subset
    <3> QED BY <1>3, <1>10, <2>2, <3>2
  <2> QED BY <2>1, <2>2
<1>13. /\ Passed' = Passed /\ Seen' = Seen /\ Fetched' = Fetched
       /\ Repeated' = Repeated /\ Reading' /\ done' = FALSE
       /\ Missing' = IF is THEN Missing ELSE Missing \ {x}
  <2>1. Size' = Size
    BY <1>1 DEF Size
  <2>2. Seen' = Seen /\ Fetched' = Fetched
    BY <1>1 DEF Seen, Fetched
  <2>3. Missing' = IF is THEN Missing ELSE Missing \ {x}
    BY <1>1, <2>2 DEF Missing
  <2> QED BY <1>1, <1>4, <2>1, <2>2, <2>3 DEF Passed, Repeated, Reading
<1>14. Missing \in SUBSET Found
  BY <1>4 DEF Missing
<1>15. /\ Cardinality(Ahead(table', Found', Seen, Passed)) <=
              Cardinality(Ahead(table, Found, Seen, Passed)) + (IF is THEN 1 ELSE 0)
       /\ Cardinality(Behind(table', Found', Missing', Passed)) <=
              Cardinality(Behind(table, Found, Missing, Passed)) + (IF was THEN 1 ELSE 0)
  <2>1. PICK u, T : u = table' /\ T = Found'
    OBVIOUS
  <2>2. PICK Y : Y = Missing'
    OBVIOUS
  <2>3. /\ Orders(u, T) /\ IsFiniteSet(T) /\ Found \ {x} = T \ {x} /\ (x \in T <=> is)
        /\ \A f \in Found \ {x} : u[f].place = table[f].place
    BY <1>9, <1>10, <1>11, <2>1
  <2>4. Y = IF x \in T THEN Missing ELSE Missing \ {x}
    BY <1>13, <2>2, <2>3
  <2> HIDE DEF is
  <2>5. /\ Cardinality(Ahead(u, T, Seen, Passed)) <=
               Cardinality(Ahead(table, Found, Seen, Passed)) + (IF x \in T THEN 1 ELSE 0)
        /\ Cardinality(Behind(u, T, Y, Passed)) <=
               Cardinality(Behind(table, Found, Missing, Passed)) + (IF x \in Found THEN 1 ELSE 0)
    BY <1>3, <1>14, <2>3, <2>4, Moves
  <2> QED BY <2>1, <2>2, <2>3, <2>5
<1>16. /\ Cardinality(Ahead(table, Found, Seen, Passed)) \in Nat
       /\ Cardinality(Behind(table, Found, Missing, Passed)) \in Nat
       /\ Cardinality(Ahead(table', Found', Seen, Passed)) \in Nat
       /\ Cardinality(Behind(table', Found', Missing', Passed)) \in Nat
  <2>1. PICK u, T, Y : u = table' /\ T = Found' /\ Y = Missing'
    OBVIOUS
  <2>2. /\ Cardinality(Ahead(u, T, Seen, Passed)) \in Nat
        /\ Cardinality(Behind(u, T, Y, Passed)) \in Nat
    BY <1>3, <1>10, <2>1, AheadAndBehind
  <2> QED BY <1>3, <2>1, <2>2, AheadAndBehind
<1>17. KindsInv'
  <2>1. TypeOK'
    <3>1. TypeOK
      BY <1>2 DEF KindsInv
    <3>2. since' \subseteq Rows
      BY <1>1, <3>1 DEF TypeOK
    <3>3. /\ writes' \in 0..MaxWrites /\ came' \in 0..writes' /\ went' \in 0..writes'
          /\ slipped' \in 0..came'
      <4>1. /\ writes \in 0..MaxWrites /\ came \in 0..writes /\ went \in 0..writes
            /\ slipped \in 0..came /\ MaxWrites \in Nat
        BY <3>1, SearchAssumption DEF TypeOK
      <4> HIDE DEF is, was
      <4>2. /\ came' = came \/ came' = came + 1
            /\ went' = went \/ went' = went + 1
            /\ slipped' = slipped \/ (slipped' = slipped + 1 /\ came' = came + 1)
        <5>1. came' = came \/ came' = came + 1
          BY <1>1
        <5>2. went' = went \/ went' = went + 1
          BY <1>1
        <5>3. slipped' = slipped \/ (slipped' = slipped + 1 /\ came' = came + 1)
          BY <1>1
        <5> QED BY <5>1, <5>2, <5>3
      <4>3. came' >= came
        BY <1>1, <1>4
      <4> QED BY <1>1, <4>1, <4>2, <4>3
    <3> QED BY <1>1, <1>6, <3>1, <3>2, <3>3 DEF TypeOK
  <2>2. came' \in Nat /\ went' \in Nat /\ slipped' \in Nat
    BY <1>1, <1>4
  <2>3. since' \subseteq Found'
    BY <1>1, <1>4, <1>9
  <2>4. query' \in Queries /\ MayList(query)'
    BY <1>1, <1>4 DEF MayList, GroupIds
  <2> QED BY <1>1, <1>4, <1>6, <1>13, <2>1, <2>2, <2>3, <2>4 DEF KindsInv
<1>18. RowsInv'
  BY <1>1, <1>2, <1>13 DEF RowsInv, Owned
<1>19. Cardinality(Behind(table', Found', Missing', Passed)) <= went'
  <2>1. Cardinality(Behind(table, Found, Missing, Passed)) <= went
    BY <1>2 DEF MissedInv
  <2> QED BY <1>1, <1>4, <1>15, <1>16, <2>1
<1>20. ASSUME count # NoCount, data = NoData
       PROVE  Cardinality(Found') <= count.total + slipped'
  <2>1. Cardinality(Found) <= count.total + slipped /\ count.total \in Nat
    BY <1>2, <1>20, StateFacts DEF MissedInv
  <2>2. slipped' = slipped + (IF is /\ ~was THEN 1 ELSE 0)
    BY <1>1, <1>4, <1>20
  <2> HIDE DEF is, was
  <2> QED BY <1>3, <1>4, <1>10, <1>12, <2>1, <2>2
<1>21. ASSUME count # NoCount, data # NoData
       PROVE  Cardinality(Missing') <= went' + slipped' + Excess(count.total, Passed)
  <2>1. Cardinality(Missing) <= went + slipped + Excess(count.total, Passed)
    BY <1>2, <1>21 DEF MissedInv
  <2>2. /\ Cardinality(Missing') <= Cardinality(Missing)
        /\ Cardinality(Missing') \in Nat /\ Cardinality(Missing) \in Nat
    <3>1. IsFiniteSet(Missing) /\ Missing' \in SUBSET Missing
      BY <1>3, <1>13, <1>14, FS_Subset
    <3> QED BY <3>1, FS_Subset, FS_CardinalityType
  <2>3. Excess(count.total, Passed) \in Nat
    BY <1>2, <1>3, <1>21, StateFacts DEF Excess
  <2>4. /\ went' \in Nat /\ went <= went'
        /\ slipped' = slipped
    BY <1>1, <1>4, <1>21
  <2> QED BY <1>4, <2>1, <2>2, <2>3, <2>4
<1>22. MissedInv'
  BY <1>1, <1>13, <1>19, <1>20, <1>21 DEF MissedInv, MissedOnlyByWrites
<1>23. RepeatedInv'
  <2>1. Repeated + Cardinality(Ahead(table, Found, Seen, Passed)) <= came
    BY <1>2 DEF RepeatedInv
  <2>2. Repeated \in Int
    <3>1. /\ Cardinality(Range(shown)) \in Nat /\ Cardinality(Fetched \cap Range(shown)) \in Nat
          /\ Len(shown) \in Nat
      BY <1>2, StateFacts, FS_Intersection, FS_CardinalityType
    <3> QED BY <3>1 DEF Repeated
  <2>3. Repeated + Cardinality(Ahead(table', Found', Seen, Passed)) <= came'
    <3> HIDE DEF is, was
    <3> QED BY <1>1, <1>4, <1>15, <1>16, <2>1, <2>2
  <2> QED BY <1>13, <2>3 DEF RepeatedInv
<1> QED BY <1>17, <1>18, <1>22, <1>23 DEF SearchInv

\* What is written is not what stands for a deletion.
LEMMA EntriesStay == ASSUME NEW entry \in Entry PROVE entry # Gone
<1>1. DOMAIN entry = {"place", "kind"} /\ DOMAIN Gone = {"deleted"}
  BY DEF Entry, Gone
<1> QED BY <1>1

\* A new row comes to a free place.
LEMMA InsertRowKeeps ==
    ASSUME SearchInv, InsertRow
    PROVE  SearchInv'
<1>1. Reading /\ \E e \in Rows \ DOMAIN table, entry \in [place : Free, kind : Kinds] :
                    Write(e, entry)
  BY DEF InsertRow
<1>2. \A entry \in [place : Free, kind : Kinds] :
          entry \in Entry /\ \A f \in DOMAIN table : table[f].place # entry.place
  BY DEF Free, Entry
<1> QED BY <1>1, <1>2, EntriesStay, WriteKeeps

\* A patched row stays at its place or moves to a free one.
LEMMA PatchRowKeeps ==
    ASSUME SearchInv, PatchRow
    PROVE  SearchInv'
<1>1. IsTable(table)
  BY DEF SearchInv, KindsInv, TypeOK
<1>2. PICK e \in DOMAIN table :
          \E entry \in [place : Free \cup {table[e].place}, kind : Kinds] : Write(e, entry)
  BY DEF PatchRow
<1>3. PICK entry \in [place : Free \cup {table[e].place}, kind : Kinds] : Write(e, entry)
  BY <1>2
<1>4. e \in Rows /\ table[e].place \in Places
  BY <1>1 DEF IsTable, Entry
<1>5. entry \in Entry /\ \A f \in DOMAIN table \ {e} : table[f].place # entry.place
  BY <1>1, <1>3, <1>4 DEF Free, Entry, IsTable
<1> QED BY <1>3, <1>4, <1>5, EntriesStay, WriteKeeps DEF PatchRow

\* A row that is deleted leaves its place.
LEMMA DeleteRowKeeps ==
    ASSUME SearchInv, DeleteRow
    PROVE  SearchInv'
<1>1. Reading /\ \E e \in DOMAIN table : Write(e, Gone)
  BY DEF DeleteRow
<1>2. DOMAIN table \subseteq Rows
  BY DEF SearchInv, KindsInv, TypeOK, IsTable
<1> QED BY <1>1, <1>2, WriteKeeps

-----------------------------------------------------------------------------

\* The invariant holds of every state of a client and the writers beside it.
THEOREM SearchInvariance == Spec => []SearchInv
<1>1. Init => SearchInv
  BY InitEstablishes
<1>2. SearchInv /\ [Next]_vars => SearchInv'
  <2> SUFFICES ASSUME SearchInv, [Next]_vars PROVE SearchInv'
    OBVIOUS
  <2>1. CASE UNCHANGED vars
    <3>1. UNCHANGED <<table, query, page, data, count, shown, done, writes, since, came, went, slipped>>
      BY <2>1 DEF vars, history
    <3>2. /\ Found' = Found /\ Size' = Size /\ Seen' = Seen /\ Fetched' = Fetched
          /\ Missing' = Missing /\ Passed' = Passed /\ Repeated' = Repeated
          /\ (Reading' <=> Reading)
      BY <3>1 DEF Found, Matching, Size, Seen, Fetched, Missing, Passed, Repeated, Reading
    <3>3. KindsInv'
      BY <3>1, <3>2 DEF SearchInv, KindsInv, TypeOK, IsTable
    <3>4. RowsInv'
      BY <3>1, <3>2 DEF SearchInv, RowsInv, Owned
    <3>5. MissedInv'
      BY <3>1, <3>2 DEF SearchInv, MissedInv, MissedOnlyByWrites
    <3>6. RepeatedInv'
      BY <3>1, <3>2 DEF SearchInv, RepeatedInv
    <3> QED BY <3>3, <3>4, <3>5, <3>6 DEF SearchInv
  <2>2. CASE Next
    BY <2>2, BeginKeeps, FindManyKeeps, CountKeeps, RespondKeeps, InsertRowKeeps, PatchRowKeeps,
       DeleteRowKeeps DEF Next
  <2> QED BY <2>1, <2>2
<1> QED BY <1>1, <1>2, PTL DEF Spec

\* What the client and the two queries know is always of the right kind, and no page
\* is larger than the largest, whatever size is asked for (normalizeSize).
THEOREM TypeCorrect == Spec => []TypeOK
<1>1. SearchInv => TypeOK
  BY DEF SearchInv, KindsInv
<1> QED BY <1>1, SearchInvariance, PTL

\* However many rows there are, whatever size is asked for and however the writes of
\* others fall between the pages and between a page and its count, a client that reads
\* to the last page misses no more rows than left their place, deleted or patched, or
\* slipped in.
THEOREM MissesAccountedFor == Spec => []MissedOnlyByWrites
<1>1. SearchInv => MissedOnlyByWrites
  BY DEF SearchInv, MissedInv
<1> QED BY <1>1, SearchInvariance, PTL

\* Nor does it see more rows again than came to a place while it read, inserted or
\* patched.
THEOREM RepeatsAccountedFor == Spec => []RepeatedOnlyByWrites
<1>1. SearchInv => RepeatedOnlyByWrites
  <2> SUFFICES ASSUME SearchInv PROVE RepeatedOnlyByWrites
    OBVIOUS
  <2>1. KindsInv /\ RepeatedInv /\ came \in Nat
    BY DEF SearchInv, KindsInv
  <2>2. /\ Len(shown) \in Nat /\ Cardinality(Range(shown)) \in Nat
        /\ Cardinality(Fetched \cap Range(shown)) \in Nat
    BY <2>1, StateFacts, FS_Intersection, FS_CardinalityType
  <2>3. Repeated <= came
    <3>1. Repeated \in Int
      BY <2>2 DEF Repeated
    <3>2. CASE Reading
      <4>1. page > 0 /\ Repeated + Cardinality(Ahead(table, Found, Seen, Passed)) <= came
        BY <2>1, <3>2 DEF Reading, RepeatedInv
      <4>2. Cardinality(Ahead(table, Found, Seen, Passed)) \in Nat
        BY <2>1, <4>1, StateFacts, AheadAndBehind
      <4> QED BY <2>1, <3>1, <4>1, <4>2
    <3>3. CASE ~Reading
      <4>1. Repeated + 0 <= came
        BY <2>1, <3>3 DEF RepeatedInv
      <4> QED BY <3>1, <4>1
    <3> QED BY <3>2, <3>3
  <2>4. Len(shown) - Cardinality(Range(shown)) <= came
    BY <2>1, <2>2, <2>3 DEF Repeated
  <2> QED BY <2>4 DEF RepeatedOnlyByWrites
<1> QED BY <1>1, SearchInvariance, PTL

\* No page of any of the five listings shows a row of a group the user is not in, or
\* a payment method or a key of somebody else.
THEOREM NothingOfOthers == Spec => []OnlyOwn
<1>1. SearchInv => OnlyOwn
  <2> SUFFICES ASSUME SearchInv, NEW i \in DOMAIN shown
               PROVE  IF query.list \in {"paymentMethods", "apiKeys"}
                      THEN OwnerOf[shown[i]] = User
                      ELSE User \in Members[GroupOf[shown[i]]]
    BY DEF OnlyOwn
  <2>1. shown[i] \in Seen
    BY DEF Seen, Range
  <2> QED BY <2>1 DEF SearchInv, RowsInv, Owned
<1> QED BY <1>1, SearchInvariance, PTL
=============================================================================
