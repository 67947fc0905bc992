--------------------------- MODULE DivisionProofs ---------------------------
(***************************************************************************)
(* What the divisions of an amount guarantee, for every total, any people, *)
(* percentages and numbers of installments: whatever strategy divides an   *)
(* expense, and however many installments the division is carried over to, *)
(* the splits add up to the amount, and so do the installments.  The sum   *)
(* of a sequence is a recursive function, so its facts are proved by       *)
(* induction, stated here for a set of natural numbers (SetInduction).     *)
(***************************************************************************)
EXTENDS InstallmentMath, Splits, FiniteSetTheorems, SequenceTheorems, TLAPS

\* Induction on the natural numbers, for a set of them instead of a predicate.
LEMMA SetInduction ==
    ASSUME NEW T \in SUBSET Nat, 0 \in T, \A n \in T : n + 1 \in T
    PROVE  T = Nat
<1> DEFINE Rest == Nat \ T
           Initial == {1..n : n \in Rest}
<1>1. SUFFICES ASSUME Rest # {} PROVE FALSE
  OBVIOUS
<1>2. PICK U \in Initial : \A V \in Initial : ~(<<V, U>> \in StrictSubsetOrdering(Nat))
  <2>1. IsWellFoundedOn(StrictSubsetOrdering(Nat), FiniteSubsetsOf(Nat))
    BY FS_StrictSubsetOrderingWellFounded
  <2>2. Initial \subseteq FiniteSubsetsOf(Nat)
    <3>1. \A n \in Nat : IsFiniteSet(1..n)
      BY FS_Interval
    <3> QED BY <3>1 DEF FiniteSubsetsOf
  <2>3. Initial # {}
    BY <1>1
  <2> HIDE DEF Initial
  <2> QED BY <2>1, <2>2, <2>3, WFMin
<1>3. PICK n \in Rest : U = 1..n
  OBVIOUS
<1>4. n # 0 /\ n - 1 \in Nat
  OBVIOUS
<1>5. <<1..(n-1), 1..n>> \in StrictSubsetOrdering(Nat)
  <2>1. 1..(n-1) \subseteq 1..n /\ n \in 1..n /\ n \notin 1..(n-1)
    BY <1>4
  <2>2. 1..n \subseteq Nat /\ 1..(n-1) \subseteq Nat
    OBVIOUS
  <2> QED BY <2>1, <2>2 DEF StrictSubsetOrdering
<1>6. n - 1 \in T
  BY <1>2, <1>3, <1>4, <1>5
<1> QED BY <1>4, <1>6

\* The running sum of an integer function, as its two equations.
LEMMA RunningDef ==
    ASSUME NEW a \in Seq(Int)
    PROVE  /\ Running(a) \in [0..Len(a) -> Int]
           /\ Running(a)[0] = 0
           /\ \A n \in 1..Len(a) : Running(a)[n] = Running(a)[n-1] + a[n]
<1> DEFINE Sums(f, k) == /\ f[0] = 0
                         /\ \A n \in 1..k : f[n] = f[n-1] + a[n]
           L == Len(a)
           T == {k \in Nat : k <= L => \E f \in [0..k -> Int] : Sums(f, k)}
           Rec(f) == [n \in 0..L |-> IF n = 0 THEN 0 ELSE f[n-1] + a[n]]
<1>1. L \in Nat
  OBVIOUS
<1>2. 0 \in T
  <2>1. [n \in 0..0 |-> 0] \in [0..0 -> Int] /\ Sums([n \in 0..0 |-> 0], 0)
    OBVIOUS
  <2> QED BY <2>1
<1>3. ASSUME NEW k \in T PROVE k + 1 \in T
  <2> HIDE DEF Sums
  <2>a. k \in Nat /\ (k <= L => \E f \in [0..k -> Int] : Sums(f, k))
    BY <1>3
  <2> HIDE DEF L
  <2>1. SUFFICES ASSUME k + 1 <= L
                 PROVE  \E f \in [0..(k+1) -> Int] : Sums(f, k + 1)
    BY <2>a
  <2>b. k <= L
    BY <1>1, <2>1, <2>a
  <2>2. PICK f \in [0..k -> Int] : Sums(f, k)
    BY <2>a, <2>b
  <2> USE DEF Sums, L
  <2> DEFINE g == [n \in 0..(k+1) |-> IF n <= k THEN f[n] ELSE f[k] + a[k+1]]
  <2>3. a[k+1] \in Int
    BY <1>1, <2>1
  <2>4. g \in [0..(k+1) -> Int]
    BY <2>3
  <2>5. g[0] = 0
    BY <2>2
  <2>6. ASSUME NEW n \in 1..(k+1) PROVE g[n] = g[n-1] + a[n]
    <3>1. CASE n <= k
      BY <3>1, <2>2
    <3>2. CASE n = k + 1
      BY <3>2
    <3> QED BY <3>1, <3>2
  <2> HIDE DEF g
  <2> QED BY <2>4, <2>5, <2>6
<1>4. T = Nat
  <2> HIDE DEF T
  <2>1. T \in SUBSET Nat
    BY DEF T
  <2> QED BY ONLY <1>2, <1>3, <2>1, SetInduction
<1>5. PICK f \in [0..L -> Int] : Sums(f, L)
  <2> HIDE DEF Sums, L
  <2> QED BY <1>1, <1>4
<1>6. f = Rec(f)
  BY <1>5
<1>7. Running(a) = CHOOSE g : g = Rec(g)
  BY DEF Running
<1>8. Running(a) = Rec(Running(a))
  <2> HIDE DEF Rec
  <2> QED BY <1>6, <1>7
<1> DEFINE R == Running(a)
<1>9. /\ R[0] = 0
      /\ \A n \in 1..L : R[n] = R[n-1] + a[n]
  <2>1. \A g : \A n \in 0..L : Rec(g)[n] = IF n = 0 THEN 0 ELSE g[n-1] + a[n]
    OBVIOUS
  <2> HIDE DEF R, Rec
  <2>2. R = Rec(R)
    BY <1>8 DEF R
  <2>3. \A n \in 0..L : R[n] = IF n = 0 THEN 0 ELSE R[n-1] + a[n]
    BY <2>1, <2>2
  <2> QED BY <2>3, <1>1
<1>10. R \in [0..L -> Int]
  <2> DEFINE I == {k \in Nat : k <= L => R[k] \in Int}
  <2> HIDE DEF R
  <2>1. 0 \in I
    BY <1>9
  <2>2. ASSUME NEW k \in I PROVE k + 1 \in I
    BY <1>9, <1>1
  <2>3. I = Nat
    <3> HIDE DEF I
    <3>1. I \in SUBSET Nat
      BY DEF I
    <3> QED BY ONLY <2>1, <2>2, <3>1, SetInduction
  <2>4. R = Rec(R)
    BY <1>8 DEF R
  <2>5. \A n \in 0..L : R[n] \in Int
    BY <2>3, <1>1
  <2>6. DOMAIN R = 0..L /\ R = [n \in DOMAIN R |-> R[n]]
    BY <2>4
  <2> QED BY <2>5, <2>6
<1> QED BY <1>9, <1>10

\* A sum of integers is an integer.
LEMMA TotalType ==
    ASSUME NEW a \in Seq(Int)
    PROVE  Total(a) \in Int
<1>1. Len(a) \in Nat
  OBVIOUS
<1> QED BY <1>1, RunningDef DEF Total

\* Adding a difference to one term adds it to the sum.
LEMMA TotalOfAdjusted ==
    ASSUME NEW a \in Seq(Int), a # << >>, NEW d \in Int, NEW b \in Seq(Int),
           Len(b) = Len(a),
           \A i \in 1..Len(a) : b[i] = IF i = Len(a) THEN a[i] + d ELSE a[i]
    PROVE  Total(b) = Total(a) + d
<1> DEFINE L == Len(a)
           A == Running(a)
           B == Running(b)
           T == {k \in Nat : k < L => B[k] = A[k]}
<1>1. L \in Nat /\ L > 0
  OBVIOUS
<1>2. /\ A \in [0..L -> Int] /\ A[0] = 0
      /\ \A n \in 1..L : A[n] = A[n-1] + a[n]
  BY RunningDef
<1>3. /\ B \in [0..L -> Int] /\ B[0] = 0
      /\ \A n \in 1..L : B[n] = B[n-1] + b[n]
  BY RunningDef
<1>4. T = Nat
  <2> HIDE DEF A, B, L
  <2>1. 0 \in T
    BY <1>2, <1>3
  <2>2. ASSUME NEW k \in T PROVE k + 1 \in T
    <3>1. SUFFICES ASSUME k + 1 < L PROVE B[k+1] = A[k+1]
      OBVIOUS
    <3>2. k \in Nat /\ B[k] = A[k] /\ k + 1 \in 1..L
      BY <1>1, <3>1
    <3>3. b[k+1] = a[k+1]
      BY <3>1, <3>2, <1>1 DEF L
    <3>4. B[k+1] = B[k] + b[k+1] /\ A[k+1] = A[k] + a[k+1]
      BY <3>2, <1>2, <1>3
    <3> QED BY <3>2, <3>3, <3>4
  <2> HIDE DEF T
  <2>3. T \in SUBSET Nat
    BY DEF T
  <2> QED BY ONLY <2>1, <2>2, <2>3, SetInduction
<1>5. B[L-1] = A[L-1]
  BY <1>1, <1>4
<1>6. b[L] = a[L] + d /\ a[L] \in Int
  BY <1>1
<1>7. Total(a) = A[L] /\ Total(b) = B[L]
  BY DEF Total
<1>8. A[L] = A[L-1] + a[L] /\ B[L] = B[L-1] + b[L] /\ A[L-1] \in Int
  <2> HIDE DEF A, B, L
  <2> QED BY <1>1, <1>2, <1>3
<1> HIDE DEF A, B, L
<1> QED BY <1>5, <1>6, <1>7, <1>8

-----------------------------------------------------------------------------

\* A function on 1..n into a set is a sequence over the set.
LEMMA FunctionIsSeq ==
    ASSUME NEW T, NEW n \in Nat, NEW s \in [1..n -> T]
    PROVE  s \in Seq(T) /\ Len(s) = n
OBVIOUS

DivisionAmong(U) == Seq([user : U, amount : Int])

Amounts(s) == [i \in DOMAIN s |-> s[i].amount]

\* A division is a function on 1..Len, and a function on 1..n to such records is one.
LEMMA DivisionIsFunction ==
    ASSUME NEW U, NEW s \in DivisionAmong(U)
    PROVE  /\ Len(s) \in Nat
           /\ DOMAIN s = 1..Len(s)
           /\ \A i \in 1..Len(s) : s[i].user \in U /\ s[i].amount \in Int
<1>1. s \in Seq([user : U, amount : Int])
  BY DEF DivisionAmong
<1>2. /\ Len(s) \in Nat /\ DOMAIN s = 1..Len(s)
      /\ \A i \in 1..Len(s) : s[i] \in [user : U, amount : Int]
  BY <1>1, LenProperties, ElementOfSeq
<1> QED BY <1>2

\* A function on 1..n of splits is a division.
LEMMA FunctionIsDivision ==
    ASSUME NEW U, NEW n \in Nat, NEW s, DOMAIN s = 1..n, s = [i \in DOMAIN s |-> s[i]],
           \A i \in 1..n : s[i] \in [user : U, amount : Int]
    PROVE  s \in DivisionAmong(U) /\ Len(s) = n
<1> DEFINE T == [user : U, amount : Int]
<1>1. s \in [1..n -> T]
  OBVIOUS
<1>2. s \in Seq(T) /\ Len(s) = n
  <2> HIDE DEF T
  <2> QED BY <1>1, FunctionIsSeq
<1> QED BY <1>2 DEF DivisionAmong

\* The amounts of a division are integers.
LEMMA AmountsType ==
    ASSUME NEW U, NEW s \in DivisionAmong(U)
    PROVE  /\ Amounts(s) \in Seq(Int)
           /\ Len(Amounts(s)) = Len(s)
           /\ SplitSum(s) = Total(Amounts(s))
           /\ SplitSum(s) \in Int
<1>1. Amounts(s) \in [1..Len(s) -> Int]
  BY DivisionIsFunction DEF Amounts
<1>2. Amounts(s) \in Seq(Int) /\ Len(Amounts(s)) = Len(s)
  BY <1>1, DivisionIsFunction
<1>3. SplitSum(s) = Total(Amounts(s))
  BY DEF SplitSum, Amounts
<1> QED BY <1>2, <1>3, TotalType

\* reconcile makes the splits add up to the target, whatever they were.
LEMMA ReconcileAddsUp ==
    ASSUME NEW U, NEW s \in DivisionAmong(U), NEW total \in Int
    PROVE  /\ Reconcile(s, total) \in DivisionAmong(U)
           /\ Len(Reconcile(s, total)) = Len(s)
           /\ s # << >> => SplitSum(Reconcile(s, total)) = total
<1> DEFINE d == total - SplitSum(s)
           r == Reconcile(s, total)
           n == Len(s)
<1>1. SplitSum(s) \in Int /\ d \in Int
  BY AmountsType
<1>2. /\ n \in Nat /\ DOMAIN s = 1..n
      /\ \A i \in 1..n : s[i].user \in U /\ s[i].amount \in Int
  BY DivisionIsFunction
<1>3. r = [i \in 1..n |-> [user |-> s[i].user,
                           amount |-> IF i = n THEN s[i].amount + d ELSE s[i].amount]]
  BY <1>2 DEF Reconcile
<1> HIDE DEF d, r, n
<1>4. r \in DivisionAmong(U) /\ Len(r) = n
  <2>1. \A i \in 1..n : r[i] \in [user : U, amount : Int]
    BY <1>1, <1>2, <1>3
  <2>2. DOMAIN r = 1..n /\ r = [i \in DOMAIN r |-> r[i]]
    BY <1>3
  <2> QED BY <1>2, <2>1, <2>2, FunctionIsDivision
<1>5. ASSUME s # << >> PROVE SplitSum(r) = total
  <2> DEFINE a == Amounts(s)
             b == Amounts(r)
  <2>1. a \in Seq(Int) /\ b \in Seq(Int) /\ Len(a) = n /\ Len(b) = n
    BY <1>4, AmountsType DEF n
  <2>2. \A i \in 1..n : b[i] = IF i = n THEN a[i] + d ELSE a[i]
    BY <1>2, <1>3 DEF Amounts
  <2>3. a # << >>
    <3>1. n # 0
      BY <1>5, EmptySeq DEF DivisionAmong, n
    <3> QED BY <2>1, <3>1
  <2> HIDE DEF a, b
  <2>4. Total(b) = Total(a) + d
    BY <1>1, <2>1, <2>2, <2>3, TotalOfAdjusted
  <2>5. SplitSum(s) = Total(a) /\ SplitSum(r) = Total(b)
    BY <1>4, AmountsType DEF a, b
  <2> QED BY <2>4, <2>5, <1>1 DEF d
<1> QED BY <1>4, <1>5 DEF r, n

-----------------------------------------------------------------------------

\* The strategies that divide without reconciling are exact by themselves.
LEMMA EqualAddsUp ==
    ASSUME NEW U, NEW users \in Seq(U), users # << >>, NEW total \in Nat
    PROVE  /\ SplitEqual(total, users) \in DivisionAmong(U)
           /\ Len(SplitEqual(total, users)) = Len(users)
           /\ SplitSum(SplitEqual(total, users)) = total
<1> DEFINE n == Len(users)
           base == total \div n
           rest == total - base * n
           s == SplitEqual(total, users)
           a == Amounts(s)
           R == Running(a)
<1>1. n \in Nat \ {0} /\ DOMAIN users = 1..n /\ \A i \in 1..n : users[i] \in U
  BY EmptySeq, LenProperties, ElementOfSeq
<1>2. base \in Nat /\ rest \in 0..(n-1)
  BY <1>1
<1>3. s = [i \in 1..n |-> [user |-> users[i],
                           amount |-> base + (IF i <= rest THEN 1 ELSE 0)]]
  BY <1>1 DEF SplitEqual
<1> HIDE DEF n, base, rest, s
<1>4. s \in DivisionAmong(U) /\ Len(s) = n
  <2>1. \A i \in 1..n : s[i] \in [user : U, amount : Int]
    BY <1>1, <1>2, <1>3
  <2>2. DOMAIN s = 1..n /\ s = [i \in DOMAIN s |-> s[i]]
    BY <1>3
  <2> QED BY <1>1, <2>1, <2>2, FunctionIsDivision
<1>5. a \in Seq(Int) /\ Len(a) = n /\ SplitSum(s) = Total(a)
  BY <1>4, AmountsType
<1>6. \A i \in 1..n : a[i] = base + (IF i <= rest THEN 1 ELSE 0)
  BY <1>3 DEF Amounts
<1> HIDE DEF a
<1>7. /\ R[0] = 0
      /\ \A k \in 1..n : R[k] = R[k-1] + a[k]
  BY <1>5, RunningDef
<1> HIDE DEF R
<1> DEFINE T == {k \in Nat : k <= n =>
                    R[k] = base * k + (IF k <= rest THEN k ELSE rest)}
<1>8. T = Nat
  <2>1. 0 \in T
    BY <1>2, <1>7
  <2>2. ASSUME NEW k \in T PROVE k + 1 \in T
    <3>1. SUFFICES ASSUME k + 1 <= n
                   PROVE  R[k+1] = base * (k+1) + (IF k + 1 <= rest THEN k + 1 ELSE rest)
      OBVIOUS
    <3>2. k \in Nat /\ k + 1 \in 1..n
      BY <1>1, <3>1
    <3>3. R[k] = base * k + (IF k <= rest THEN k ELSE rest)
      BY <1>1, <3>1
    <3>4. R[k+1] = R[k] + base + (IF k + 1 <= rest THEN 1 ELSE 0)
      BY <1>6, <1>7, <3>2, <3>3, <1>2
    <3>5. base * (k+1) = base * k + base
      BY <1>2, <3>2
    <3> QED BY <1>2, <3>2, <3>3, <3>4, <3>5
  <2> HIDE DEF T
  <2>3. T \in SUBSET Nat
    BY DEF T
  <2> QED BY ONLY <2>1, <2>2, <2>3, SetInduction
<1>9. R[n] = base * n + rest
  BY <1>1, <1>2, <1>8
<1>10. Total(a) = R[n]
  BY <1>5 DEF Total, R
<1> QED BY <1>1, <1>2, <1>4, <1>5, <1>9, <1>10 DEF n, rest, s

MembersAmong(U) == Seq([user : U, share : Nat])

\* The members of a split request are a function on their positions.
LEMMA MembersAreFunction ==
    ASSUME NEW U, NEW ms \in MembersAmong(U)
    PROVE  /\ Len(ms) \in Nat
           /\ DOMAIN ms = 1..Len(ms)
           /\ ms # << >> => Len(ms) # 0
           /\ \A i \in 1..Len(ms) : ms[i].user \in U /\ ms[i].share \in Nat
<1> DEFINE T == [user : U, share : Nat]
<1>1. ms \in Seq(T)
  BY DEF MembersAmong
<1>2. /\ Len(ms) \in Nat /\ DOMAIN ms = 1..Len(ms)
      /\ ms # << >> => Len(ms) # 0
      /\ \A i \in 1..Len(ms) : ms[i] \in T
  <2> HIDE DEF T
  <2> QED BY <1>1, LenProperties, ElementOfSeq, EmptySeq
<1> QED BY <1>2

\* splitByPercentage adds up to the amount, rounding included.
LEMMA PercentageAddsUp ==
    ASSUME NEW U, NEW ms \in MembersAmong(U), ms # << >>, NEW total \in Nat
    PROVE  /\ SplitByPercentage(total, ms) \in DivisionAmong(U)
           /\ Len(SplitByPercentage(total, ms)) = Len(ms)
           /\ SplitSum(SplitByPercentage(total, ms)) = total
<1> DEFINE n == Len(ms)
           s == [i \in DOMAIN ms |->
                    [user |-> ms[i].user,
                     amount |-> (total * ms[i].share) \div (100 * Percent)]]
<1>1. /\ n \in Nat \ {0} /\ DOMAIN ms = 1..n
      /\ \A i \in 1..n : ms[i].user \in U /\ ms[i].share \in Nat
  BY MembersAreFunction
<1> HIDE DEF n
<1>2. \A i \in 1..n : s[i] \in [user : U, amount : Int]
  <2>1. ASSUME NEW i \in 1..n
        PROVE  (total * ms[i].share) \div (100 * Percent) \in Int
    <3>1. total * ms[i].share \in Nat
      BY <1>1
    <3> QED BY <3>1 DEF Percent
  <2> QED BY <1>1, <2>1
<1>3. DOMAIN s = 1..n /\ s = [i \in DOMAIN s |-> s[i]]
  BY <1>1
<1>4. SplitByPercentage(total, ms) = Reconcile(s, total)
  BY DEF SplitByPercentage
<1> HIDE DEF s
<1>5. s \in DivisionAmong(U) /\ Len(s) = n
  BY <1>1, <1>2, <1>3, FunctionIsDivision
<1>6. s # << >>
  BY <1>1, <1>3
<1> QED BY <1>4, <1>5, <1>6, ReconcileAddsUp DEF n

\* splitRomana adds up to the amount when it is accepted.
LEMMA RomanaAddsUp ==
    ASSUME NEW U, NEW ms \in MembersAmong(U), NEW total \in Nat,
           ShareSum(ms) = total
    PROVE  /\ SplitRomana(ms) \in DivisionAmong(U)
           /\ Len(SplitRomana(ms)) = Len(ms)
           /\ SplitSum(SplitRomana(ms)) = total
<1> DEFINE n == Len(ms)
           s == SplitRomana(ms)
<1>1. /\ n \in Nat /\ DOMAIN ms = 1..n
      /\ \A i \in 1..n : ms[i].user \in U /\ ms[i].share \in Nat
  BY MembersAreFunction
<1> HIDE DEF n
<1>2. s = [i \in 1..n |-> [user |-> ms[i].user, amount |-> ms[i].share]]
  BY <1>1 DEF SplitRomana
<1>3. \A i \in 1..n : s[i] \in [user : U, amount : Int]
  BY <1>1, <1>2
<1>4. DOMAIN s = 1..n /\ s = [i \in DOMAIN s |-> s[i]]
  BY <1>2
<1>5. s \in DivisionAmong(U) /\ Len(s) = n
  <2> HIDE DEF s
  <2> QED BY <1>1, <1>3, <1>4, FunctionIsDivision
<1>6. [i \in DOMAIN s |-> s[i].amount] = [i \in DOMAIN ms |-> ms[i].share]
  BY <1>1, <1>2
<1>7. SplitSum(s) = ShareSum(ms)
  BY <1>6 DEF SplitSum, ShareSum
<1> QED BY <1>5, <1>7 DEF n

-----------------------------------------------------------------------------

\* Whatever the strategy, the percentages and the rounding: what buildSplits
\* returns divides the whole amount, no cent more and no cent less.
THEOREM BuiltSplitsAddUp ==
    ASSUME NEW U, NEW users \in Seq(U), NEW total \in Nat, NEW split,
           split.members \in MembersAmong(U),
           SplitAccepted(split, total, users)
    PROVE  LET built == BuildSplits(split, total, users)
           IN  /\ built \in DivisionAmong(U)
               /\ built # << >>
               /\ SplitSum(built) = total
<1> DEFINE built == BuildSplits(split, total, users)
<1> SUFFICES /\ built \in DivisionAmong(U)
             /\ Len(built) # 0
             /\ SplitSum(built) = total
  BY EmptySeq
<1>0. users # << >> => Len(users) # 0
  BY EmptySeq
<1>1. CASE split.strategy = "EQUAL"
  <2>1. built = SplitEqual(total, users)
    BY <1>1 DEF BuildSplits
  <2> QED BY <2>1, <1>0, EqualAddsUp DEF SplitAccepted
<1>2. CASE split.strategy = "PERCENTAGE"
  <2>1. built = SplitByPercentage(total, split.members)
    BY <1>2 DEF BuildSplits
  <2>2. split.members # << >>
    BY <1>2 DEF SplitAccepted
  <2> QED BY <2>1, <2>2, PercentageAddsUp, MembersAreFunction
<1>3. CASE split.strategy = "ROMANA"
  <2>1. built = SplitRomana(split.members)
    BY <1>3 DEF BuildSplits
  <2>2. split.members # << >> /\ ShareSum(split.members) = total
    BY <1>3 DEF SplitAccepted
  <2> QED BY <2>1, <2>2, RomanaAddsUp, MembersAreFunction
<1> QED BY <1>1, <1>2, <1>3 DEF SplitAccepted

\* The division closeCycle carries over to the next installment names as many
\* people and divides exactly the amount of that installment.
THEOREM ScaledSplitsAddUp ==
    ASSUME NEW U, NEW s \in DivisionAmong(U),
           NEW amount \in Nat \ {0}, NEW next \in Int
    PROVE  /\ ScaleSplits(s, amount, next) \in DivisionAmong(U)
           /\ Len(ScaleSplits(s, amount, next)) = Len(s)
           /\ s # << >> => SplitSum(ScaleSplits(s, amount, next)) = next
<1> DEFINE n == Len(s)
           scaled == [i \in DOMAIN s |->
                        [user |-> s[i].user,
                         amount |-> (s[i].amount * next) \div amount]]
<1>1. /\ n \in Nat /\ DOMAIN s = 1..n
      /\ \A i \in 1..n : s[i].user \in U /\ s[i].amount \in Int
  BY DivisionIsFunction
<1> HIDE DEF n
<1>2. \A i \in 1..n : scaled[i] \in [user : U, amount : Int]
  <2>1. ASSUME NEW i \in 1..n
        PROVE  (s[i].amount * next) \div amount \in Int
    <3>1. s[i].amount * next \in Int
      BY <1>1
    <3> QED BY <3>1
  <2> QED BY <1>1, <2>1
<1>3. DOMAIN scaled = 1..n /\ scaled = [i \in DOMAIN scaled |-> scaled[i]]
  BY <1>1
<1>4. ScaleSplits(s, amount, next) = Reconcile(scaled, next)
  BY DEF ScaleSplits
<1> HIDE DEF scaled
<1>5. scaled \in DivisionAmong(U) /\ Len(scaled) = n
  BY <1>1, <1>2, <1>3, FunctionIsDivision
<1>6. s # << >> => scaled # << >>
  BY <1>1, <1>5, EmptySeq DEF DivisionAmong, n
<1> QED BY <1>4, <1>5, <1>6, ReconcileAddsUp DEF n

-----------------------------------------------------------------------------
(* How far below zero a split can be.                                      *)

\* One more part rounded down keeps the sum of the parts below their share.
LEMMA FloorStep ==
    ASSUME NEW x \in Int, NEW y \in Int, NEW v \in Int, NEW c \in Nat,
           NEW m \in Nat \ {0}, x * m <= c * y
    PROVE  (x + (c * v) \div m) * m <= c * (y + v)
<1> DEFINE u == c * v
           d == u \div m
<1>1. u \in Int
  OBVIOUS
<1>2. d \in Int /\ d * m <= u
  <2> HIDE DEF u
  <2> QED BY <1>1
<1>3. (x + d) * m = x * m + d * m
  <2> HIDE DEF d
  <2> QED BY <1>2
<1>4. c * (y + v) = c * y + u
  OBVIOUS
<1>5. x * m \in Int /\ d * m \in Int /\ c * y \in Int
  <2> HIDE DEF d
  <2> QED BY <1>2
<1> HIDE DEF u
<1>6. x * m + d * m <= c * y + u
  <2> DEFINE p == x * m
             q == d * m
             r == c * y
  <2>1. p \in Int /\ q \in Int /\ r \in Int /\ p <= r /\ q <= u
    BY <1>2, <1>5
  <2> HIDE DEF p, q, r
  <2>2. p + q <= r + u
    BY <1>1, <2>1
  <2> QED BY <2>2 DEF p, q, r
<1> QED BY <1>3, <1>4, <1>6 DEF u

\* Parts rounded down one by one add up to no more than the parts together.
LEMMA FloorsAddUp ==
    ASSUME NEW w \in Seq(Int), NEW a \in Seq(Int), Len(a) = Len(w),
           NEW c \in Nat, NEW m \in Nat \ {0},
           \A i \in 1..Len(w) : a[i] = (c * w[i]) \div m
    PROVE  \A k \in 0..Len(w) : Running(a)[k] * m <= c * Running(w)[k]
<1> DEFINE n == Len(w)
           A == Running(a)
           W == Running(w)
           T == {k \in Nat : k <= n => A[k] * m <= c * W[k]}
<1>1. n \in Nat /\ \A i \in 1..n : w[i] \in Int /\ a[i] \in Int
  OBVIOUS
<1>2. /\ A \in [0..n -> Int] /\ A[0] = 0
      /\ \A k \in 1..n : A[k] = A[k-1] + a[k]
  BY RunningDef
<1>3. /\ W \in [0..n -> Int] /\ W[0] = 0
      /\ \A k \in 1..n : W[k] = W[k-1] + w[k]
  BY RunningDef
<1>4. \A i \in 1..n : a[i] = (c * w[i]) \div m
  OBVIOUS
<1> HIDE DEF n, A, W
<1>5. 0 \in T
  BY <1>2, <1>3
<1>6. ASSUME NEW k \in T PROVE k + 1 \in T
  <2>1. SUFFICES ASSUME k + 1 <= n PROVE A[k+1] * m <= c * W[k+1]
    OBVIOUS
  <2>2. k \in Nat /\ k + 1 \in 1..n /\ k \in 0..n /\ A[k] * m <= c * W[k]
    BY <1>1, <2>1
  <2>3. A[k] \in Int /\ W[k] \in Int /\ a[k+1] \in Int /\ w[k+1] \in Int
    BY <1>1, <1>2, <1>3, <2>2
  <2>4. A[k+1] = A[k] + a[k+1] /\ W[k+1] = W[k] + w[k+1]
    BY <1>2, <1>3, <2>2
  <2>5. a[k+1] = (c * w[k+1]) \div m
    BY <1>4, <2>2
  <2>6. (A[k] + (c * w[k+1]) \div m) * m <= c * (W[k] + w[k+1])
    BY ONLY <2>2, <2>3, FloorStep, c \in Nat, m \in Nat \ {0}
  <2> QED BY <2>4, <2>5, <2>6, Zenon
<1>7. T = Nat
  <2> HIDE DEF T
  <2>1. T \in SUBSET Nat
    BY DEF T
  <2> QED BY ONLY <1>5, <1>6, <2>1, SetInduction
<1>8. ASSUME NEW k \in 0..n PROVE A[k] * m <= c * W[k]
  <2>1. k \in Nat /\ k <= n
    BY <1>1
  <2>2. k \in T
    BY <1>7, <2>1
  <2> QED BY <2>1, <2>2, Zenon
<1> QED BY <1>8 DEF n, A, W

\* reconcile leaves every split but the last alone, and the last one is what the
\* others leave of the target.
LEMMA ReconciledLast ==
    ASSUME NEW U, NEW s \in DivisionAmong(U), s # << >>, NEW total \in Int
    PROVE  LET r == Reconcile(s, total)
               n == Len(s)
           IN  /\ DOMAIN r = 1..n /\ Len(r) = n /\ n \in Nat \ {0}
               /\ \A i \in 1..(n-1) : r[i].amount = s[i].amount
               /\ r[n].amount = total - Running(Amounts(s))[n-1]
               /\ Running(Amounts(s))[n-1] \in Int
<1> DEFINE r == Reconcile(s, total)
           n == Len(s)
           a == Amounts(s)
           A == Running(a)
<1>1. /\ n \in Nat \ {0} /\ DOMAIN s = 1..n
      /\ \A i \in 1..n : s[i].user \in U /\ s[i].amount \in Int
  BY DivisionIsFunction, EmptySeq DEF DivisionAmong
<1>2. a \in Seq(Int) /\ Len(a) = n /\ SplitSum(s) = Total(a)
  BY AmountsType
<1>3. /\ A \in [0..n -> Int]
      /\ \A k \in 1..n : A[k] = A[k-1] + a[k]
  BY <1>2, RunningDef
<1>4. Total(a) = A[n]
  BY <1>2 DEF Total
<1>5. a[n] = s[n].amount
  BY <1>1 DEF Amounts
<1>6. /\ DOMAIN r = 1..n
      /\ \A i \in 1..n : r[i].amount = IF i = n THEN s[i].amount + (total - SplitSum(s))
                                       ELSE s[i].amount
  BY <1>1 DEF Reconcile
<1>7. Len(r) = n
  BY ReconcileAddsUp
<1> HIDE DEF r, n, a, A
<1>8. n \in 1..n /\ n - 1 \in 0..n /\ \A i \in 1..(n-1) : i \in 1..n /\ i # n
  BY <1>1
<1>9. A[n] = A[n-1] + s[n].amount /\ A[n-1] \in Int /\ s[n].amount \in Int
  BY <1>1, <1>3, <1>5, <1>8
<1>10. r[n].amount = s[n].amount + (total - A[n])
  BY <1>2, <1>4, <1>6, <1>8
<1>11. r[n].amount = total - A[n-1]
  BY <1>9, <1>10
<1> QED BY <1>1, <1>6, <1>7, <1>8, <1>9, <1>11 DEF r, n, a, A

\* What is left for the last one of percentages that may be a hundredth of a percent
\* too much.
LEMMA PercentBound ==
    ASSUME NEW x \in Int, NEW y \in Int, NEW total \in Nat,
           x * 100000 <= total * y, y <= 100010
    PROVE  (total - x) * 10000 >= -total
<1>1. total * (100010 - y) >= 0
  <2>1. 100010 - y \in Nat
    OBVIOUS
  <2>2. \A d \in Nat : total * d >= 0
    OBVIOUS
  <2> QED BY <2>1, <2>2
<1>2. total * (100010 - y) = total * 100010 - total * y
  OBVIOUS
<1>3. total * y \in Int
  OBVIOUS
<1> DEFINE t == total * y
<1>4. x * 100000 <= t /\ t <= total * 100010 /\ t \in Int
  <2> DEFINE u == total * (100010 - y)
  <2>1. u = total * 100010 - t /\ u >= 0
    BY <1>1, <1>2
  <2>2. t \in Int /\ x * 100000 <= t
    BY <1>3
  <2> HIDE DEF t, u
  <2> QED BY <2>1, <2>2
<1> HIDE DEF t
<1> QED BY <1>4

\* What scaling leaves for the last one is no further below zero than it was, in
\* proportion.
LEMMA ScaleBound ==
    ASSUME NEW x \in Int, NEW y \in Int, NEW v \in Int, NEW amount \in Nat \ {0},
           NEW next \in Nat, y + v = amount, v * 10000 >= -amount,
           x * amount <= next * y
    PROVE  (next - x) * 10000 >= -next
<1> DEFINE z == (next - x) * 10000 + next
           xa == x * amount
           ny == next * y
           nv == next * v
           na == next * amount
<1>1. /\ xa \in Int /\ ny \in Int /\ nv \in Int /\ na \in Int /\ z \in Int
      /\ xa <= ny
  OBVIOUS
<1>2. z * amount = 10001 * na - 10000 * xa
  <2>1. z = 10001 * next - 10000 * x
    OBVIOUS
  <2>2. (10001 * next - 10000 * x) * amount = 10001 * (next * amount) - 10000 * (x * amount)
    OBVIOUS
  <2> QED BY <2>1, <2>2
<1>3. na = ny + nv
  <2>1. next * (y + v) = next * y + next * v
    OBVIOUS
  <2> QED BY <2>1
<1>4. 10000 * nv + na >= 0
  <2>1. 10000 * v + amount \in Nat
    OBVIOUS
  <2>2. \A d \in Nat : next * d >= 0
    OBVIOUS
  <2>3. next * (10000 * v + amount) = 10000 * (next * v) + next * amount
    OBVIOUS
  <2> QED BY <2>1, <2>2, <2>3
<1>5. z * amount >= 0
  <2> DEFINE w == z * amount
  <2>1. w = 10001 * na - 10000 * xa
    BY <1>2
  <2> HIDE DEF w, xa, ny, nv, na
  <2>2. w >= 0
    BY <1>1, <1>3, <1>4, <2>1
  <2> QED BY <2>2 DEF w
<1>6. z >= 0
  <2>1. SUFFICES ASSUME z < 0 PROVE FALSE
    BY <1>1
  <2>2. \A d \in Int, m \in Nat \ {0} : d < 0 => d * m < 0
    OBVIOUS
  <2> HIDE DEF z
  <2>3. z * amount < 0
    BY <1>1, <2>1, <2>2
  <2>4. z * amount \in Int
    BY <1>1
  <2> QED BY <1>5, <2>3, <2>4
<1> QED BY <1>6

\* Splits that are not below zero are more than nearly positive.
LEMMA NatIsNearlyPositive ==
    ASSUME NEW s, \A i \in DOMAIN s : s[i].amount \in Nat, NEW total \in Nat
    PROVE  NearlyPositive(s, total)
BY DEF NearlyPositive

\* Equal parts are a whole quotient, and a cent more for the first.
LEMMA EqualIsNearlyPositive ==
    ASSUME NEW U, NEW users \in Seq(U), users # << >>, NEW total \in Nat
    PROVE  NearlyPositive(SplitEqual(total, users), total)
<1> DEFINE n == Len(users)
           base == total \div n
           rest == total - base * n
           s == SplitEqual(total, users)
<1>1. n \in Nat \ {0} /\ DOMAIN users = 1..n
  BY EmptySeq, LenProperties
<1>2. base \in Nat /\ rest \in Int
  BY <1>1
<1>3. s = [i \in 1..n |-> [user |-> users[i],
                           amount |-> base + (IF i <= rest THEN 1 ELSE 0)]]
  BY <1>1 DEF SplitEqual
<1> HIDE DEF n, base, rest, s
<1>4. \A i \in DOMAIN s : s[i].amount \in Nat
  BY <1>2, <1>3
<1> QED BY <1>4, NatIsNearlyPositive DEF s

\* What each one says they pay is not below zero.
LEMMA RomanaIsNearlyPositive ==
    ASSUME NEW U, NEW ms \in MembersAmong(U), NEW total \in Nat
    PROVE  NearlyPositive(SplitRomana(ms), total)
<1>1. DOMAIN ms = 1..Len(ms) /\ \A i \in 1..Len(ms) : ms[i].share \in Nat
  BY MembersAreFunction
<1>2. \A i \in DOMAIN SplitRomana(ms) : SplitRomana(ms)[i].amount \in Nat
  BY <1>1 DEF SplitRomana
<1> QED BY <1>2, NatIsNearlyPositive

\* A natural number divided by a positive one is a natural number.
LEMMA QuotientType == \A x \in Nat, d \in Nat \ {0} : x \div d \in Nat
OBVIOUS

\* Of percentages that pass the check only the last part can be below zero.
LEMMA PercentageIsNearlyPositive ==
    ASSUME NEW U, NEW ms \in MembersAmong(U), ms # << >>, NEW total \in Nat,
           Absolute(ShareSum(ms) - 100 * Percent) <= Tolerance
    PROVE  NearlyPositive(SplitByPercentage(total, ms), total)
<1> DEFINE n == Len(ms)
           w == [i \in DOMAIN ms |-> ms[i].share]
           s == [i \in DOMAIN ms |->
                    [user |-> ms[i].user,
                     amount |-> (total * ms[i].share) \div (100 * Percent)]]
           a == Amounts(s)
           W == Running(w)
           A == Running(a)
           r == Reconcile(s, total)
           m == 100 * Percent
<1>a. m = 100000
  BY SMT DEF Percent
<1>0. m \in Nat \ {0}
  BY <1>a, SMT
<1> HIDE DEF m
<1>1. /\ n \in Nat \ {0} /\ DOMAIN ms = 1..n
      /\ \A i \in 1..n : ms[i].user \in U /\ ms[i].share \in Nat
  BY MembersAreFunction
<1>2. SplitByPercentage(total, ms) = r
  BY DEF SplitByPercentage
<1>3. /\ DOMAIN s = 1..n
      /\ \A i \in 1..n : /\ s[i].user = ms[i].user
                          /\ s[i].amount = (total * ms[i].share) \div m
  BY <1>1 DEF m
<1>4. /\ DOMAIN w = 1..n /\ w \in [1..n -> Int]
      /\ \A i \in 1..n : w[i] = ms[i].share
  BY <1>1
<1>5. ASSUME NEW i \in 1..n PROVE s[i].amount \in Nat
  <2>1. total * ms[i].share \in Nat
    BY <1>1
  <2> DEFINE x == total * ms[i].share
  <2> HIDE DEF x
  <2>2. x \in Nat /\ s[i].amount = x \div m /\ m \in Nat \ {0}
    BY <1>0, <1>3, <2>1 DEF x
  <2> QED BY ONLY <2>2, QuotientType
<1>6. s \in DivisionAmong(U) /\ Len(s) = n
  <2>1. s = [i \in DOMAIN s |-> s[i]]
    BY <1>1
  <2>2. \A i \in 1..n : s[i] = [user |-> s[i].user, amount |-> s[i].amount]
    BY <1>1
  <2> HIDE DEF s, n
  <2>3. \A i \in 1..n : s[i].user \in U /\ s[i].amount \in Int
    <3>1. \A x \in Nat : x \in Int
      OBVIOUS
    <3> QED BY <1>1, <1>3, <1>5, <3>1, Zenon
  <2>4. \A u \in U, x \in Int : [user |-> u, amount |-> x] \in [user : U, amount : Int]
    OBVIOUS
  <2>5. \A i \in 1..n : s[i] \in [user : U, amount : Int]
    BY <2>2, <2>3, <2>4, Zenon
  <2> QED BY <1>1, <1>3, <2>1, <2>5, FunctionIsDivision
<1>7. s # << >>
  BY <1>1, <1>3
<1>8. a \in Seq(Int) /\ Len(a) = n
  BY <1>6, AmountsType
<1>9. w \in Seq(Int) /\ Len(w) = n
  <2> HIDE DEF w, n
  <2> QED BY <1>1, <1>4, FunctionIsSeq
<1>10. \A i \in 1..n : a[i] = (total * w[i]) \div m
  BY <1>3, <1>4 DEF Amounts
<1>11. ShareSum(ms) = W[n]
  BY <1>9 DEF ShareSum, Total
<1> HIDE DEF n, w, s, a, W, A, r
<1>12. \A k \in 0..n : A[k] * m <= total * W[k]
  <2>1. Len(a) = Len(w)
    BY <1>8, <1>9
  <2>2. \A i \in 1..Len(w) : a[i] = (total * w[i]) \div m
    BY <1>9, <1>10
  <2>3. \A k \in 0..Len(w) : Running(a)[k] * m <= total * Running(w)[k]
    BY ONLY <1>0, <1>8, <1>9, <2>1, <2>2, FloorsAddUp, total \in Nat
  <2> QED BY <1>9, <2>3, Zenon DEF A, W
<1>13. n \in 1..n /\ n - 1 \in 0..n /\ n \in 0..n
  BY <1>1
<1>14. W[n] = W[n-1] + ms[n].share /\ W[n-1] \in Int /\ ms[n].share \in Nat
  BY <1>1, <1>4, <1>9, <1>13, RunningDef DEF W
<1>15. W[n] <= 100010
  <2>1. W[n] \in Int
    BY <1>14
  <2> QED BY <1>11, <2>1, SMT DEF Absolute, Percent, Tolerance
<1>16. W[n-1] <= 100010
  BY <1>14, <1>15, SMT
<1>17. /\ DOMAIN r = 1..n /\ Len(r) = n
       /\ \A i \in 1..(n-1) : r[i].amount = s[i].amount
       /\ r[n].amount = total - A[n-1] /\ A[n-1] \in Int
  <2>1. total \in Int
    OBVIOUS
  <2>2. LET q == Reconcile(s, total)
            k == Len(s)
        IN  /\ DOMAIN q = 1..k /\ Len(q) = k
            /\ \A i \in 1..(k-1) : q[i].amount = s[i].amount
            /\ q[k].amount = total - Running(Amounts(s))[k-1]
            /\ Running(Amounts(s))[k-1] \in Int
    BY ONLY <1>6, <1>7, <2>1, ReconciledLast
  <2> QED BY <1>6, <2>2, Zenon DEF r, A, a
<1>18. A[n-1] * m <= total * W[n-1]
  BY <1>12, <1>13
<1>19. (total - A[n-1]) * 10000 >= -total
  <2>1. A[n-1] \in Int /\ W[n-1] \in Int
    BY <1>14, <1>17
  <2>2. A[n-1] * 100000 <= total * W[n-1]
    BY <1>a, <1>18, SMT
  <2> QED BY ONLY <1>16, <2>1, <2>2, PercentBound, total \in Nat, SMT
<1>20. ASSUME NEW i \in 1..n
       PROVE  IF i = n THEN r[i].amount * 10000 >= -total ELSE r[i].amount >= 0
  <2>1. CASE i = n
    BY <1>17, <1>19, <2>1, SMT
  <2>2. CASE i # n
    <3>1. i \in 1..(n-1)
      BY <1>1, <2>2
    <3> QED BY <1>5, <1>17, <2>2, <3>1, SMT
  <2> QED BY <2>1, <2>2, SMT
<1>21. NearlyPositive(r, total)
  BY <1>17, <1>20, SMT DEF NearlyPositive
<1> QED BY <1>2, <1>21

\* Whatever buildSplits accepts, nobody is owed but the last one, and that one no
\* more than the hundredth of a percent the sum may be off by.
THEOREM BuiltSplitsNearlyPositive ==
    ASSUME NEW U, NEW users \in Seq(U), NEW total \in Nat, NEW split,
           split.members \in MembersAmong(U),
           SplitAccepted(split, total, users)
    PROVE  NearlyPositive(BuildSplits(split, total, users), total)
<1> DEFINE built == BuildSplits(split, total, users)
<1>1. CASE split.strategy = "EQUAL"
  <2>1. built = SplitEqual(total, users) /\ users # << >>
    BY <1>1 DEF BuildSplits, SplitAccepted
  <2> QED BY <2>1, EqualIsNearlyPositive
<1>2. CASE split.strategy = "PERCENTAGE"
  <2>1. built = SplitByPercentage(total, split.members)
    BY <1>2 DEF BuildSplits
  <2>2. /\ split.members # << >>
        /\ Absolute(ShareSum(split.members) - 100 * Percent) <= Tolerance
    BY <1>2 DEF SplitAccepted
  <2> QED BY <2>1, <2>2, PercentageIsNearlyPositive
<1>3. CASE split.strategy = "ROMANA"
  <2>1. built = SplitRomana(split.members)
    BY <1>3 DEF BuildSplits
  <2> QED BY <2>1, RomanaIsNearlyPositive
<1> QED BY <1>1, <1>2, <1>3 DEF SplitAccepted

\* Carried over to the next installment, the last split is no further below zero in
\* proportion than it was, however the parts of the others round.
THEOREM ScaledSplitsNearlyPositive ==
    ASSUME NEW U, NEW s \in DivisionAmong(U), NEW amount \in Nat \ {0},
           NEW next \in Nat, s # << >>, SplitSum(s) = amount,
           NearlyPositive(s, amount)
    PROVE  NearlyPositive(ScaleSplits(s, amount, next), next)
<1> DEFINE n == Len(s)
           w == Amounts(s)
           t == [i \in DOMAIN s |->
                    [user |-> s[i].user,
                     amount |-> (s[i].amount * next) \div amount]]
           a == Amounts(t)
           W == Running(w)
           A == Running(a)
           r == Reconcile(t, next)
<1>1. /\ n \in Nat \ {0} /\ DOMAIN s = 1..n
      /\ \A i \in 1..n : s[i].user \in U /\ s[i].amount \in Int
  BY DivisionIsFunction, EmptySeq DEF DivisionAmong
<1>2. ScaleSplits(s, amount, next) = r
  BY DEF ScaleSplits
<1>3. /\ DOMAIN t = 1..n /\ t = [i \in DOMAIN t |-> t[i]]
      /\ \A i \in 1..n : /\ t[i].user = s[i].user
                          /\ t[i].amount = (s[i].amount * next) \div amount
  BY <1>1
<1>a. \A i \in 1..n : t[i] = [user |-> t[i].user, amount |-> t[i].amount]
  BY <1>1
<1>4. /\ w \in Seq(Int) /\ Len(w) = n /\ \A i \in 1..n : w[i] = s[i].amount
      /\ W[n] = amount
  BY <1>1, AmountsType DEF Amounts, Total
<1> HIDE DEF n, w, t, a, W, A, r
<1>5. \A i \in 1..(n-1) : s[i].amount >= 0
  BY <1>1, SMT DEF NearlyPositive, n
<1>6. s[n].amount * 10000 >= -amount
  BY <1>1, SMT DEF NearlyPositive, n
<1>7. \A i \in 1..n : t[i].amount = (next * s[i].amount) \div amount
  <2>1. \A x \in Int : x * next = next * x
    OBVIOUS
  <2> QED BY <1>1, <1>3, <2>1
<1>8. \A x \in Int : /\ (next * x) \div amount \in Int
                     /\ x >= 0 => (next * x) \div amount \in Nat
  <2>1. ASSUME NEW x \in Int
        PROVE  next * x \in Int /\ (x >= 0 => next * x \in Nat)
    OBVIOUS
  <2>2. \A y \in Int : y \div amount \in Int /\ (y \in Nat => y \div amount \in Nat)
    OBVIOUS
  <2> QED BY <2>1, <2>2
<1>9. t \in DivisionAmong(U) /\ Len(t) = n
  <2>1. \A i \in 1..n : t[i].user \in U /\ t[i].amount \in Int
    BY <1>1, <1>3, <1>7, <1>8
  <2>2. \A u \in U, x \in Int : [user |-> u, amount |-> x] \in [user : U, amount : Int]
    OBVIOUS
  <2>3. \A i \in 1..n : t[i] \in [user : U, amount : Int]
    BY <1>a, <2>1, <2>2, Zenon
  <2> QED BY <1>1, <1>3, <2>3, FunctionIsDivision
<1>10. t # << >>
  BY <1>1, <1>3
<1>11. a \in Seq(Int) /\ Len(a) = n
  BY <1>9, AmountsType DEF a
<1>12. \A k \in 0..n : A[k] * amount <= next * W[k]
  <2>1. Len(a) = Len(w)
    BY <1>4, <1>11
  <2>2. \A i \in 1..Len(w) : a[i] = (next * w[i]) \div amount
    BY <1>3, <1>4, <1>7 DEF a, Amounts
  <2>3. \A k \in 0..Len(w) : Running(a)[k] * amount <= next * Running(w)[k]
    BY ONLY <1>4, <1>11, <2>1, <2>2, FloorsAddUp, amount \in Nat \ {0}, next \in Nat
  <2> QED BY <1>4, <2>3, Zenon DEF A, W
<1>13. n \in 1..n /\ n - 1 \in 0..n
  BY <1>1
<1>14. W[n-1] + s[n].amount = amount /\ W[n-1] \in Int
  <2>1. /\ W \in [0..n -> Int]
        /\ \A k \in 1..n : W[k] = W[k-1] + w[k]
    BY <1>4, RunningDef DEF W
  <2>2. W[n-1] \in Int /\ W[n] = W[n-1] + s[n].amount
    BY <1>4, <1>13, <2>1
  <2> QED BY <1>4, <2>2
<1>15. /\ DOMAIN r = 1..n /\ Len(r) = n
       /\ \A i \in 1..(n-1) : r[i].amount = t[i].amount
       /\ r[n].amount = next - A[n-1] /\ A[n-1] \in Int
  <2>1. next \in Int
    OBVIOUS
  <2>2. LET q == Reconcile(t, next)
            k == Len(t)
        IN  /\ DOMAIN q = 1..k /\ Len(q) = k
            /\ \A i \in 1..(k-1) : q[i].amount = t[i].amount
            /\ q[k].amount = next - Running(Amounts(t))[k-1]
            /\ Running(Amounts(t))[k-1] \in Int
    BY ONLY <1>9, <1>10, <2>1, ReconciledLast
  <2> QED BY <1>9, <2>2, Zenon DEF r, A, a
<1>16. A[n-1] * amount <= next * W[n-1]
  BY <1>12, <1>13
<1>17. (next - A[n-1]) * 10000 >= -next
  <2> DEFINE x == A[n-1]
             y == W[n-1]
             v == s[n].amount
  <2>1. /\ x \in Int /\ y \in Int /\ v \in Int /\ y + v = amount
        /\ v * 10000 >= -amount /\ x * amount <= next * y
    BY <1>1, <1>6, <1>13, <1>14, <1>15, <1>16, SMT
  <2> HIDE DEF x, y, v
  <2>2. (next - x) * 10000 >= -next
    BY ONLY <2>1, ScaleBound, amount \in Nat \ {0}, next \in Nat, SMT
  <2> QED BY <2>2, SMT DEF x
<1>18. ASSUME NEW i \in 1..n
       PROVE  IF i = n THEN r[i].amount * 10000 >= -next ELSE r[i].amount >= 0
  <2>1. CASE i = n
    BY <1>15, <1>17, <2>1, SMT
  <2>2. CASE i # n
    <3>1. i \in 1..(n-1)
      BY <1>1, <2>2
    <3>2. s[i].amount \in Int /\ s[i].amount >= 0
      BY <1>1, <1>5, <3>1
    <3>3. t[i].amount \in Nat
      BY <1>7, <1>8, <3>2
    <3> QED BY <1>15, <2>2, <3>1, <3>3, SMT
  <2> QED BY <2>1, <2>2, SMT
<1>19. NearlyPositive(r, next)
  BY <1>15, <1>18, SMT DEF NearlyPositive
<1> QED BY <1>2, <1>19

-----------------------------------------------------------------------------
(* Rounding does not drift.                                                *)

\* What is multiplied is divided back without a rest.
LEMMA ProductDivided == \A x \in Int, d \in Nat \ {0} : (x * d) \div d = x
OBVIOUS

\* closeCycle carries the division of one installment over to the next: when the two
\* are equal it comes out as it was, however often that is done.
THEOREM ScaledToItself ==
    ASSUME NEW U, NEW s \in DivisionAmong(U), NEW amount \in Nat \ {0},
           s = << >> \/ SplitSum(s) = amount
    PROVE  ScaleSplits(s, amount, amount) = s
<1>1. /\ Len(s) \in Nat /\ DOMAIN s = 1..Len(s)
      /\ s = [i \in DOMAIN s |-> s[i]]
      /\ \A i \in 1..Len(s) : s[i].user \in U /\ s[i].amount \in Int
      /\ \A i \in 1..Len(s) : [user |-> s[i].user, amount |-> s[i].amount] = s[i]
  <2> DEFINE T == [user : U, amount : Int]
  <2>1. s \in Seq(T)
    BY DEF DivisionAmong
  <2>2. \A x \in T : [user |-> x.user, amount |-> x.amount] = x
    OBVIOUS
  <2> HIDE DEF T
  <2>3. s \in [1..Len(s) -> T]
    BY <2>1
  <2>4. \A i \in 1..Len(s) : s[i] \in T
    BY <2>3
  <2> QED BY <2>2, <2>3, <2>4, DivisionIsFunction
<1>2. [i \in DOMAIN s |-> [user |-> s[i].user,
                           amount |-> (s[i].amount * amount) \div amount]] = s
  <2>1. \A i \in DOMAIN s : (s[i].amount * amount) \div amount = s[i].amount
    BY <1>1, ProductDivided
  <2>2. \A i \in DOMAIN s :
          [user |-> s[i].user, amount |-> (s[i].amount * amount) \div amount] = s[i]
    BY <1>1, <2>1
  <2> QED BY <1>1, <2>2
<1>3. Reconcile(s, amount) = s
  <2>1. CASE s = << >>
    <3>1. DOMAIN s = {}
      BY <2>1
    <3> QED BY <1>1, <3>1 DEF Reconcile
  <2>2. CASE SplitSum(s) = amount
    <3>1. \A i \in DOMAIN s : s[i].amount + (amount - SplitSum(s)) = s[i].amount
      BY <1>1, <2>2
    <3>2. \A i \in DOMAIN s :
            [user |-> s[i].user,
             amount |-> IF i = Len(s) THEN s[i].amount + (amount - SplitSum(s))
                        ELSE s[i].amount] = s[i]
      BY <1>1, <3>1
    <3> QED BY <1>1, <3>2 DEF Reconcile
  <2> QED BY <2>1, <2>2
<1> QED BY <1>2, <1>3 DEF ScaleSplits

-----------------------------------------------------------------------------
(* Installments: computeInstallmentAmount.                                 *)

\* Integer division: the base installment fits count times, and no cent more does.
LEMMA BaseBounds ==
    ASSUME NEW total \in Nat, NEW count \in Nat \ {0}
    PROVE  LET base == BaseInstallment(total, count)
           IN  /\ base \in Nat
               /\ base * count <= total
               /\ total < base * count + count
<1> DEFINE base == total \div count
<1>1. base \in Nat /\ base * count <= total /\ total < base * count + count
  <2>1. total = count * base + (total % count) /\ (total % count) \in 0..(count-1)
    OBVIOUS
  <2> QED BY <2>1
<1> QED BY <1>1 DEF BaseInstallment

\* The check createWithInstallments makes on the first installment says exactly
\* that the total has a cent for each installment, which is what every other
\* installment, closed later and never checked, needs as well.
THEOREM FirstInstallmentDecides ==
    ASSUME NEW total \in Nat, NEW count \in Nat \ {0, 1}
    PROVE  InstallmentAmount(total, count, 1) >= 1 <=> count <= total
<1> DEFINE base == BaseInstallment(total, count)
<1>1. InstallmentAmount(total, count, 1) = base
  BY DEF InstallmentAmount
<1>2. base \in Nat /\ base * count <= total /\ total < base * count + count
  BY BaseBounds
<1> HIDE DEF base
<1>3. ASSUME base >= 1 PROVE count <= total
  <2>1. base * count >= count
    BY <1>2, <1>3
  <2> QED BY <1>2, <2>1
<1>4. ASSUME base = 0 PROVE total < count
  BY <1>2, <1>4
<1> QED BY <1>1, <1>2, <1>3, <1>4

\* computeInstallmentAmount charges at least a cent for every number when the
\* first one is at least a cent, which is all that create checks.
THEOREM InstallmentsArePositive ==
    ASSUME NEW total \in Nat, NEW count \in Nat \ {0}, count <= total,
           NEW number \in 1..count
    PROVE  InstallmentAmount(total, count, number) \in Nat \ {0}
<1> DEFINE base == BaseInstallment(total, count)
<1>1. base \in Nat /\ base * count <= total /\ total < base * count + count
  BY BaseBounds
<1>2. InstallmentAmount(total, count, number) =
        IF number < count THEN base ELSE total - base * (count - 1)
  BY DEF InstallmentAmount
<1> HIDE DEF base
<1>3. base >= 1
  <2>1. ASSUME base = 0 PROVE FALSE
    BY <1>1, <2>1
  <2> QED BY <1>1, <2>1
<1>4. base * (count - 1) = base * count - base
  BY <1>1
<1> QED BY <1>1, <1>2, <1>3, <1>4

\* The last installment takes what is left, which is less than a cent more for
\* each of the installments.
THEOREM LastInstallmentBound ==
    ASSUME NEW total \in Nat, NEW count \in Nat \ {0}
    PROVE  LET base == BaseInstallment(total, count)
           IN  InstallmentAmount(total, count, count) \in base..(base + count - 1)
<1> DEFINE base == BaseInstallment(total, count)
<1>1. base \in Nat /\ base * count <= total /\ total < base * count + count
  BY BaseBounds
<1>2. InstallmentAmount(total, count, count) = total - base * (count - 1)
  BY DEF InstallmentAmount
<1> HIDE DEF base
<1>3. base * (count - 1) = base * count - base
  BY <1>1
<1>4. base * count \in Int
  BY <1>1
<1>5. total - base * (count - 1) \in base..(base + count - 1)
  BY <1>1, <1>3, <1>4
<1> QED BY <1>2, <1>5 DEF base

\* The installments of a purchase add up to its total.
THEOREM InstallmentsAddUp ==
    ASSUME NEW total \in Nat, NEW count \in Nat \ {0}
    PROVE  Total([n \in 1..count |-> InstallmentAmount(total, count, n)]) = total
<1> DEFINE base == BaseInstallment(total, count)
           a == [n \in 1..count |-> InstallmentAmount(total, count, n)]
           R == Running(a)
           T == {k \in Nat : k < count => R[k] = base * k}
<1>1. base \in Nat /\ base * (count - 1) \in Int
  <2>1. base \in Nat
    BY BaseBounds
  <2> HIDE DEF base
  <2> QED BY <2>1
<1>2. \A n \in 1..count : a[n] = IF n < count THEN base ELSE total - base * (count - 1)
  BY DEF InstallmentAmount
<1>3. a \in [1..count -> Int]
  <2>1. DOMAIN a = 1..count /\ a = [n \in 1..count |-> a[n]]
    OBVIOUS
  <2> HIDE DEF a, base
  <2>2. \A n \in 1..count : a[n] \in Int
    BY <1>1, <1>2
  <2> QED BY <2>1, <2>2
<1> HIDE DEF a, base
<1>4. a \in Seq(Int) /\ Len(a) = count
  BY <1>3, FunctionIsSeq
<1>5. /\ R[0] = 0
      /\ \A n \in 1..count : R[n] = R[n-1] + a[n]
  BY <1>4, RunningDef
<1> HIDE DEF R
<1>6. T = Nat
  <2>1. 0 \in T
    BY <1>1, <1>5
  <2>2. ASSUME NEW k \in T PROVE k + 1 \in T
    <3>1. SUFFICES ASSUME k + 1 < count PROVE R[k+1] = base * (k+1)
      OBVIOUS
    <3>2. k \in Nat /\ R[k] = base * k /\ k + 1 \in 1..count
      BY <3>1
    <3>3. R[k+1] = R[k] + base
      BY <1>2, <1>5, <3>1, <3>2
    <3>4. base * (k+1) = base * k + base
      BY <1>1, <3>2
    <3> QED BY <3>2, <3>3, <3>4
  <2> HIDE DEF T
  <2>3. T \in SUBSET Nat
    BY DEF T
  <2> QED BY ONLY <2>1, <2>2, <2>3, SetInduction
<1>7. R[count - 1] = base * (count - 1)
  BY <1>6
<1>8. R[count] = R[count-1] + (total - base * (count - 1))
  BY <1>2, <1>5
<1>9. R[count] = total
  BY <1>1, <1>7, <1>8
<1> QED BY <1>4, <1>9 DEF Total, R, a
=============================================================================
