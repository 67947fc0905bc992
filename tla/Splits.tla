------------------------------- MODULE Splits -------------------------------
(***************************************************************************)
(* How one expense is divided among people: buildSplits and the strategies *)
(* it dispatches to, and scaleSplits, which carries the division of one    *)
(* installment over to the next.                                           *)
(*                                                                         *)
(* A division is a sequence of records [user, amount]; the code's optional *)
(* percentage of a split is carried along and never read again, so it is   *)
(* left out.  A request says how to divide by a record [strategy, members] *)
(* whose members are [user, share]: a share is a percentage under          *)
(* PERCENTAGE and an amount under ROMANA; an absent one counts as 0, as    *)
(* `?? 0` does.  Percentages are integers in thousandths of a percent.     *)
(***************************************************************************)
EXTENDS Integers, Sequences, Functions

Percent == 1000                     \* one percent
\* Mistake: a whole percent for a hundredth of one.
ToleranceOfOnePercent == 1000
\* The 0.01 percent the sum may be off by.  In floating point a sum off by exactly
\* that falls on either side of the comparison; here it is accepted.
Tolerance == 10

SplitStrategy == {"EQUAL", "PERCENTAGE", "ROMANA"}
NoStrategy == "NONE"                \* the request names no splitStrategy

Absolute(n) == IF n < 0 THEN -n ELSE n

\* reduce((sum, x) => sum + x, 0), and the sums it goes through.
Running(amounts) ==
    LET sum[n \in 0..Len(amounts)] ==
            IF n = 0 THEN 0 ELSE sum[n-1] + amounts[n]
    IN  sum
Total(amounts) == Running(amounts)[Len(amounts)]

SplitSum(splits) == Total([i \in DOMAIN splits |-> splits[i].amount])
ShareSum(members) == Total([i \in DOMAIN members |-> members[i].share])

\* Mistake: what rounding left over is lost.
NotReconciled(splits, total) == splits

\* What rounding left over, up or down, goes to the last split.
Reconcile(splits, total) ==
    [i \in DOMAIN splits |->
        [user |-> splits[i].user,
         amount |-> IF i = Len(splits)
                    THEN splits[i].amount + (total - SplitSum(splits))
                    ELSE splits[i].amount]]

\* The cents the division leaves over go one by one to the first members.
SplitEqual(total, users) ==
    LET base == total \div Len(users)
        remainder == total - base * Len(users)
    IN  [i \in DOMAIN users |->
            [user |-> users[i],
             amount |-> base + (IF i <= remainder THEN 1 ELSE 0)]]

SplitByPercentage(total, members) ==
    Reconcile([i \in DOMAIN members |->
                  [user |-> members[i].user,
                   amount |-> (total * members[i].share) \div (100 * Percent)]],
              total)

SplitRomana(members) ==
    [i \in DOMAIN members |->
        [user |-> members[i].user, amount |-> members[i].share]]

\* The requests buildSplits does not answer with a BadRequestException.  PERCENTAGE
\* does not ask who the people are; ROMANA asks that they are group members.
SplitAccepted(split, total, users) ==
    /\ users # << >>
    /\ \/ split.strategy = "EQUAL"
       \/ /\ split.strategy = "PERCENTAGE"
          /\ split.members # << >>
          /\ Absolute(ShareSum(split.members) - 100 * Percent) <= Tolerance
       \/ /\ split.strategy = "ROMANA"
          /\ split.members # << >>
          /\ \A i \in DOMAIN split.members : split.members[i].user \in Range(users)
          /\ ShareSum(split.members) = total

BuildSplits(split, total, users) ==
    CASE split.strategy = "EQUAL"      -> SplitEqual(total, users)
      [] split.strategy = "PERCENTAGE" -> SplitByPercentage(total, split.members)
      [] split.strategy = "ROMANA"     -> SplitRomana(split.members)

\* Mistake: only the whole percents of each part are carried over.
ScaleByPercent(splits, amount, next) ==
    Reconcile([i \in DOMAIN splits |->
                  [user |-> splits[i].user,
                   amount |-> (((100 * splits[i].amount) \div amount) * next) \div 100]],
              next)
\* The division of an expense of `amount`, carried over to one of `next`.
ScaleSplits(splits, amount, next) ==
    Reconcile([i \in DOMAIN splits |->
                  [user |-> splits[i].user,
                   amount |-> (splits[i].amount * next) \div amount]],
              next)

\* What holds of the division of every purchase in installments: no split is below
\* zero but the last, and that by no more than the percentages may exceed a hundred.
NearlyPositive(splits, amount) ==
    \A i \in DOMAIN splits :
        IF i = Len(splits) THEN splits[i].amount * 10000 >= -amount
        ELSE splits[i].amount >= 0
=============================================================================
