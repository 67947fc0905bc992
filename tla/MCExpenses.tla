----------------------------- MODULE MCExpenses -----------------------------
(***************************************************************************)
(* Constants for model checking Expenses: ana and beto share the group     *)
(* "home"; ana also has her "personal" group and the only credit card      *)
(* "visa", beto pays "cash"; carla is in no group of theirs.               *)
(***************************************************************************)
EXTENDS ExpensesLedger, TLC

MCUsers == {"ana", "beto", "carla"}
MCGroups == {"home", "personal"}
MCDefaultGroups == {"personal"}
MCMembers == [g \in MCGroups |-> IF g = "home" THEN <<"ana", "beto">> ELSE <<"ana">>]
MCMethods == {"visa", "cash"}
MCOwner == [m \in MCMethods |-> IF m = "visa" THEN "ana" ELSE "beto"]
MCInitialType == [m \in MCMethods |-> IF m = "visa" THEN "CREDIT" ELSE "OTHER"]

Symmetry == Permutations(Requests)

NoSplit == [strategy |-> NoStrategy, members |-> << >>]
Equal == [strategy |-> "EQUAL", members |-> << >>]
\* Two thirds and a third, 0.001 percent short of all of it.
TwoThirds == [strategy |-> "PERCENTAGE",
              members |-> << [user |-> "ana", share |-> 66666],
                             [user |-> "beto", share |-> 33333] >>]
\* A bit more than all of it, and more than that: carla gets what is left.
Percentages(beto) == [strategy |-> "PERCENTAGE",
                      members |-> << [user |-> "ana", share |-> 100000],
                                     [user |-> "beto", share |-> beto],
                                     [user |-> "carla", share |-> 0] >>]
\* What each one pays of a purchase of 7: it adds up to the total of the purchase
\* and not to its first installment.
Romana7 == [strategy |-> "ROMANA",
            members |-> << [user |-> "ana", share |-> 5],
                           [user |-> "beto", share |-> 2] >>]

Purchase(group, amount, installments, split) ==
    [user |-> "ana", group |-> group, method |-> "visa", amount |-> amount,
     installments |-> installments, split |-> split]

Close == [user |-> "ana", method |-> "visa"]

\* What the runs send.  7 in 3 installments is 2, 2 and 3; 5 in 2 is 2 and 3.
MCClose == {Close}
\* 2 in 3 installments is refused.
MCPurchases == {Purchase("home", 7, 3, TwoThirds), Purchase("personal", 5, 2, NoSplit),
                Purchase("personal", 2, 3, NoSplit)}
MCPersonalPurchase == {Purchase("personal", 5, 2, NoSplit)}
MCSharedPurchase == {Purchase("home", 7, 3, TwoThirds)}
MCRomanaPurchase == {Purchase("home", 7, 3, Romana7)}
MCExpense == {[Purchase("home", 5, 0, Equal) EXCEPT !.user = "beto", !.method = "cash"]}
\* 20000 an installment; a sum of 100.009 is accepted, one of 100.5 is not.
MCOverPurchases == {Purchase("home", 60000, 3, Percentages(9)),
                    Purchase("home", 60000, 3, Percentages(500))}
MCSharedOrNot == MCOverPurchases \cup MCExpense
MCMixed == MCPurchases \cup MCExpense
\* 10 in 3 installments is 3, 3 and 4.
MCSerialPurchases == {Purchase("home", 10, 3, TwoThirds), Purchase("personal", 5, 2, NoSplit),
                      Purchase("personal", 2, 3, NoSplit)} \cup MCRomanaPurchase
MCCashPurchase ==
    {[Purchase("home", 7, 3, Equal) EXCEPT !.user = "beto", !.method = "cash"]}
MCEdits == {[user |-> "beto", amount |-> 0, method |-> "cash"],
            [user |-> "ana", amount |-> 3, method |-> NoMethod],
            [user |-> "ana", amount |-> 0, method |-> "cash"],
            [user |-> "carla", amount |-> 4, method |-> NoMethod]}
=============================================================================
