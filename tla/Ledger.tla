------------------------------- MODULE Ledger -------------------------------
(***************************************************************************)
(* What a purchase in installments promises, whatever the service does to  *)
(* keep it: the amount a client sends is the total of the purchase, it is  *)
(* charged in exactly as many installments as were asked for, each one of  *)
(* at least a cent, and the last one takes what the others left.           *)
(***************************************************************************)
EXTENDS Integers

CONSTANTS Purchases, Totals, Counts

VARIABLES
    opened,          \* the purchases made
    owed,            \* what is still to be charged of each
    left             \* in how many installments

vars == <<opened, owed, left>>

Init ==
    /\ opened = {}
    /\ owed = [p \in Purchases |-> 0]
    /\ left = [p \in Purchases |-> 0]

Open(p) ==
    /\ p \notin opened
    /\ opened' = opened \cup {p}
    /\ \E total \in Totals, count \in Counts :
          /\ count <= total
          /\ owed' = [owed EXCEPT ![p] = total]
          /\ left' = [left EXCEPT ![p] = count]

Charge(p) ==
    /\ left[p] > 0
    /\ \E amount \in 1..owed[p] :
          /\ owed[p] - amount >= left[p] - 1
          /\ left[p] = 1 => amount = owed[p]
          /\ owed' = [owed EXCEPT ![p] = @ - amount]
    /\ left' = [left EXCEPT ![p] = @ - 1]
    /\ UNCHANGED opened

Next == \E p \in Purchases : Open(p) \/ Charge(p)

Spec == Init /\ [][Next]_vars
=============================================================================
