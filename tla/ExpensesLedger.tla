--------------------------- MODULE ExpensesLedger ---------------------------
(***************************************************************************)
(* The expenses of a client that sends one request at a time keep the      *)
(* promise of Ledger.  A purchase is opened by the insert of its plan, and *)
(* charged by the insert of an installment; every other statement on the   *)
(* tables, the advance of the plan included, is a stutter.                 *)
(***************************************************************************)
EXTENDS ExpensesInvariant, FiniteSetsExt

Charged(p) == MapThenSumSet(LAMBDA i : i.amount, IssuedOf(p))

\* What is still to be charged of each purchase, and in how many installments.
Owed == [p \in Requests |->
            IF p \in PlanIds THEN plans[p].total - Charged(p) ELSE 0]
Remaining == [p \in Requests |->
                IF p \in PlanIds THEN plans[p].count - Cardinality(IssuedOf(p)) ELSE 0]

Purchases == INSTANCE Ledger WITH
    Purchases <- Requests,
    Totals <- {b.amount : b \in CreateBodies},
    Counts <- {b.installments : b \in CreateBodies} \ {0},
    opened <- PlanIds, owed <- Owed, left <- Remaining

\* Every behaviour of the tables is one the ledger allows: each installment is
\* charged once, in turn, and together they are the total of the purchase.
KeepsLedger == Purchases!Spec

Rows == [m \in Methods |->
            IF Exists(m) THEN [owner |-> Owner[m], type |-> methods[m]]
            ELSE NoMethod]
Used == {e.method : e \in expenses} \cup {plans[p].method : p \in PlanIds}

Table == INSTANCE MethodTable WITH
    Ids <- Methods, Owners <- Users, Types <- MethodType, NoRow <- NoMethod,
    rows <- Rows, used <- Used, given <- Methods

\* The expenses use the payment methods as their table allows: a purchase, a
\* cloned installment or a patch that races a delete never leaves an expense or a
\* plan whose method is gone, and a method goes only when neither refers to it.
KeepsTable == Table!Spec

\* The amount sent with installments is the total of the purchase: what was
\* charged for it never exceeds that.
NeverOvercharged == \A p \in PlanIds : Charged(p) <= plans[p].total
=============================================================================
