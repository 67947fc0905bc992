-------------------------- MODULE MCPaymentMethods --------------------------
(***************************************************************************)
(* Constants for model checking PaymentMethods: ana's card and what she    *)
(* and beto send about it.                                                 *)
(***************************************************************************)
EXTENDS PaymentMethods, TLC

Symmetry == Permutations(Requests)

MCUsers == {"ana", "beto"}
MCDays == {10, 99}
MCDaysOfMonth == MCDays \cap 1..31
MCCreate == {[owner |-> "ana", type |-> "CREDIT", start |-> 10, end |-> 10],
             [owner |-> "beto", type |-> "CASH", start |-> 99, end |-> NoDay]}
MCPatch == {[user |-> "ana", type |-> NoType, start |-> 99, end |-> NoDay],
            [user |-> "ana", type |-> "DEBIT", start |-> NoDay, end |-> NoDay],
            [user |-> "ana", type |-> NoType, start |-> 10, end |-> NoDay],
            [user |-> "ana", type |-> "CREDIT", start |-> NoDay, end |-> 10],
            [user |-> "beto", type |-> "CREDIT", start |-> NoDay, end |-> 10]}
=============================================================================
