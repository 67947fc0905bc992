------------------------------ MODULE MCAccess ------------------------------
(***************************************************************************)
(* Constants for model checking Access: two users, and a third token that  *)
(* claims the email of the first.                                          *)
(***************************************************************************)
EXTENDS Access, TLC

Symmetry == Permutations(Requests)

MCUsers == {"ana", "beto"}
MCEmails == {"a", "b"}
MCProfiles == {[sub |-> "ana", email |-> "a"], [sub |-> "beto", email |-> "b"],
               [sub |-> "beto", email |-> "a"]}
=============================================================================
