------------------------------ MODULE MCSearch ------------------------------
(***************************************************************************)
(* Constants for model checking Search: six rows, the third one of a group *)
(* ana is not in and the fourth one beto's; free places before, between    *)
(* and after those of the first tables; sizes below, at and above the      *)
(* largest; a filter by kind and one by date.                              *)
(***************************************************************************)
EXTENDS Search

MCRows == 1..6
MCMembers == [g \in {"home", "personal", "other"} |->
                IF g = "other" THEN {"beto"} ELSE {"ana"}]
MCGroupOf == [e \in MCRows |-> IF e = 3 THEN "other"
                               ELSE IF e = 5 THEN "personal" ELSE "home"]
MCOwnerOf == [e \in MCRows |-> IF e = 4 THEN "beto" ELSE "ana"]

MCPlaces == 1..8
MCKinds == {"food", "rent"}
Placed(S) == [e \in S |-> [place |-> e + 2, kind |-> IF e = 2 THEN "rent" ELSE "food"]]
MCInitial == {Placed({}), Placed({1, 2, 4}), Placed({1, 2, 3, 5})}

Query(list, group, size) ==
    [list |-> list, group |-> group, kinds |-> MCKinds, dates |-> MCPlaces, size |-> size]
MCQueries ==
    {Query("expenses", NoGroup, 2), Query("expenses", NoGroup, 9),
     Query("expenses", "home", 1), Query("expenses", "other", 2),
     [Query("expenses", NoGroup, 1) EXCEPT !.kinds = {"food"}, !.dates = 3..8],
     Query("groups", NoGroup, 0), Query("members", "home", 1),
     Query("members", "other", 1), Query("paymentMethods", NoGroup, 1),
     Query("apiKeys", NoGroup, 2)}
=============================================================================
