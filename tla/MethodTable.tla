----------------------------- MODULE MethodTable -----------------------------
(***************************************************************************)
(* What the table of payment methods promises to the rest of the service,  *)
(* whoever writes to it: an id is handed out once, a row keeps its owner   *)
(* for life, and a row that an expense or a plan refers to is not deleted. *)
(***************************************************************************)

CONSTANTS Ids, Owners, Types, NoRow

VARIABLES
    rows,            \* the row of each id
    used,            \* the ids that other tables refer to
    given            \* the ids that no later row may have

vars == <<rows, used, given>>

Row == [owner : Owners, type : Types]
Existing == {m \in Ids : rows[m] # NoRow}

Init ==
    /\ rows \in [Ids -> Row \cup {NoRow}]
    /\ used = {}
    /\ given = Existing

Insert(m) ==
    /\ m \notin given
    /\ \E row \in Row : rows' = [rows EXCEPT ![m] = row]
    /\ given' = given \cup {m}
    /\ UNCHANGED used

\* An id is given up without ever being the id of a row.
Skip(m) ==
    /\ given' = given \cup {m}
    /\ UNCHANGED <<rows, used>>

ChangeType(m) ==
    /\ m \in Existing
    /\ \E type \in Types : rows' = [rows EXCEPT ![m].type = type]
    /\ UNCHANGED <<used, given>>

Delete(m) ==
    /\ m \in Existing \ used
    /\ rows' = [rows EXCEPT ![m] = NoRow]
    /\ UNCHANGED <<used, given>>

\* A row of another table is written: it may stop using one method and start
\* using another, which must be there.
Use ==
    /\ used' \in SUBSET Existing
    /\ UNCHANGED <<rows, given>>

Next ==
    \/ \E m \in Ids : Insert(m) \/ Skip(m) \/ ChangeType(m) \/ Delete(m)
    \/ Use

Spec == Init /\ [][Next]_vars
=============================================================================
