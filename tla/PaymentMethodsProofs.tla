------------------------ MODULE PaymentMethodsProofs ------------------------
(***************************************************************************)
(* What PaymentMethods promises, for any number of requests, users and     *)
(* bodies.                                                                 *)
(*                                                                         *)
(* That a write an await after the check of the owner still finds that     *)
(* owner there takes two facts the handlers never look at: an id is given  *)
(* once, by a request that is over then, and what a request has read, or   *)
(* was sent, agrees with the owner of the row for as long as the row is    *)
(* there.  OwnersInv states them, and is inductive relative to TypeOK.     *)
(***************************************************************************)
EXTENDS PaymentMethods, TLAPS

USE MethodConstants

\* The id of a row is the request that made it, and that request is over.
GivenInv == \A m \in Ids : pc[m] = "done"

\* Whose row it is that a request is about to write.
Checked(r) ==
    /\ pc[r] = "update" => /\ pc[call[r].id] # "idle"
                           /\ call[r].patch.user = call[r].existing.owner
                           /\ Owns(call[r].patch.user, call[r].id) \/ call[r].id \notin Ids
    /\ pc[r] = "delete" => /\ pc[call[r].id] # "idle"
                           /\ Owns(call[r].user, call[r].id) \/ call[r].id \notin Ids

OwnersInv == GivenInv /\ \A r \in Requests : Checked(r)

-----------------------------------------------------------------------------
(* The rows.                                                               *)

\* A body that may be sent makes a row.
LEMMA CreatedTyped ==
    ASSUME NEW b \in CreateBodies
    PROVE  /\ Created(b) \in Method
           /\ Created(b).owner = b.owner /\ Created(b).type = b.type
           /\ ~BadDay(Created(b))
<1>1. b \in CreateBody /\ b \in Method
  BY DEF CreateBody
<1>2. CASE b.type = "CREDIT"
  BY <1>1, <1>2 DEF Created, CreateBody, BadDay
<1>3. CASE b.type # "CREDIT"
  BY <1>1, <1>3 DEF Created, Method, BadDay
<1> QED BY <1>2, <1>3

\* A patch makes a row of a row, of the same owner; its cycle is gone when it was
\* not a card that was read, and is not made one.
LEMMA PatchedTyped ==
    ASSUME NEW row \in Method, NEW b \in PatchBodies, NEW existing \in Method
    PROVE  LET next == Patched(row, b, existing)
           IN  /\ next \in Method /\ next # NoMethod
               /\ next.owner = row.owner
               /\ next.type = IF b.type = NoType THEN row.type ELSE b.type
               /\ row.type = existing.type => HasCycleOnlyAsCredit(next)
               /\ BadDay(next) => BadDay(existing)
                                     \/ (b.type = NoType /\ BadDay(b))
<1> DEFINE next == Patched(row, b, existing)
           type == IF b.type = NoType THEN row.type ELSE b.type
           isCredit == NextType(b, existing) = "CREDIT"
           start == IF isCredit THEN Day(b.start, existing.start) ELSE NoDay
           end == IF isCredit THEN Day(b.end, existing.end) ELSE NoDay
<1>1. /\ b.user \in Users /\ b.type \in Type \cup {NoType}
      /\ b.start \in Days \cup {NoDay} /\ b.end \in Days \cup {NoDay}
      /\ b.type = "CREDIT" => {b.start, b.end} \subseteq DaysOfMonth \cup {NoDay}
  BY DEF PatchBody
<1>2. /\ row = [owner |-> row.owner, type |-> row.type,
                start |-> row.start, end |-> row.end]
      /\ row.owner \in Users /\ row.type \in Type
  BY DEF Method
<1>3. existing.type \in Type /\ existing.start \in Days \cup {NoDay}
                             /\ existing.end \in Days \cup {NoDay}
  BY DEF Method
<1>4. next = [owner |-> row.owner, type |-> type, start |-> start, end |-> end]
  <2>1. next = [row EXCEPT !.type = type, !.start = start, !.end = end]
    BY DEF Patched
  <2> HIDE DEF next, type, start, end
  <2> QED BY <1>2, <2>1
<1>5. /\ next.owner = row.owner /\ next.type = type
      /\ next.start = start /\ next.end = end
  BY <1>4
<1>6. type \in Type /\ start \in Days \cup {NoDay} /\ end \in Days \cup {NoDay}
  BY <1>1, <1>2, <1>3 DEF Day
<1>7. next \in Method /\ next # NoMethod
  BY <1>2, <1>4, <1>6 DEF Method
<1>8. row.type = existing.type => HasCycleOnlyAsCredit(next)
  BY <1>5 DEF HasCycleOnlyAsCredit, NextType
<1>9. BadDay(next) => BadDay(existing) \/ (b.type = NoType /\ BadDay(b))
  <2> SUFFICES ASSUME BadDay(next), ~BadDay(existing)
               PROVE  b.type = NoType /\ BadDay(b)
    OBVIOUS
  <2>1. isCredit
    BY <1>5 DEF BadDay
  <2>2. BadDay(b)
    BY <1>5, <2>1 DEF BadDay, Day
  <2> QED BY <1>1, <2>1, <2>2 DEF NextType, BadDay
<1> QED BY <1>5, <1>7, <1>8, <1>9


-----------------------------------------------------------------------------
(* The inductive invariant.                                                *)

Inv == TypeOK /\ OwnersInv

\* What no write does: give the id of a request that has begun to a new row, or
\* give a row to another user.
RowsStay ==
    \A m \in Requests : pc[m] # "idle" =>
        \/ methods'[m] = NoMethod
        \/ methods[m] # NoMethod /\ methods'[m].owner = methods[m].owner

\* A step that ends a request, whatever row it writes, keeps the invariant when it
\* gives no row away and only the request that ends may have made one.
LEMMA EndKeeps ==
    ASSUME Inv, RowsStay,
           NEW r \in Requests, NEW outcome \in Ended, End(r, outcome),
           methods' \in [Requests -> Method \cup {NoMethod}],
           used' \subseteq Ids',
           \A m \in Ids' : m \in Ids \/ (m = r /\ outcome = "done"),
           r \in Ids' => outcome = "done"
    PROVE  Inv'
<1>1. /\ pc' \in [Requests -> InFlight \cup Ended \cup {"idle"}]
      /\ call' \in [Requests -> PatchCall \cup DeleteCall \cup {NoCall}]
      /\ pc'[r] = outcome
      /\ \A q \in Requests \ {r} : pc'[q] = pc[q] /\ call'[q] = call[q]
      /\ outcome \notin InFlight \cup {"idle"}
  BY DEF Inv, TypeOK, End, Ended, InFlight
<1>2. TypeOK'
  BY <1>1 DEF Inv, TypeOK, InFlight
<1>3. GivenInv'
  BY <1>1 DEF Inv, OwnersInv, GivenInv, Ids
<1>4. ASSUME NEW q \in Requests PROVE Checked(q)'
  <2>1. CASE q = r
    BY <1>1, <2>1 DEF Checked, InFlight
  <2>2. CASE q # r
    <3>1. pc'[q] = pc[q] /\ call'[q] = call[q] /\ Checked(q)
      BY <1>1, <2>2 DEF Inv, OwnersInv
    <3>2. pc[q] \in InFlight => call[q].id \in Requests
      BY DEF Inv, TypeOK, InFlight, PatchCall, DeleteCall
    <3>3. ASSUME NEW m \in Requests, pc[m] # "idle", NEW u,
                 Owns(u, m) \/ m \notin Ids
          PROVE  pc'[m] # "idle" /\ (Owns(u, m)' \/ m \notin Ids')
      BY <1>1, <3>3 DEF RowsStay, Owns, Ids
    <3>4. CASE pc[q] = "update"
      BY <3>1, <3>2, <3>3, <3>4 DEF Checked, InFlight
    <3>5. CASE pc[q] = "delete"
      BY <3>1, <3>2, <3>3, <3>5 DEF Checked, InFlight
    <3> QED BY <3>1, <3>4, <3>5 DEF Checked
  <2> QED BY <2>1, <2>2
<1> QED BY <1>2, <1>3, <1>4 DEF Inv, OwnersInv

\* A step that only reads the row of a method keeps the invariant.
LEMMA ReadKeeps ==
    ASSUME Inv, UNCHANGED <<methods, used>>, NEW r \in Requests, pc[r] = "idle",
           NEW step \in InFlight, NEW c,
           pc' = [pc EXCEPT ![r] = step], call' = [call EXCEPT ![r] = c],
           IF step = "update"
           THEN /\ c \in PatchCall /\ c.existing = methods[c.id]
                /\ Owns(c.patch.user, c.id)
           ELSE c \in DeleteCall /\ Owns(c.user, c.id)
    PROVE  Inv'
<1>1. /\ pc' \in [Requests -> InFlight \cup Ended \cup {"idle"}]
      /\ call' \in [Requests -> PatchCall \cup DeleteCall \cup {NoCall}]
      /\ pc'[r] = step /\ call'[r] = c
      /\ \A q \in Requests \ {r} : pc'[q] = pc[q] /\ call'[q] = call[q]
  BY DEF Inv, TypeOK
<1>2. TypeOK'
  BY <1>1 DEF Inv, TypeOK, InFlight, Ids
<1>3. GivenInv' /\ \A m \in Requests : pc[m] # "idle" => pc'[m] # "idle"
  BY <1>1 DEF Inv, OwnersInv, GivenInv, Ids, InFlight
<1>4. \A m \in Ids : pc[m] # "idle"
  BY DEF Inv, OwnersInv, GivenInv
<1>5. ASSUME NEW q \in Requests PROVE Checked(q)'
  <2>1. CASE q = r
    BY <1>1, <1>3, <1>4, <2>1 DEF Checked, InFlight, Owns, Ids, PatchCall, DeleteCall
  <2>2. CASE q # r
    <3>1. pc'[q] = pc[q] /\ call'[q] = call[q] /\ Checked(q)
      BY <1>1, <2>2 DEF Inv, OwnersInv
    <3>2. pc[q] \in InFlight => call[q].id \in Requests
      BY DEF Inv, TypeOK, InFlight, PatchCall, DeleteCall
    <3> QED BY <1>3, <3>1, <3>2 DEF Checked, InFlight, Owns, Ids
  <2> QED BY <2>1, <2>2
<1> QED BY <1>2, <1>3, <1>5 DEF Inv, OwnersInv

\* A request that is refused or cut short leaves the table alone.
LEMMA QuietEndKeeps ==
    ASSUME Inv, NEW r \in Requests, NEW outcome \in {"rejected", "failed"},
           End(r, outcome), UNCHANGED <<methods, used>>, pc[r] # "done"
    PROVE  Inv'
<1>1. /\ methods' \in [Requests -> Method \cup {NoMethod}]
      /\ used' \subseteq Ids' /\ Ids' = Ids /\ r \notin Ids
      /\ RowsStay /\ outcome \in Ended
  BY DEF Inv, OwnersInv, GivenInv, TypeOK, Ids, RowsStay, Ended
<1> QED BY <1>1, EndKeeps


\* A row is made by a request that begins, and it is in order.
LEMMA CreateDoes ==
    ASSUME Inv, NEW r \in Requests, Create(r)
    PROVE  /\ methods[r] = NoMethod /\ pc[r] = "idle" /\ End(r, "done") /\ used' = used
           /\ \E row \in Method : methods' = [methods EXCEPT ![r] = row] /\ ~BadDay(row)
<1>1. methods[r] = NoMethod
  BY DEF Inv, OwnersInv, GivenInv, Ids, Create
<1> QED BY <1>1, CreatedTyped DEF Create

\* A row is written by its owner, and stays that owner's.
LEMMA UpdateDoes ==
    ASSUME Inv, NEW r \in Requests, Update(r), pc'[r] = "done"
    PROVE  LET c == call[r]
               row == Patched(methods[c.id], c.patch, c.existing)
           IN  /\ pc[r] = "update" /\ End(r, "done") /\ used' = used
               /\ c \in PatchCall /\ c.id \in Ids
               /\ c.patch.user = methods[c.id].owner
               /\ methods' = [methods EXCEPT ![c.id] = row]
               /\ row \in Method /\ row # NoMethod
               /\ row.owner = methods[c.id].owner /\ row.type \in Type
               /\ methods[c.id].type = c.existing.type => HasCycleOnlyAsCredit(row)
               /\ BadDay(row) => BadDay(c.existing)
                                    \/ (c.patch.type = NoType /\ BadDay(c.patch))
<1>1. /\ pc[r] = "update" /\ call[r] \in PatchCall /\ Checked(r)
      /\ \A out : End(r, out) => pc'[r] = out
  BY DEF Inv, OwnersInv, TypeOK, Update, End
<1>2. /\ call[r].id \in Ids /\ End(r, "done") /\ used' = used
      /\ methods' = [methods EXCEPT ![call[r].id] =
                       Patched(methods[call[r].id], call[r].patch, call[r].existing)]
  BY <1>1 DEF Update, Reject
<1>3. /\ call[r].patch \in PatchBodies /\ call[r].existing \in Method
      /\ methods[call[r].id] \in Method
      /\ call[r].patch.user = methods[call[r].id].owner
  BY <1>1, <1>2 DEF Checked, Owns, PatchCall, Inv, TypeOK, Ids
<1>4. \A row \in Method : row.type \in Type
  BY DEF Method
<1> QED BY <1>1, <1>2, <1>3, <1>4, PatchedTyped

\* A row is deleted by its owner, when nothing refers to it.
LEMMA DeleteDoes ==
    ASSUME Inv, NEW r \in Requests, Delete(r), pc'[r] = "done"
    PROVE  LET c == call[r]
           IN  /\ pc[r] = "delete" /\ End(r, "done") /\ used' = used
               /\ c \in DeleteCall /\ c.id \in Ids \ used
               /\ c.user = methods[c.id].owner
               /\ methods' = [methods EXCEPT ![c.id] = NoMethod]
<1>1. /\ pc[r] = "delete" /\ call[r] \in DeleteCall /\ Checked(r)
      /\ \A out : End(r, out) => pc'[r] = out
  BY DEF Inv, OwnersInv, TypeOK, Delete, End
<1> QED BY <1>1 DEF Delete, Reject, Checked, Owns

\* Whatever else a request does leaves the table alone.
LEMMA RestDoes ==
    ASSUME Inv, NEW r \in Requests,
           \/ PatchStart(r) \/ DeleteStart(r) \/ Abort(r)
           \/ (Update(r) \/ Delete(r)) /\ pc'[r] # "done"
    PROVE  /\ UNCHANGED <<methods, used>> /\ pc'[r] # "done"
           /\ pc' = [pc EXCEPT ![r] = pc'[r]] /\ pc'[r] # "idle"
<1>1. \A out : pc' = [pc EXCEPT ![r] = out] => pc'[r] = out
  BY DEF Inv, TypeOK
<1> QED BY <1>1 DEF PatchStart, DeleteStart, Abort, Update, Delete, Reject, End

\* At the start there is no method.
LEMMA InvInit == Init => Inv
<1> SUFFICES ASSUME Init PROVE Inv
  OBVIOUS
<1>1. Ids = {} /\ \A r \in Requests : pc[r] = "idle"
  BY DEF Init, Ids
<1> QED
  BY <1>1 DEF Init, Inv, TypeOK, OwnersInv, GivenInv, Checked

\* Every step keeps the invariant.
LEMMA InvNext == Inv /\ [Next]_vars => Inv'
<1> SUFFICES ASSUME Inv, [Next]_vars PROVE Inv'
  OBVIOUS
<1>1. ASSUME NEW r \in Requests, Create(r) PROVE Inv'
  <2>1. PICK row \in Method : methods' = [methods EXCEPT ![r] = row]
    BY <1>1, CreateDoes
  <2>2. /\ methods' \in [Requests -> Method \cup {NoMethod}]
        /\ Ids' = Ids \cup {r} /\ used' \subseteq Ids' /\ RowsStay /\ "done" \in Ended
    BY <1>1, <2>1, CreateDoes DEF Inv, TypeOK, Ids, RowsStay, Ended
  <2> QED BY <1>1, <2>2, CreateDoes, EndKeeps
<1>2. ASSUME NEW r \in Requests, PatchStart(r) PROVE Inv'
  <2> USE <1>2 DEF PatchStart
  <2>1. PICK b \in PatchBodies, m \in Requests :
            IF Owns(b.user, m)
            THEN /\ pc' = [pc EXCEPT ![r] = "update"]
                 /\ call' = [call EXCEPT ![r] =
                               [patch |-> b, id |-> m, existing |-> methods[m]]]
                 /\ UNCHANGED <<methods, used>>
            ELSE Reject(r)
    OBVIOUS
  <2>2. CASE Owns(b.user, m)
    <3> DEFINE c == [patch |-> b, id |-> m, existing |-> methods[m]]
    <3>1. c \in PatchCall /\ c.existing = methods[c.id] /\ Owns(c.patch.user, c.id)
      BY <2>2 DEF Owns, Ids, PatchCall, Inv, TypeOK
    <3> QED BY <2>1, <2>2, <3>1, ReadKeeps DEF InFlight
  <2>3. CASE ~Owns(b.user, m)
    BY <2>1, <2>3, QuietEndKeeps DEF Reject
  <2> QED BY <2>2, <2>3
<1>3. ASSUME NEW r \in Requests, DeleteStart(r) PROVE Inv'
  <2> USE <1>3 DEF DeleteStart
  <2>1. PICK u \in Deleters, m \in Requests :
            IF Owns(u, m)
            THEN /\ pc' = [pc EXCEPT ![r] = "delete"]
                 /\ call' = [call EXCEPT ![r] = [user |-> u, id |-> m]]
                 /\ UNCHANGED <<methods, used>>
            ELSE Reject(r)
    OBVIOUS
  <2>2. CASE Owns(u, m)
    <3> DEFINE c == [user |-> u, id |-> m]
    <3>1. c \in DeleteCall /\ Owns(c.user, c.id)
      BY <2>2 DEF DeleteCall
    <3> QED BY <2>1, <2>2, <3>1, ReadKeeps DEF InFlight
  <2>3. CASE ~Owns(u, m)
    BY <2>1, <2>3, QuietEndKeeps DEF Reject
  <2> QED BY <2>2, <2>3
<1>4. ASSUME NEW r \in Requests, Update(r) PROVE Inv'
  <2>1. CASE pc'[r] = "done"
    <3>1. PICK row \in Method, m \in Ids :
              /\ methods' = [methods EXCEPT ![m] = row] /\ row # NoMethod
              /\ row.owner = methods[m].owner
      BY <1>4, <2>1, UpdateDoes
    <3>2. methods' \in [Requests -> Method \cup {NoMethod}] /\ Ids' = Ids
      BY <3>1 DEF Inv, TypeOK, Ids
    <3>3. RowsStay
      BY <3>1 DEF Inv, TypeOK, Ids, RowsStay
    <3>4. used' \subseteq Ids' /\ "done" \in Ended /\ End(r, "done")
      BY <1>4, <2>1, <3>2, UpdateDoes DEF Inv, TypeOK, Ended
    <3> QED BY <1>4, <2>1, <3>2, <3>3, <3>4, EndKeeps
  <2>2. CASE pc'[r] # "done"
    <3>1. End(r, "rejected") /\ pc[r] # "done"
      BY <1>4, <2>2 DEF Update, Reject, End, Inv, TypeOK
    <3> QED BY <1>4, <2>2, <3>1, RestDoes, QuietEndKeeps
  <2> QED BY <2>1, <2>2
<1>5. ASSUME NEW r \in Requests, Delete(r) PROVE Inv'
  <2>1. CASE pc'[r] = "done"
    <3>1. PICK m \in Ids \ used : methods' = [methods EXCEPT ![m] = NoMethod]
      BY <1>5, <2>1, DeleteDoes
    <3>2. /\ methods' \in [Requests -> Method \cup {NoMethod}]
          /\ Ids' = Ids \ {m} /\ used' \subseteq Ids' /\ RowsStay /\ "done" \in Ended
      BY <1>5, <2>1, <3>1, DeleteDoes DEF Inv, TypeOK, Ids, RowsStay, Ended
    <3> QED BY <1>5, <2>1, <3>2, DeleteDoes, EndKeeps
  <2>2. CASE pc'[r] # "done"
    <3>1. (End(r, "rejected") \/ End(r, "failed")) /\ pc[r] # "done"
      BY <1>5, <2>2 DEF Delete, Reject, End, Inv, TypeOK
    <3> QED BY <1>5, <2>2, <3>1, RestDoes, QuietEndKeeps
  <2> QED BY <2>1, <2>2
<1>6. ASSUME NEW r \in MayFail, Abort(r) PROVE Inv'
  BY <1>6, QuietEndKeeps DEF Abort, InFlight
<1>7. ASSUME NEW m \in Requests, Refer(m) \/ Release(m) PROVE Inv'
  <2>1. used' \subseteq Ids /\ UNCHANGED <<methods, pc, call>>
    BY <1>7 DEF Refer, Release, Inv, TypeOK
  <2> QED
    BY <2>1 DEF Inv, TypeOK, OwnersInv, GivenInv, Checked, Ids, Owns
<1>8. CASE UNCHANGED vars
  BY <1>8 DEF vars, Inv, TypeOK, OwnersInv, GivenInv, Checked, Ids, Owns
<1> QED BY <1>1, <1>2, <1>3, <1>4, <1>5, <1>6, <1>7, <1>8 DEF Next

\* The table is of its type, and whatever another table refers to is there; and a
\* request that is about to write a row was sent by the owner that the row has, if it
\* still is there.
THEOREM Invariance == Spec => []Inv
BY InvInit, InvNext, PTL DEF Spec

\* PaymentMethods keeps its tables and requests of the right kind.
THEOREM TypeCorrect == Spec => []TypeOK
<1>1. Inv => TypeOK
  BY DEF Inv
<1> QED BY <1>1, Invariance, PTL


-----------------------------------------------------------------------------
(* What no step does.                                                      *)

\* Every step is one of four: a create, a patch or a delete that gets as far as the
\* table, or a step that leaves the rows alone.
LEMMA StepKinds ==
    ASSUME Inv, [Next]_vars
    PROVE  \/ \E r \in Requests : Create(r)
           \/ \E r \in Requests : Update(r) /\ pc'[r] = "done"
           \/ \E r \in Requests : Delete(r) /\ pc'[r] = "done"
           \/ /\ methods' = methods
              /\ \A r \in Requests : pc[r] \in InFlight => pc'[r] # "done"
<1>1. ASSUME NEW r \in Requests,
             \/ PatchStart(r) \/ DeleteStart(r) \/ Abort(r)
             \/ (Update(r) \/ Delete(r)) /\ pc'[r] # "done"
      PROVE  /\ methods' = methods
             /\ \A q \in Requests : pc[q] \in InFlight => pc'[q] # "done"
  <2>1. \A q \in Requests \ {r} : pc'[q] = pc[q]
    BY <1>1, RestDoes DEF Inv, TypeOK
  <2> QED BY <1>1, <2>1, RestDoes DEF InFlight
<1>2. ASSUME NEW m \in Requests, Refer(m) \/ Release(m)
      PROVE  /\ methods' = methods
             /\ \A q \in Requests : pc[q] \in InFlight => pc'[q] # "done"
  BY <1>2 DEF Refer, Release, InFlight
<1>3. CASE UNCHANGED vars
  BY <1>3 DEF vars, InFlight
<1> QED BY <1>1, <1>2, <1>3 DEF Next

\* No request changes or deletes a method that is not its user's, however long ago
\* the owner was checked.
THEOREM OnlyOwnersWrite == Spec => OnlyOwnerWrites
<1> DEFINE Written(m) == \E r \in Requests :
               \/ /\ pc[r] = "update" /\ pc'[r] = "done"
                  /\ call[r].id = m /\ call[r].patch.user = methods[m].owner
                  /\ methods'[m] # NoMethod /\ methods'[m].owner = methods[m].owner
               \/ /\ pc[r] = "delete" /\ pc'[r] = "done"
                  /\ call[r].id = m /\ call[r].user = methods[m].owner
<1>1. ASSUME Inv, [Next]_vars, NEW m \in Ids, methods'[m] # methods[m]
      PROVE  Written(m)
  <2>1. methods \in [Requests -> Method \cup {NoMethod}] /\ m \in Requests
    BY <1>1 DEF Inv, TypeOK, Ids
  <2>2. ~\E r \in Requests : Create(r)
    BY <1>1, <2>1, CreateDoes DEF Ids
  <2>3. ASSUME NEW r \in Requests, Update(r), pc'[r] = "done" PROVE Written(m)
    <3>1. PICK c : c = call[r]
      OBVIOUS
    <3>2. PICK row : row = Patched(methods[c.id], c.patch, c.existing)
      OBVIOUS
    <3>3. /\ pc[r] = "update" /\ methods' = [methods EXCEPT ![c.id] = row]
          /\ c.patch.user = methods[c.id].owner
          /\ row # NoMethod /\ row.owner = methods[c.id].owner
      BY <1>1, <2>3, <3>1, <3>2, UpdateDoes
    <3>4. c.id = m /\ methods'[m] = row
      BY <1>1, <2>1, <3>3
    <3> QED BY <2>3, <3>1, <3>3, <3>4
  <2>4. ASSUME NEW r \in Requests, Delete(r), pc'[r] = "done" PROVE Written(m)
    <3>1. /\ pc[r] = "delete" /\ methods' = [methods EXCEPT ![call[r].id] = NoMethod]
          /\ call[r].user = methods[call[r].id].owner
      BY <1>1, <2>4, DeleteDoes
    <3>2. call[r].id = m
      BY <1>1, <2>1, <3>1
    <3> QED BY <2>4, <3>1, <3>2
  <2> QED BY <1>1, <2>2, <2>3, <2>4, StepKinds
<1>2. Inv /\ [Next]_vars => [\A m \in Ids : methods'[m] # methods[m] => Written(m)]_vars
  BY <1>1
<1> QED BY <1>2, Invariance, PTL DEF Spec, OnlyOwnerWrites

\* A patch leaves a billing cycle on what is not a card only when the type was
\* changed after it read the row.
THEOREM CycleFollows == Spec => CycleFollowsType
<1> DEFINE Follows(r) ==
        pc[r] = "update" /\ pc'[r] = "done" =>
           LET c == call[r]
           IN  methods[c.id].type = c.existing.type => HasCycleOnlyAsCredit(methods'[c.id])
<1>1. ASSUME Inv, [Next]_vars, NEW r \in Requests, pc[r] = "update", pc'[r] = "done",
             methods[call[r].id].type = call[r].existing.type
      PROVE  HasCycleOnlyAsCredit(methods'[call[r].id])
  <2>1. \A q \in Requests \ {r} : ~End(q, "done")
    BY <1>1 DEF End, Inv, TypeOK
  <2>2. Update(r)
    <3>1. ~\E q \in Requests : Create(q)
      BY <1>1, <2>1, CreateDoes
    <3>2. \A q \in Requests : Update(q) /\ pc'[q] = "done" => q = r
      BY <2>1, UpdateDoes, <1>1
    <3>3. \A q \in Requests : ~(Delete(q) /\ pc'[q] = "done")
      BY <2>1, DeleteDoes, <1>1
    <3> QED BY <1>1, <3>1, <3>2, <3>3, StepKinds DEF InFlight
  <2>3. PICK c : c = call[r]
    OBVIOUS
  <2>4. PICK row : row = Patched(methods[c.id], c.patch, c.existing)
    OBVIOUS
  <2>5. /\ c.id \in Ids /\ methods' = [methods EXCEPT ![c.id] = row]
        /\ methods[c.id].type = c.existing.type => HasCycleOnlyAsCredit(row)
    BY <1>1, <2>2, <2>3, <2>4, UpdateDoes
  <2> QED BY <1>1, <2>3, <2>5 DEF Inv, TypeOK, Ids
<1>2. Inv /\ [Next]_vars => [\A r \in Requests : Follows(r)]_vars
  BY <1>1
<1> QED BY <1>2, Invariance, PTL DEF Spec, CycleFollowsType

\* A day no month has comes into the table only with a patch that does not say its
\* type, and comes back only with one that had read it before.
THEOREM BadDaysNeedNoType == Spec => BadDayNeedsNoType
<1> DEFINE Brought(m) == \E r \in Requests :
               /\ pc[r] = "update" /\ pc'[r] = "done" /\ call[r].id = m
               /\ \/ call[r].patch.type = NoType /\ BadDay(call[r].patch)
                  \/ BadDay(call[r].existing)
           Bad(m) == /\ methods'[m] # NoMethod /\ BadDay(methods'[m])
                     /\ methods[m] = NoMethod \/ ~BadDay(methods[m])
<1>1. ASSUME Inv, [Next]_vars, NEW m \in Requests, Bad(m) PROVE Brought(m)
  <2>1. methods \in [Requests -> Method \cup {NoMethod}] /\ methods'[m] # methods[m]
    BY <1>1 DEF Inv, TypeOK, Ids
  <2>2. ~\E r \in Requests : Create(r)
    <3> SUFFICES ASSUME NEW r \in Requests, Create(r) PROVE FALSE
      OBVIOUS
    <3>1. PICK row \in Method : methods' = [methods EXCEPT ![r] = row] /\ ~BadDay(row)
      BY <1>1, CreateDoes
    <3> QED BY <1>1, <2>1, <3>1
  <2>3. ASSUME NEW r \in Requests, Update(r), pc'[r] = "done" PROVE Brought(m)
    <3>1. PICK c : c = call[r]
      OBVIOUS
    <3>2. PICK row : row = Patched(methods[c.id], c.patch, c.existing)
      OBVIOUS
    <3>3. /\ pc[r] = "update" /\ methods' = [methods EXCEPT ![c.id] = row]
          /\ BadDay(row) => BadDay(c.existing) \/ (c.patch.type = NoType /\ BadDay(c.patch))
      BY <1>1, <2>3, <3>1, <3>2, UpdateDoes
    <3>4. c.id = m /\ methods'[m] = row
      BY <2>1, <3>3
    <3> QED BY <1>1, <2>3, <3>1, <3>3, <3>4
  <2>4. ~\E r \in Requests : Delete(r) /\ pc'[r] = "done"
    BY <1>1, <2>1, DeleteDoes
  <2> QED BY <1>1, <2>1, <2>2, <2>3, <2>4, StepKinds
<1>2. Inv /\ [Next]_vars => [\A m \in Requests : Bad(m) => Brought(m)]_vars
  BY <1>1
<1> QED BY <1>2, Invariance, PTL DEF Spec, BadDayNeedsNoType


-----------------------------------------------------------------------------
(* The table that the rest of the service sees.                            *)

TableRow(m) == IF m \in Ids
               THEN [owner |-> methods[m].owner, type |-> methods[m].type]
               ELSE NoMethod
Rows == [m \in Requests |-> TableRow(m)]
Given == {m \in Requests : pc[m] # "idle"}

\* The ids that are taken, as MethodTable sees them, are those of the rows.
LEMMA TableIds ==
    ASSUME TypeOK
    PROVE  /\ Table!Existing = Ids
           /\ \A m \in Ids : Rows[m] \in Table!Row /\ Rows[m] # NoMethod
<1>1. \A m \in Ids : TableRow(m) \in [owner : Users, type : Type]
  BY DEF TypeOK, TableRow, Method, Ids
<1>2. \A m \in Requests : (TableRow(m) # NoMethod) <=> m \in Ids
  BY <1>1 DEF TableRow
<1> QED BY <1>1, <1>2 DEF Rows, Table!Existing, Table!Row, TableRow, Ids

\* Every step of a handler is a step of the table, or changes nothing there.
LEMMA TableStep == Inv /\ [Next]_vars => [Table!Next]_(Table!vars)
<1> SUFFICES ASSUME Inv, [Next]_vars PROVE [Table!Next]_(Table!vars)
  OBVIOUS
<1> USE DEF Inv
<1>1. TypeOK /\ TypeOK'
  BY InvNext
<1>2. \A m \in Requests : methods'[m] = methods[m] => TableRow(m)' = TableRow(m)
  BY DEF TableRow, Ids
<1>3. methods' = methods => Rows' = Rows
  BY <1>2 DEF Rows
<1>4. ASSUME NEW r \in Requests, pc' = [pc EXCEPT ![r] = pc'[r]], pc'[r] # "idle"
      PROVE  Given' = Given \cup {r}
  BY <1>1, <1>4 DEF Given, TypeOK
<1>5. ASSUME NEW r \in Requests, NEW out \in Ended, End(r, out)
      PROVE  Given' = Given \cup {r}
  BY <1>1, <1>4, <1>5 DEF End, TypeOK, Ended
<1>6. ASSUME NEW r \in Requests, Create(r) PROVE Table!Insert(r)
  <2>1. PICK row \in Method : methods' = [methods EXCEPT ![r] = row]
    BY <1>6, CreateDoes
  <2>2. methods'[r] = row /\ row # NoMethod
        /\ \A m \in Requests \ {r} : methods'[m] = methods[m]
    BY <1>1, <2>1 DEF TypeOK
  <2>3. TableRow(r)' = [owner |-> row.owner, type |-> row.type]
        /\ [owner |-> row.owner, type |-> row.type] \in Table!Row
    BY <2>2 DEF TableRow, Ids, Method, Table!Row
  <2>4. Rows' = [Rows EXCEPT ![r] = [owner |-> row.owner, type |-> row.type]]
    BY <1>2, <2>2, <2>3 DEF Rows
  <2>5. r \notin Given /\ Given' = Given \cup {r} /\ used' = used
    BY <1>5, <1>6, CreateDoes DEF Given, Ended
  <2> QED BY <2>3, <2>4, <2>5 DEF Table!Insert, Rows, Given, TableRow
<1>7. ASSUME NEW r \in Requests, Update(r), pc'[r] = "done",
             NEW m \in Requests, m = call[r].id
      PROVE  Table!ChangeType(m)
  <2>1. PICK c : c = call[r]
    OBVIOUS
  <2>2. PICK row : row = Patched(methods[c.id], c.patch, c.existing)
    OBVIOUS
  <2>3. /\ c.id \in Ids /\ methods' = [methods EXCEPT ![c.id] = row]
        /\ row # NoMethod /\ row.owner = methods[c.id].owner /\ row.type \in Type
        /\ pc[r] # "idle" /\ End(r, "done") /\ used' = used
    BY <1>7, <2>1, <2>2, UpdateDoes
  <2>4. methods'[c.id] = row /\ \A n \in Requests \ {c.id} : methods'[n] = methods[n]
    BY <1>1, <2>3 DEF TypeOK, Ids
  <2>5. /\ TableRow(c.id)' = [owner |-> methods[c.id].owner, type |-> row.type]
        /\ TableRow(c.id) = [owner |-> methods[c.id].owner, type |-> methods[c.id].type]
    BY <2>3, <2>4 DEF TableRow, Ids
  <2>6. TableRow(c.id)' = [TableRow(c.id) EXCEPT !.type = row.type]
    BY <2>5
  <2>7. Rows' = [Rows EXCEPT ![c.id].type = row.type]
    BY <1>2, <2>3, <2>4, <2>6 DEF Rows, Ids
  <2>8. Given' = Given
    BY <1>5, <2>3 DEF Given, Ended
  <2> QED BY <1>1, <1>7, <2>1, <2>3, <2>7, <2>8, TableIds DEF Table!ChangeType, Rows, Given, TableRow
<1>8. ASSUME NEW r \in Requests, Delete(r), pc'[r] = "done",
             NEW m \in Requests, m = call[r].id
      PROVE  Table!Delete(m)
  <2>1. /\ m \in Ids \ used /\ methods' = [methods EXCEPT ![m] = NoMethod]
        /\ pc[r] # "idle" /\ End(r, "done") /\ used' = used
    BY <1>8, DeleteDoes
  <2>2. TableRow(m)' = NoMethod /\ \A n \in Requests \ {m} : methods'[n] = methods[n]
    BY <1>1, <2>1 DEF TypeOK, Ids, TableRow
  <2>3. Rows' = [Rows EXCEPT ![m] = NoMethod]
    BY <1>2, <2>1, <2>2 DEF Rows, Ids
  <2>4. Given' = Given
    BY <1>5, <2>1 DEF Given, Ended
  <2> QED BY <1>1, <2>1, <2>3, <2>4, TableIds DEF Table!Delete, Rows, Given, TableRow
<1>9. ASSUME NEW r \in Requests,
             \/ PatchStart(r) \/ DeleteStart(r) \/ Abort(r)
             \/ (Update(r) \/ Delete(r)) /\ pc'[r] # "done"
      PROVE  Table!Skip(r)
  <2>1. Given' = Given \cup {r} /\ Rows' = Rows /\ used' = used
    BY <1>3, <1>4, <1>9, RestDoes
  <2> QED BY <2>1 DEF Table!Skip, Rows, Given, TableRow
<1>10. ASSUME NEW m \in Requests, Refer(m) \/ Release(m) PROVE Table!Use
  <2>1. used' \subseteq Ids /\ Given' = Given /\ Rows' = Rows
    BY <1>1, <1>3, <1>10 DEF Refer, Release, Given, TypeOK
  <2> QED BY <1>1, <2>1, TableIds DEF Table!Use, Rows, Given, TableRow
<1>11. CASE UNCHANGED vars
  <2>1. used' = used /\ Given' = Given /\ Rows' = Rows
    BY <1>3, <1>11 DEF vars, Given
  <2> QED BY <2>1 DEF Table!vars, Rows, Given, TableRow
<1>12. ASSUME NEW r \in Requests, Update(r) \/ Delete(r) PROVE call[r].id \in Requests
  BY <1>1, <1>12 DEF TypeOK, Update, Delete, PatchCall, DeleteCall
<1>13. CASE Next
  <2>1. ASSUME NEW r \in Requests, Update(r) \/ Delete(r) PROVE Table!Next
    <3>1. PICK m \in Requests : m = call[r].id
      BY <2>1, <1>12
    <3>2. CASE pc'[r] # "done"
      BY <2>1, <3>2, <1>9 DEF Table!Next
    <3>3. CASE Update(r) /\ pc'[r] = "done"
      BY <3>1, <3>3, <1>7 DEF Table!Next
    <3>4. CASE Delete(r) /\ pc'[r] = "done"
      BY <3>1, <3>4, <1>8 DEF Table!Next
    <3> QED BY <2>1, <3>2, <3>3, <3>4
  <2>2. CASE \E r \in Requests : Create(r) \/ PatchStart(r) \/ DeleteStart(r) \/ Abort(r)
    BY <2>2, <1>6, <1>9 DEF Table!Next
  <2>3. CASE \E m \in Requests : Refer(m) \/ Release(m)
    BY <2>3, <1>10 DEF Table!Next
  <2> QED BY <1>13, <2>1, <2>2, <2>3 DEF Next
<1> QED BY <1>11, <1>13

\* PaymentMethods implements the table the expenses rely on: a method that was
\* deleted stays deleted, one in use is not deleted, and none changes hands.
THEOREM MethodsKeepTable == Spec => KeepsTable
<1>1. Init => Table!Init
  <2> SUFFICES ASSUME Init PROVE Table!Init
    OBVIOUS
  <2>1. Ids = {} /\ Given = {} /\ used = {}
    BY DEF Init, Ids, Given
  <2>2. TypeOK
    BY InvInit DEF Inv
  <2> QED BY <2>1, <2>2, TableIds DEF Table!Init, Given
<1> QED BY <1>1, TableStep, Invariance, PTL DEF Spec, KeepsTable, Table!Spec

=============================================================================
