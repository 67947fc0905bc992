---------------------------- MODULE PartiesProofs ----------------------------
(***************************************************************************)
(* Whose the rows of Expenses are, for any number of requests, groups and  *)
(* payment methods: PartiesInv is inductive relative to IInv.              *)
(*                                                                         *)
(* Whatever a step puts in the table, or lets closeCycle hold, descends    *)
(* from a row that was known before: it is that row, or the next           *)
(* installment of its purchase, in the same group and of the same creator  *)
(* (HeirsKeep).  The one exception is the row of a create, which is kin to *)
(* nothing, because nothing can refer to a request that has not inserted   *)
(* its row yet.                                                            *)
(*                                                                         *)
(* The second part is how the rows are divided: SplitsInv is inductive     *)
(* relative to IInv, IdsInv and PartiesInv.                                *)
(*                                                                         *)
(* The last part proves that Expenses implements MethodTable: UsedExist,   *)
(* the foreign keys, is inductive, and every statement is a use of the     *)
(* table or the one change of it that is mapped to that statement.         *)
(***************************************************************************)
EXTENDS ExpensesProofs, ExpensesLedger

USE ConstantsAssumption, NullsAssumption

Heir(x, e) == Kin(e.id, x.id) /\ x.group = e.group /\ x.creator = e.creator

\* No request goes back to before its own insert.
Onward == \A q \in Requests : pc[q] \notin Early => pc'[q] \notin Early

\* All but one request know what they knew.
OthersKnow(r) ==
    \A q \in Requests \ {r} :
        pc'[q] = pc[q] /\ body'[q] = body[q] /\ job'[q] = job[q]

\* Known rows have the type of rows.
LEMMA KnownTyped ==
    ASSUME IInv
    PROVE  /\ Known \subseteq Row
           /\ \A e \in Known : e.id \in RowId
           /\ \A e \in expenses : e \in Known
           /\ \A q \in Requests : pc[q] \in {"readSplits", "insertNext"} =>
                job[q] \in Job /\ job[q].source \in Known
<1>1. \A q \in Requests : pc[q] \in {"readSplits", "insertNext"} => job[q] \in Job
  BY DEF IInv, RequestInv
<1>2. Held \subseteq Row
  BY <1>1 DEF Held, Job
<1>3. Known \subseteq Row
  BY <1>2 DEF IInv, TableInv, Known
<1>4. \A e \in Row : e.id \in RowId
  BY DEF Row
<1> QED BY <1>1, <1>3, <1>4 DEF Known, Held

\* Kinship is symmetric and goes on.
LEMMA KinChains ==
    /\ \A i : Kin(i, i)
    /\ \A i, j : Kin(i, j) => Kin(j, i)
    /\ \A i, j, k : Kin(i, j) /\ Kin(j, k) => Kin(i, k)
BY DEF Kin

\* A request that is past its own insert stays so.
LEMMA BegunStays ==
    ASSUME NEW id \in RowId, Begun(id), Onward
    PROVE  Begun(id)'
BY DEF Begun, Onward, RowId

\* What is said of one row stays true of it.
LEMMA RowStays ==
    ASSUME IInv, KnownInv, Onward, NEW e \in Known
    PROVE  RowInv(e)'
<1>1. Begun(e.id)'
  BY KnownTyped, BegunStays DEF KnownInv, RowInv
<1> QED BY <1>1 DEF KnownInv, RowInv, IsMember

\* What another request knows stays true as long as every row known now descends
\* from one known before, or from a create nobody refers to.
LEMMA OthersStay ==
    ASSUME IInv, PartiesInv, Onward, NEW q \in Requests,
           pc'[q] = pc[q], body'[q] = body[q], job'[q] = job[q],
           \A x \in Known' : \/ \E e \in Known : Heir(x, e)
                             \/ pc[q] \in {"checkMethod", "update"} =>
                                    ~Kin(body[q].target, x.id)
    PROVE  PartyInv(q)'
<1>1. PartyInv(q)
  BY DEF PartiesInv
<1>2. ASSUME pc[q] \in {"checkMethod", "update"}
      PROVE  /\ Begun(body[q].target)'
             /\ \A x \in Known' : Kin(body[q].target, x.id) =>
                   IsMember(body[q].user, x.group)
  <2>1. body[q] \in PatchCall
    BY <1>2 DEF IInv, RequestInv
  <2>2. body[q].target \in RowId
    BY <2>1 DEF PatchCall
  <2>3. Begun(body[q].target)'
    BY <1>1, <1>2, <2>2, BegunStays DEF PartyInv
  <2>4. ASSUME NEW x \in Known', Kin(body[q].target, x.id)
        PROVE  IsMember(body[q].user, x.group)
    <3>1. PICK e \in Known : Heir(x, e)
      BY <1>2, <2>4
    <3>2. Kin(body[q].target, e.id)
      BY <2>4, <3>1, KinChains DEF Heir
    <3> QED BY <1>1, <1>2, <3>1, <3>2 DEF PartyInv, Heir
  <2> QED BY <2>3, <2>4
<1>3. \A u, g : IsMember(u, g)' <=> IsMember(u, g)
  BY DEF IsMember
<1> QED BY <1>1, <1>2, <1>3 DEF PartyInv

\* The step of request r when all that is known afterwards descends from what was
\* known before.
LEMMA HeirsKeep ==
    ASSUME IInv, PartiesInv, Onward, NEW r \in Requests, OthersKnow(r), PartyInv(r)',
           \A x \in Known' : RowInv(x)' /\ \E e \in Known : Heir(x, e)
    PROVE  PartiesInv'
<1>1. ASSUME NEW x \in Known', NEW y \in Known', Kin(x.id, y.id)
      PROVE  x.group = y.group /\ x.creator = y.creator
  <2>1. PICK e \in Known : Heir(x, e)
    OBVIOUS
  <2>2. PICK f \in Known : Heir(y, f)
    OBVIOUS
  <2>3. Kin(e.id, f.id)
    <3>1. Kin(e.id, x.id) /\ Kin(y.id, f.id)
      BY <2>1, <2>2, KinChains DEF Heir
    <3> QED BY <1>1, <3>1, KinChains
  <2> QED BY <2>1, <2>2, <2>3 DEF Heir, PartiesInv, KnownInv
<1>2. KnownInv'
  <2>1. \A x, y : Kin(x, y)' <=> Kin(x, y)
    BY DEF Kin
  <2> QED BY <1>1, <2>1 DEF KnownInv
<1>3. \A q \in Requests \ {r} : PartyInv(q)'
  BY OthersStay DEF OthersKnow
<1> QED BY <1>2, <1>3 DEF PartiesInv

\* Nothing becomes known by a step that adds no row, and lets closeCycle hold none
\* but one of the table.
LEMMA NothingNew ==
    ASSUME IInv, NEW r \in Requests, OthersKnow(r), expenses' \subseteq expenses,
           pc'[r] \in {"readSplits", "insertNext"} => job'[r].source \in Known
    PROVE  Known' \subseteq Known
<1>1. \A q \in Requests : pc'[q] \in {"readSplits", "insertNext"} => job'[q].source \in Known
  <2>1. \A q \in Requests \ {r} :
           pc'[q] \in {"readSplits", "insertNext"} => job'[q].source \in Known
    BY KnownTyped DEF OthersKnow
  <2> QED BY <2>1
<1> QED BY <1>1 DEF Known, Held

\* The step of request r when nothing becomes known by it.
LEMMA QuietKeeps ==
    ASSUME IInv, PartiesInv, NEW r \in Requests, OthersKnow(r),
           pc[r] \notin Early => pc'[r] \notin Early,
           Known' \subseteq Known, PartyInv(r)'
    PROVE  PartiesInv'
<1>1. Onward
  BY DEF Onward, OthersKnow
<1>2. ASSUME NEW x \in Known' PROVE RowInv(x)' /\ Heir(x, x) /\ x \in Known
  BY <1>1, RowStays, KinChains DEF PartiesInv, Heir
<1> QED BY <1>1, <1>2, HeirsKeep

-----------------------------------------------------------------------------
(* Steps that make nothing known.                                          *)

\* A request that ends knows nothing, and at most lets rows go.
LEMMA EndKeepsParties ==
    ASSUME IInv, PartiesInv, NEW r \in Requests, NEW outcome \in Ended,
           End(r, outcome), expenses' \subseteq expenses
    PROVE  PartiesInv'
<1>1. pc'[r] = outcome /\ OthersKnow(r)
  BY DEF End, IInv, LocalType, OthersKnow
<1>2. outcome \notin {"idle", "insertPlan", "insertRow", "readSplits", "insertNext",
                      "checkMethod", "update"}
  BY DEF Ended
<1>3. PartyInv(r)'
  BY <1>1, <1>2 DEF PartyInv
<1>4. Known' \subseteq Known
  BY <1>1, <1>2, NothingNew
<1> QED BY <1>1, <1>2, <1>3, <1>4, QuietKeeps DEF Early

\* A refused request, and one cut short, change no row.
LEMMA RejectKeepsParties ==
    ASSUME IInv, PartiesInv, NEW r \in Requests, Reject(r) \/ Abort(r) \/ CloseEnd(r)
    PROVE  PartiesInv'
BY EndKeepsParties DEF Reject, Abort, CloseEnd, Ended, db

\* A step of request r on other tables than expenses, that moves it on to where it
\* has neither a row to write nor one to patch.
LEMMA MoveKeepsParties ==
    ASSUME IInv, PartiesInv, NEW r \in Requests, OthersKnow(r), expenses' = expenses,
           pc'[r] \in InFlight \ {"insertPlan", "insertRow", "readSplits",
                                   "insertNext", "checkMethod", "update"}
    PROVE  PartiesInv'
<1>1. Known' \subseteq Known
  BY NothingNew
<1>2. PartyInv(r)'
  BY DEF PartyInv
<1> QED BY <1>1, <1>2, QuietKeeps DEF InFlight, Early

\* POST /expenses: whoever pays is in the group and has the payment method.
LEMMA CreateStartParties ==
    ASSUME IInv, PartiesInv, NEW r \in Requests, CreateStart(r)
    PROVE  PartiesInv'
<1>1. PICK b \in CreateBodies :
         IF /\ IsMember(b.user, b.group)
            /\ Owns(b.user, b.method)
            /\ b.installments = 0 \/ FirstAmount(b) >= 1
         THEN Accept(r, b, IF b.installments = 0 THEN "insertRow" ELSE "insertPlan")
         ELSE Reject(r)
  BY DEF CreateStart
<1>2. CASE Reject(r)
  BY <1>2, RejectKeepsParties
<1>3. CASE /\ IsMember(b.user, b.group) /\ Owns(b.user, b.method)
           /\ Accept(r, b, IF b.installments = 0 THEN "insertRow" ELSE "insertPlan")
  <2>1. /\ pc[r] = "idle" /\ pc'[r] \in {"insertRow", "insertPlan"}
        /\ body'[r] = b /\ OthersKnow(r) /\ expenses' = expenses
    BY <1>3 DEF CreateStart, Accept, IInv, LocalType, OthersKnow, db
  <2>2. Known' \subseteq Known
    BY <2>1, NothingNew
  <2>3. PartyInv(r)'
    BY <1>3, <2>1 DEF PartyInv, Owns, IsMember
  <2> QED BY <2>1, <2>2, <2>3, QuietKeeps DEF Early
<1> QED BY <1>1, <1>2, <1>3

\* POST /expenses/close-cycle starts by reading.
LEMMA CloseStartParties ==
    ASSUME IInv, PartiesInv, NEW r \in Requests, CloseStart(r)
    PROVE  PartiesInv'
<1>1. CASE Reject(r)
  BY <1>1, RejectKeepsParties
<1>2. CASE \E b \in CloseBodies : Accept(r, b, "readPlans")
  BY <1>2, MoveKeepsParties DEF Accept, IInv, LocalType, OthersKnow, db, InFlight
<1> QED BY <1>1, <1>2 DEF CloseStart

\* DELETE /expenses/:id: the delete reads nothing more of the row.
LEMMA DeleteStartParties ==
    ASSUME IInv, PartiesInv, NEW r \in Requests, DeleteStart(r)
    PROVE  PartiesInv'
<1>1. CASE Reject(r)
  BY <1>1, RejectKeepsParties
<1>2. CASE \E u \in Deleters, e \in expenses :
              Accept(r, [user |-> u, target |-> e.id], "delete")
  BY <1>2, MoveKeepsParties DEF Accept, IInv, LocalType, OthersKnow, db, InFlight
<1> QED BY <1>1, <1>2 DEF DeleteStart

\* PATCH /expenses/:id: who patches is in the group of the row that was read, and so
\* of every row that is or will be kin to it.
LEMMA PatchStartParties ==
    ASSUME IInv, PartiesInv, NEW r \in Requests, PatchStart(r)
    PROVE  PartiesInv'
<1>1. PICK b \in PatchBodies, e \in expenses :
         LET call == [user |-> b.user, amount |-> b.amount,
                      method |-> b.method, target |-> e.id]
         IN  IF IsMember(b.user, e.group) /\ MayPatch(b, e)
             THEN Accept(r, call, IF b.method = NoMethod THEN "update"
                                  ELSE "checkMethod")
             ELSE Reject(r)
  BY DEF PatchStart
<1> DEFINE call == [user |-> b.user, amount |-> b.amount,
                    method |-> b.method, target |-> e.id]
<1>2. CASE Reject(r)
  BY <1>2, RejectKeepsParties
<1>3. CASE /\ IsMember(b.user, e.group)
           /\ Accept(r, call, IF b.method = NoMethod THEN "update" ELSE "checkMethod")
  <2>1. /\ pc[r] = "idle" /\ pc'[r] \in {"update", "checkMethod"}
        /\ pc'[r] = "update" => b.method = NoMethod
        /\ body'[r] = call /\ OthersKnow(r) /\ expenses' = expenses
    BY <1>3 DEF PatchStart, Accept, IInv, LocalType, OthersKnow, db
  <2>2. Known' \subseteq Known
    BY <2>1, NothingNew
  <2>3. e \in Known /\ e.id \in RowId
    BY KnownTyped
  <2>4. Onward
    BY <2>1 DEF Onward, OthersKnow, Early
  <2>5. Begun(call.target)'
    BY <2>3, <2>4, BegunStays DEF PartiesInv, KnownInv, RowInv
  <2>6. \A x \in Known' : Kin(call.target, x.id) => IsMember(call.user, x.group)
    BY <1>3, <2>2, <2>3 DEF PartiesInv, KnownInv
  <2>7. PartyInv(r)'
    <3>1. call.user = b.user /\ call.method = b.method
      OBVIOUS
    <3> HIDE DEF call
    <3> QED BY <2>1, <2>5, <2>6, <3>1 DEF PartyInv, IsMember
  <2> QED BY <2>1, <2>2, <2>7, QuietKeeps DEF Early
<1> QED BY <1>1, <1>2, <1>3

\* The method a patch sets is one of the user's own.
LEMMA CheckMethodParties ==
    ASSUME IInv, PartiesInv, NEW r \in Requests, CheckMethod(r)
    PROVE  PartiesInv'
<1>1. CASE Reject(r)
  BY <1>1, RejectKeepsParties
<1>2. CASE Owns(body[r].user, body[r].method) /\ Go(r, "update") /\ UNCHANGED db
  <2>1. /\ pc[r] = "checkMethod" /\ pc'[r] = "update" /\ body'[r] = body[r]
        /\ OthersKnow(r) /\ expenses' = expenses
    BY <1>2 DEF CheckMethod, Go, IInv, LocalType, OthersKnow, db
  <2>2. Known' \subseteq Known
    BY <2>1, NothingNew
  <2>3. Onward
    BY <2>1 DEF Onward, OthersKnow, Early
  <2>4. body[r].target \in RowId
    BY <2>1 DEF IInv, RequestInv, PatchCall
  <2>5. /\ Begun(body[r].target)
        /\ \A x \in Known : Kin(body[r].target, x.id) => IsMember(body[r].user, x.group)
    BY <2>1 DEF PartiesInv, PartyInv
  <2>6. Begun(body[r].target)'
    BY <2>1, <2>3, <2>4, <2>5, BegunStays DEF Begun
  <2>7. PartyInv(r)'
    BY <1>2, <2>1, <2>2, <2>5, <2>6 DEF PartyInv, Owns, IsMember
  <2> QED BY <2>1, <2>2, <2>7, QuietKeeps DEF Early
<1> QED BY <1>1, <1>2 DEF CheckMethod

\* The insert of a plan changes no row.
LEMMA InsertPlanParties ==
    ASSUME IInv, PartiesInv, NEW r \in Requests, InsertPlan(r)
    PROVE  PartiesInv'
<1>1. CASE End(r, "failed") /\ UNCHANGED db
  BY <1>1, EndKeepsParties DEF Ended, db
<1>2. CASE Go(r, "insertRow") /\ UNCHANGED <<methods, expenses, issued>>
  <2>1. /\ pc[r] = "insertPlan" /\ pc'[r] = "insertRow" /\ body'[r] = body[r]
        /\ OthersKnow(r) /\ expenses' = expenses
    BY <1>2 DEF InsertPlan, Go, IInv, LocalType, OthersKnow
  <2>2. Known' \subseteq Known
    BY <2>1, NothingNew
  <2>3. PartyInv(r)'
    BY <2>1 DEF PartiesInv, PartyInv, IsMember
  <2> QED BY <2>1, <2>2, <2>3, QuietKeeps DEF Early
<1> QED BY <1>1, <1>2 DEF InsertPlan

\* closeCycle reads the plans, and moves a plan on.
LEMMA ReadAndAdvanceParties ==
    ASSUME IInv, PartiesInv, NEW r \in Requests, ReadPlans(r) \/ Advance(r)
    PROVE  PartiesInv'
BY MoveKeepsParties
   DEF ReadPlans, Advance, IInv, LocalType, OthersKnow, db, InFlight

\* A row that differs from a known one in nothing but its splits is its heir.
LEMMA AlikeIsHeir ==
    ASSUME NEW e, NEW x, Alike(x, e), RowInv(e)'
    PROVE  RowInv(x)' /\ Heir(x, e)
<1>1. Heir(x, e)
  BY KinChains DEF Heir, Alike
<1> QED BY <1>1 DEF RowInv, Alike, Begun, IsMember

\* closeCycle comes to hold a row that differs from a known one in its splits.
LEMMA HoldKeepsParties ==
    ASSUME IInv, PartiesInv, NEW r \in Requests, OthersKnow(r), expenses' = expenses,
           pc[r] \notin Early, pc'[r] \in {"readSplits", "insertNext"},
           NEW x, x = job'[r].source, x.plan = job'[r].plan.plan,
           NEW e \in Known, Alike(x, e)
    PROVE  PartiesInv'
<1>1. Onward
  BY DEF Onward, OthersKnow, Early
<1>2. \A f \in Known : Heir(f, f) /\ RowInv(f)'
  BY <1>1, RowStays, KinChains DEF Heir, PartiesInv
<1>3. RowInv(x)' /\ Heir(x, e)
  BY <1>2, AlikeIsHeir
<1>4. Known' \subseteq Known \cup {x}
  <2>1. Held' \subseteq Held \cup {x}
    BY DEF Held, OthersKnow
  <2> QED BY <2>1 DEF Known
<1> HIDE DEF Known
<1>5. \A y \in Known' : RowInv(y)' /\ \E f \in Known : Heir(y, f)
  BY <1>2, <1>3, <1>4
<1>6. PartyInv(r)'
  BY DEF PartyInv
<1> QED BY <1>1, <1>5, <1>6, HeirsKeep

\* closeCycle holds a row of the table, without its splits yet.
LEMMA NextPlanParties ==
    ASSUME IInv, PartiesInv, NEW r \in Requests, NextPlan(r)
    PROVE  PartiesInv'
<1>1. PICK s \in todo[r] :
         \/ UNCHANGED <<pc, job>>
         \/ \E e \in Latest(s.plan) :
               /\ job' = [job EXCEPT ![r] =
                            [plan |-> s, source |-> [e EXCEPT !.splits = << >>]]]
               /\ pc' = [pc EXCEPT ![r] = "readSplits"]
  BY DEF NextPlan
<1>2. pc[r] = "nextPlan" /\ body' = body /\ expenses' = expenses
  BY DEF NextPlan, db
<1>3. CASE UNCHANGED <<pc, job>>
  BY <1>2, <1>3, MoveKeepsParties DEF OthersKnow, InFlight
<1>4. ASSUME NEW e \in Latest(s.plan),
             job' = [job EXCEPT ![r] =
                       [plan |-> s, source |-> [e EXCEPT !.splits = << >>]]],
             pc' = [pc EXCEPT ![r] = "readSplits"]
      PROVE  PartiesInv'
  <2>1. PICK source : source = [e EXCEPT !.splits = << >>]
    OBVIOUS
  <2>2. /\ pc'[r] = "readSplits" /\ job'[r] = [plan |-> s, source |-> source]
        /\ OthersKnow(r)
    BY <1>2, <1>4, <2>1 DEF IInv, LocalType, OthersKnow
  <2>3. e \in Known /\ e.plan = s.plan /\ e \in Row
    BY KnownTyped DEF Latest, RowsOf
  <2>4. Alike(source, e)
    BY <2>1, <2>3, EmptySplits
  <2>5. source.plan = s.plan
    BY <2>3, <2>4 DEF Alike
  <2> QED BY <1>2, <2>2, <2>3, <2>4, <2>5, HoldKeepsParties DEF Early
<1> QED BY <1>1, <1>3, <1>4

\* With its splits it is still the row it was.
LEMMA ReadSplitsParties ==
    ASSUME IInv, PartiesInv, NEW r \in Requests, ReadSplits(r)
    PROVE  PartiesInv'
<1>1. /\ pc[r] = "readSplits" /\ pc'[r] = "insertNext" /\ expenses' = expenses
      /\ OthersKnow(r)
      /\ job'[r].plan = job[r].plan /\ Alike(job'[r].source, job[r].source)
  BY SplitsAreRead DEF IInv, LocalType, OthersKnow, db
<1>2. job[r].source \in Known /\ job[r].source.plan = job[r].plan.plan
  BY <1>1, KnownTyped DEF PartiesInv, PartyInv
<1>3. PICK x : x = job'[r].source
  OBVIOUS
<1>4. x.plan = job'[r].plan.plan /\ Alike(x, job[r].source)
  BY <1>1, <1>2, <1>3 DEF Alike
<1> QED BY <1>1, <1>2, <1>3, <1>4, HoldKeepsParties DEF Early

\* A deleted row is no longer known, unless closeCycle holds it.
LEMMA DeleteParties ==
    ASSUME IInv, PartiesInv, NEW r \in Requests, Delete(r)
    PROVE  PartiesInv'
<1>1. PICK outcome \in Ended : End(r, outcome)
  BY DEF Delete, Ended
<1>2. expenses' \subseteq expenses
  BY DEF Delete
<1> QED BY <1>1, <1>2, EndKeepsParties

-----------------------------------------------------------------------------
(* Steps that make a row known.                                            *)

\* The row of a create is kin to no row that is known and to none that a patch may
\* reach: nothing names a request before its own insert.
LEMMA InsertRowParties ==
    ASSUME IInv, PartiesInv, NEW r \in Requests, InsertRow(r)
    PROVE  PartiesInv'
<1> DEFINE b == body[r]
           amount == IF b.installments = 0 THEN b.amount ELSE FirstAmount(b)
           divisible == \/ b.group \in DefaultGroups
                        \/ SplitAccepted(b.split, amount, Members[b.group])
<1>1. pc[r] = "insertRow"
  BY DEF InsertRow
<1>0. PICK row : row = NewRow(r)
  OBVIOUS
<1>2. CASE Reject(r)
  BY <1>2, RejectKeepsParties
<1>3. CASE End(r, "failed") /\ UNCHANGED db
  BY <1>3, EndKeepsParties DEF Ended, db
<1>4. CASE /\ divisible /\ expenses' = expenses \cup {row} /\ End(r, "done")
  <2>1. /\ row \in Row /\ row.id = [by |-> r, plan |-> row.plan]
        /\ row.plan # NoPlan => row.plan = r
    BY <1>0, <1>1, <1>4, NewRowIsGood
  <2>2. IsMember(Owner[row.method], row.group)
    <3>1. row.method = b.method /\ row.group = b.group
      BY <1>0 DEF NewRow
    <3> QED BY <1>1, <3>1 DEF PartiesInv, PartyInv
  <2> HIDE DEF divisible
  <2>3. pc'[r] = "done" /\ OthersKnow(r)
    BY <1>4 DEF End, IInv, LocalType, OthersKnow
  <2>4. Onward
    BY <2>3 DEF Onward, OthersKnow, Early
  <2>5. Known' \subseteq Known \cup {row}
    <3>1. Held' \subseteq Held
      BY <2>3 DEF Held, OthersKnow
    <3> QED BY <1>4, <3>1 DEF Known
  <2>6. \A id \in RowId : Begun(id) => ~Kin(row.id, id) /\ ~Kin(id, row.id)
    BY <1>1, <2>1 DEF Begun, Kin, Early
  <2>7. \A e \in Known : ~Kin(row.id, e.id) /\ ~Kin(e.id, row.id)
    BY <2>6, KnownTyped DEF PartiesInv, KnownInv, RowInv
  <2>8. RowInv(row)'
    <3>1. Begun(row.id)'
      BY <2>1, <2>3 DEF Begun, Early
    <3> QED BY <2>1, <2>2, <3>1 DEF RowInv, IsMember
  <2>9. ASSUME NEW x \in Known' PROVE RowInv(x)'
    BY <2>4, <2>5, <2>8, RowStays DEF PartiesInv
  <2>10. ASSUME NEW x \in Known', NEW y \in Known', Kin(x.id, y.id)
         PROVE  x.group = y.group /\ x.creator = y.creator
    BY <2>5, <2>7, <2>10 DEF PartiesInv, KnownInv
  <2>11. KnownInv'
    <3>1. \A i, j : Kin(i, j)' <=> Kin(i, j)
      BY DEF Kin
    <3> QED BY <2>9, <2>10, <3>1 DEF KnownInv
  <2>12. ASSUME NEW q \in Requests \ {r} PROVE PartyInv(q)'
    <3>1. /\ pc'[q] = pc[q] /\ body'[q] = body[q] /\ job'[q] = job[q]
      BY <2>3 DEF OthersKnow
    <3>2. pc[q] \in {"checkMethod", "update"} => ~Kin(body[q].target, row.id)
      <4>1. SUFFICES ASSUME pc[q] \in {"checkMethod", "update"}
                     PROVE  ~Kin(body[q].target, row.id)
        OBVIOUS
      <4>2. body[q].target \in RowId
        BY <4>1 DEF IInv, RequestInv, PatchCall
      <4>3. Begun(body[q].target)
        BY <4>1 DEF PartiesInv, PartyInv
      <4> QED BY <2>6, <4>2, <4>3
    <3>3. \A x \in Known : Heir(x, x)
      BY KinChains DEF Heir
    <3>4. \A x \in Known' : \/ \E e \in Known : Heir(x, e)
                            \/ pc[q] \in {"checkMethod", "update"} =>
                                   ~Kin(body[q].target, x.id)
      BY <2>5, <3>2, <3>3
    <3> QED BY <2>4, <3>1, <3>4, OthersStay
  <2>13. PartyInv(r)'
    BY <2>3 DEF PartyInv
  <2> QED BY <2>11, <2>12, <2>13 DEF PartiesInv
<1> QED BY <1>0, <1>2, <1>3, <1>4 DEF InsertRow, InsertExpense

\* A clone is the heir of the row closeCycle held, even if that row is gone by now.
LEMMA InsertNextParties ==
    ASSUME IInv, PartiesInv, NEW r \in Requests, InsertNext(r)
    PROVE  PartiesInv'
<1>1. pc[r] = "insertNext"
  BY DEF InsertNext
<1>0. PICK source, row : source = job[r].source /\ row = NextRow(r)
  OBVIOUS
<1>2. CASE End(r, "failed") /\ UNCHANGED db
  BY <1>2, EndKeepsParties DEF Ended, db
<1>3. CASE expenses' = expenses \cup {row} /\ Go(r, "advance")
  <2>1. /\ row \in Row /\ row.id = [by |-> r, plan |-> row.plan]
        /\ row.plan # NoPlan /\ row.plan = job[r].plan.plan
    BY <1>0, <1>1, NextRowIsGood
  <2>2. /\ source \in Known /\ source.plan = job[r].plan.plan /\ RowInv(source)
        /\ source.id \in RowId
    BY <1>0, <1>1, KnownTyped DEF PartiesInv, PartyInv, KnownInv
  <2>3. /\ row.group = source.group /\ row.creator = source.creator
        /\ row.method = source.method
    BY <1>0 DEF NextRow
  <2>4. Heir(row, source)
    BY <2>1, <2>2, <2>3 DEF Heir, Kin, RowInv
  <2>5. pc'[r] = "advance" /\ OthersKnow(r)
    BY <1>3 DEF Go, IInv, LocalType, OthersKnow
  <2>6. Onward
    BY <2>5 DEF Onward, OthersKnow, Early
  <2>7. Known' \subseteq Known \cup {row}
    <3>1. Held' \subseteq Held
      BY <2>5 DEF Held, OthersKnow
    <3> QED BY <1>3, <3>1 DEF Known
  <2>8. RowInv(row)'
    <3>1. Begun(source.id)'
      BY <2>2, <2>6, BegunStays DEF RowInv
    <3>2. source.id.plan = row.plan
      BY <2>1, <2>2 DEF RowInv
    <3>3. Begun(row.id)'
      BY <2>1, <2>5, <3>1, <3>2 DEF Begun, Early
    <3>4. IsMember(Owner[row.method], row.group)
      BY <2>2, <2>3 DEF RowInv
    <3> QED BY <2>1, <3>3, <3>4 DEF RowInv, IsMember
  <2>9. \A x \in Known : Heir(x, x) /\ RowInv(x)'
    BY <2>6, RowStays, KinChains DEF Heir, PartiesInv
  <2>10. \A x \in Known' : RowInv(x)' /\ \E e \in Known : Heir(x, e)
    BY <2>2, <2>4, <2>7, <2>8, <2>9
  <2>11. PartyInv(r)'
    BY <2>5 DEF PartyInv
  <2> QED BY <2>5, <2>6, <2>10, <2>11, HeirsKeep
<1> QED BY <1>0, <1>2, <1>3 DEF InsertNext, InsertExpense

\* A patched row is its own heir, and a method that is set is of the user who was
\* checked to be in its group.
LEMMA UpdateParties ==
    ASSUME IInv, PartiesInv, NEW r \in Requests, Update(r)
    PROVE  PartiesInv'
<1>1. pc[r] = "update"
  BY DEF Update
<1>0. PICK call, target : call = body[r] /\ target = {e \in expenses : e.id = call.target}
  OBVIOUS
<1>2. CASE Reject(r)
  BY <1>2, RejectKeepsParties
<1>3. CASE End(r, "failed") /\ UNCHANGED db
  BY <1>3, EndKeepsParties DEF Ended, db
<1>4. CASE /\ expenses' = (expenses \ target) \cup {Patched(e, call) : e \in target}
           /\ End(r, "done")
  <2>1. call \in PatchCall /\ PartyInv(r)
    BY <1>0, <1>1 DEF IInv, RequestInv, PartiesInv
  <2>2. pc'[r] = "done" /\ OthersKnow(r)
    BY <1>4 DEF End, IInv, LocalType, OthersKnow
  <2>3. Onward
    BY <2>2 DEF Onward, OthersKnow, Early
  <2>4. \A x \in Known : Heir(x, x) /\ RowInv(x)'
    BY <2>3, RowStays, KinChains DEF Heir, PartiesInv
  <2>5. ASSUME NEW e \in target
        PROVE  RowInv(Patched(e, call))' /\ Heir(Patched(e, call), e)
    <3> DEFINE x == Patched(e, call)
    <3>1. /\ e \in Known /\ e \in Row /\ e.id = call.target /\ e.id.plan = e.plan
          /\ RowInv(e)'
      BY <1>0, <2>4, KnownTyped DEF PartiesInv, KnownInv, RowInv
    <3> DEFINE D == Seq([user : Users, amount : Int])
    <3>2. Row = [id : RowId, group : Groups, method : Methods, creator : Users,
                 amount : Nat \ {0}, plan : Requests \cup {NoPlan}, number : Nat,
                 splits : D]
      BY DEF Row
    <3> HIDE DEF D
    <3>3. /\ x.id = e.id /\ x.plan = e.plan /\ x.group = e.group
          /\ x.creator = e.creator
          /\ x.method = IF call.method = NoMethod THEN e.method ELSE call.method
      BY <3>1, <3>2 DEF Patched
    <3> HIDE DEF x
    <3>4. Heir(x, e)
      BY <3>3, KinChains DEF Heir
    <3>5. IsMember(Owner[x.method], x.group)
      <4>1. CASE call.method = NoMethod
        BY <3>1, <3>3, <4>1 DEF RowInv, IsMember
      <4>2. CASE call.method # NoMethod
        <5>1. Owner[call.method] = call.user
          BY <1>0, <1>1, <2>1, <4>2 DEF PartyInv
        <5>2. Kin(call.target, e.id)
          BY <3>1, KinChains
        <5>3. IsMember(call.user, e.group)
          BY <1>0, <1>1, <2>1, <3>1, <5>2 DEF PartyInv
        <5> QED BY <3>3, <4>2, <5>1, <5>3
      <4> QED BY <4>1, <4>2
    <3> QED BY <3>1, <3>3, <3>4, <3>5 DEF RowInv, IsMember, x
  <2>6. Held' \subseteq Held
    BY <2>2 DEF Held, OthersKnow
  <2>7. \A x \in Known' : x \in Known \/ \E e \in target : x = Patched(e, call)
    BY <1>4, <2>6 DEF Known
  <2>8. target \subseteq Known
    BY <1>0 DEF Known
  <2>9. \A x \in Known' : RowInv(x)' /\ \E e \in Known : Heir(x, e)
    BY <2>4, <2>5, <2>7, <2>8
  <2>10. PartyInv(r)'
    BY <2>2 DEF PartyInv
  <2> QED BY <2>2, <2>3, <2>9, <2>10, HeirsKeep
<1> QED BY <1>0, <1>2, <1>3, <1>4 DEF Update, WithId

-----------------------------------------------------------------------------
(* All steps.                                                              *)

\* Nobody knows anything at the start.
LEMMA PartiesInit == Init => PartiesInv
<1> SUFFICES ASSUME Init PROVE PartiesInv
  OBVIOUS
<1>1. \A r \in Requests : pc[r] = "idle"
  BY DEF Init
<1>2. Known = {}
  BY <1>1 DEF Init, Known, Held
<1> QED BY <1>1, <1>2 DEF PartiesInv, KnownInv, PartyInv

\* Every step keeps whose the rows are, given what IInv says of them.
LEMMA PartiesNext == IInv /\ PartiesInv /\ [Next]_vars => PartiesInv'
<1> SUFFICES ASSUME IInv, PartiesInv, [Next]_vars PROVE PartiesInv'
  OBVIOUS
<1>1. ASSUME UNCHANGED <<expenses, pc, body, job>> PROVE PartiesInv'
  <2>1. Known' = Known
    BY <1>1 DEF Known, Held
  <2> QED BY <1>1, <2>1 DEF PartiesInv, KnownInv, PartyInv, RowInv, Begun, Kin,
                           IsMember
<1>2. ASSUME NEW r \in Requests, Start(r) PROVE PartiesInv'
  BY <1>2, CreateStartParties, CloseStartParties, PatchStartParties,
     DeleteStartParties DEF Start
<1>3. ASSUME NEW r \in Requests, Step(r) PROVE PartiesInv'
  BY <1>3, InsertPlanParties, InsertRowParties, ReadAndAdvanceParties,
     NextPlanParties, ReadSplitsParties, InsertNextParties, RejectKeepsParties, CheckMethodParties,
     UpdateParties, DeleteParties DEF Step
<1>4. ASSUME NEW r \in MayFail, Abort(r) PROVE PartiesInv'
  BY <1>4, RejectKeepsParties
<1>5. ASSUME NEW m \in Methods, PatchMethodType(m) \/ DeleteMethod(m) PROVE PartiesInv'
  BY <1>1, <1>5 DEF PatchMethodType, DeleteMethod
<1>6. CASE UNCHANGED vars
  BY <1>1, <1>6 DEF vars
<1> QED BY <1>2, <1>3, <1>4, <1>5, <1>6 DEF Next

\* Together with IInv, it holds in every reachable state of every instance.
THEOREM PartiesInvariance == Spec => []PartiesInv
BY Invariance, PartiesInit, PartiesNext, PTL DEF Spec

\* Through any chain of clones, and whichever of its rows are patched or deleted in
\* between, the installments of a purchase stay with one group and one creator.
THEOREM PurchasesStayTogether == Spec => []OneParty
<1>1. IInv /\ PartiesInv => OneParty
  <2> SUFFICES ASSUME IInv, PartiesInv, NEW e \in expenses, NEW f \in expenses,
                      e.plan # NoPlan, e.plan = f.plan
               PROVE  e.group = f.group /\ e.creator = f.creator
    BY DEF OneParty
  <2>1. e \in Known /\ f \in Known /\ e.id.plan = e.plan /\ f.id.plan = f.plan
    BY DEF Known, IInv, TableInv
  <2> QED BY <2>1 DEF PartiesInv, KnownInv, Kin
<1> QED BY <1>1, Invariance, PartiesInvariance, PTL

\* No patch and no clone, in any interleaving, has an expense paid with a method of
\* somebody who is not in its group.
THEOREM MethodsStayInGroup == Spec => []MethodInGroup
<1>1. PartiesInv => MethodInGroup
  BY DEF PartiesInv, KnownInv, RowInv, Known, MethodInGroup
<1> QED BY <1>1, PartiesInvariance, PTL

-----------------------------------------------------------------------------
(* How the installments are divided: SplitsInv is inductive relative to    *)
(* IInv, IdsInv and PartiesInv.  A purchase that lost a row has lost it    *)
(* for good, because the id of the row never comes back; and the splits    *)
(* closeCycle finds by the id of the row it holds are those of that row,   *)
(* of the same amount and in the same group.                               *)

\* Every row there is after a step was there, or has an id nobody charged before.
NoComeback ==
    /\ issued \subseteq issued'
    /\ \A x \in expenses' : \/ \E e \in expenses : x.id = e.id
                            \/ \A i \in issued : x.id # [by |-> i.by, plan |-> i.plan]

\* What a purchase lost stays lost.
LEMMA LostStays ==
    ASSUME NoComeback, NEW p, Lost(p)
    PROVE  Lost(p)'
<1>1. PICK i \in issued : i.plan = p /\ WithId([by |-> i.by, plan |-> p]) = {}
  BY DEF Lost
<1>2. \A x \in expenses' : x.id # [by |-> i.by, plan |-> p]
  BY <1>1 DEF NoComeback, WithId
<1>3. i \in issued' /\ WithId([by |-> i.by, plan |-> p])' = {}
  BY <1>2 DEF NoComeback, WithId
<1> QED BY <1>1, <1>3 DEF Lost

\* So a row that is divided as it should be stays so.
LEMMA DividedStays ==
    ASSUME NoComeback, NEW e, Divided(e)
    PROVE  Divided(e)'
<1>1. Whole(e)' <=> Whole(e)
  BY DEF Whole
<1>2. Lost(e.plan) => Lost(e.plan)'
  BY LostStays
<1>3. NearlyPositive(e.splits, e.amount)' <=> NearlyPositive(e.splits, e.amount)
  BY DEF NearlyPositive
<1> HIDE DEF Whole, Lost, NearlyPositive
<1> QED BY <1>1, <1>2, <1>3 DEF Divided

\* The step of request r when every row it adds, or gets the splits of, is divided as
\* it should be.
LEMMA SplitsKeep ==
    ASSUME SplitsInv, NEW r \in Requests, OthersKnow(r), NoComeback,
           \A x \in expenses' : x \in expenses \/ Divided(x)',
           \A x : pc'[r] = "insertNext" /\ x = job'[r].source => Divided(x)',
           pc'[r] = "readSplits" => job'[r].source.splits = << >>
    PROVE  SplitsInv'
<1>1. ASSUME NEW x \in expenses' PROVE Divided(x)'
  BY <1>1, DividedStays DEF SplitsInv
<1>2. ASSUME NEW x \in ReadWhole' PROVE Divided(x)'
  <2>1. PICK q \in Requests : pc'[q] = "insertNext" /\ x = job'[q].source
    BY DEF ReadWhole
  <2>2. CASE q = r
    BY <2>1, <2>2
  <2>3. CASE q # r
    <3>1. x \in ReadWhole
      BY <2>1, <2>3 DEF ReadWhole, OthersKnow
    <3>2. Divided(x)
      BY <3>1 DEF SplitsInv
    <3> QED BY <3>2, DividedStays
  <2> QED BY <2>2, <2>3
<1>3. ASSUME NEW q \in Requests, pc'[q] = "readSplits" PROVE job'[q].source.splits = << >>
  BY <1>3 DEF SplitsInv, OthersKnow
<1> HIDE DEF ReadWhole, Divided
<1> QED BY <1>1, <1>2, <1>3 DEF SplitsInv

\* A step of request r that adds no row and no charge, to where it has read no row.
LEMMA QuietKeepsSplits ==
    ASSUME SplitsInv, NEW r \in Requests, OthersKnow(r), expenses' \subseteq expenses,
           issued' = issued, pc'[r] \notin {"readSplits", "insertNext"}
    PROVE  SplitsInv'
<1>1. NoComeback
  BY DEF NoComeback
<1> QED BY <1>1, SplitsKeep

\* A request that ends, is refused or is cut short adds no row.
LEMMA EndKeepsSplits ==
    ASSUME IInv, SplitsInv, NEW r \in Requests, NEW outcome \in Ended, End(r, outcome),
           expenses' \subseteq expenses, issued' = issued
    PROVE  SplitsInv'
<1>1. pc'[r] = outcome /\ OthersKnow(r)
  BY DEF End, IInv, LocalType, OthersKnow
<1>2. outcome \notin {"readSplits", "insertNext"}
  BY DEF Ended
<1> QED BY <1>1, <1>2, QuietKeepsSplits

\* Nor does one that starts.
LEMMA StartKeepsSplits ==
    ASSUME IInv, SplitsInv, NEW r \in Requests, Start(r)
    PROVE  SplitsInv'
<1>1. CASE Reject(r)
  BY <1>1, EndKeepsSplits DEF Reject, Ended, db
<1>2. ASSUME NEW call, NEW step \in Awaiting, Accept(r, call, step) PROVE SplitsInv'
  <2>1. /\ OthersKnow(r) /\ expenses' = expenses /\ issued' = issued /\ pc'[r] = step
    BY <1>2 DEF Accept, IInv, LocalType, OthersKnow, db
  <2> QED BY <2>1, QuietKeepsSplits DEF Awaiting
<1>3. {"insertRow", "insertPlan", "readPlans", "update", "checkMethod", "delete"}
         \subseteq Awaiting
  BY DEF Awaiting, InFlight
<1>4. CASE CreateStart(r)
  BY <1>1, <1>2, <1>3, <1>4 DEF CreateStart
<1>5. CASE CloseStart(r)
  BY <1>1, <1>2, <1>3, <1>5 DEF CloseStart
<1>6. CASE PatchStart(r)
  BY <1>1, <1>2, <1>3, <1>6 DEF PatchStart
<1>7. CASE DeleteStart(r)
  BY <1>1, <1>2, <1>3, <1>7 DEF DeleteStart
<1> QED BY <1>4, <1>5, <1>6, <1>7 DEF Start

\* The division of the row of a create: nearly positive whatever was asked.
LEMMA NewRowNearlyPositive ==
    ASSUME IInv, NEW r \in Requests, pc[r] = "insertRow",
           LET b == body[r]
               amount == IF b.installments = 0 THEN b.amount ELSE FirstAmount(b)
           IN  \/ b.group \in DefaultGroups
               \/ SplitAccepted(b.split, amount, Members[b.group])
    PROVE  NearlyPositive(NewRow(r).splits, NewRow(r).amount)
<1> DEFINE b == body[r]
           amount == IF b.installments # 0 THEN FirstAmount(b) ELSE b.amount
           built == BuildSplits(b.split, amount, Members[b.group])
<1>1. NewRow(r) \in Row
  BY NewRowIsGood
<1>2. /\ NewRow(r).amount = amount
      /\ NewRow(r).splits = IF b.group \in DefaultGroups THEN << >> ELSE built
  BY DEF NewRow
<1>3. amount \in Nat
  BY <1>1, <1>2 DEF Row
<1>4. CASE b.group \in DefaultGroups
  BY <1>2, <1>4, SMT DEF NearlyPositive
<1>5. CASE b.group \notin DefaultGroups
  <2>1. SplitAccepted(b.split, amount, Members[b.group])
    BY <1>5
  <2>2. b \in CreateBody
    BY DEF IInv, RequestInv
  <2>3. Members[b.group] \in Seq(Users)
    BY <2>2 DEF CreateBody
  <2>4. b.split.members \in MembersAmong(Users)
    BY <2>2 DEF CreateBody, Split, MembersAmong
  <2> HIDE DEF amount, b
  <2>5. NearlyPositive(built, amount)
    BY <1>3, <2>1, <2>3, <2>4, BuiltSplitsNearlyPositive
  <2> QED BY <1>2, <1>5, <2>5
<1> QED BY <1>4, <1>5

\* A row whose request has not charged its plan yet does not come back.
LEMMA FirstDoesNotComeBack ==
    ASSUME NEW r \in Requests, NEW row, row.id = [by |-> r, plan |-> row.plan],
           ~HasCharged(r, row.plan), issued \subseteq issued',
           expenses' = expenses \cup {row}
    PROVE  NoComeback
<1>1. ASSUME NEW i \in issued PROVE row.id # [by |-> i.by, plan |-> i.plan]
  <2> SUFFICES ASSUME row.id = [by |-> i.by, plan |-> i.plan] PROVE FALSE
    OBVIOUS
  <2>1. [by |-> r, plan |-> row.plan].by = [by |-> i.by, plan |-> i.plan].by
    OBVIOUS
  <2>2. [by |-> r, plan |-> row.plan].plan = [by |-> i.by, plan |-> i.plan].plan
    OBVIOUS
  <2> QED BY <2>1, <2>2 DEF HasCharged
<1> QED BY <1>1 DEF NoComeback

\* The row of a create is divided as was asked.
LEMMA InsertRowSplits ==
    ASSUME IInv, IdsInv, SplitsInv, NEW r \in Requests, InsertRow(r)
    PROVE  SplitsInv'
<1> DEFINE b == body[r]
           amount == IF b.installments = 0 THEN b.amount ELSE FirstAmount(b)
           divisible == \/ b.group \in DefaultGroups
                        \/ SplitAccepted(b.split, amount, Members[b.group])
<1>1. pc[r] = "insertRow"
  BY DEF InsertRow
<1>2. PICK row : row = NewRow(r)
  OBVIOUS
<1>3. CASE Reject(r)
  BY <1>3, EndKeepsSplits DEF Reject, Ended, db
<1>4. CASE End(r, "failed") /\ UNCHANGED db
  BY <1>4, EndKeepsSplits DEF Ended, db
<1>5. CASE divisible /\ expenses' = expenses \cup {row} /\ issued \subseteq issued'
           /\ End(r, "done")
  <2>1. row \in Row /\ row.id = [by |-> r, plan |-> row.plan] /\ Whole(row)
    BY <1>1, <1>2, <1>5, NewRowIsGood
  <2>2. NearlyPositive(row.splits, row.amount)
    BY <1>1, <1>2, <1>5, NewRowNearlyPositive
  <2>3. Divided(row)
    BY <2>1, <2>2 DEF Divided
  <2>4. ~HasCharged(r, row.plan)
    <3>1. \A p \in Requests : ~HasCharged(r, p)
      BY <1>1 DEF IdsInv, OnceInv, Early
    <3>2. \A i \in issued : i.plan \in Requests
      BY DEF IInv, TableInv, Charge
    <3> QED BY <3>1, <3>2 DEF HasCharged
  <2>5. NoComeback
    BY <1>5, <2>1, <2>4, FirstDoesNotComeBack
  <2>6. Divided(row)'
    BY <2>3, <2>5, DividedStays
  <2>7. pc'[r] = "done" /\ OthersKnow(r)
    BY <1>5 DEF End, IInv, LocalType, OthersKnow
  <2> HIDE DEF Divided, divisible
  <2> QED BY <1>5, <2>5, <2>6, <2>7, SplitsKeep
<1> QED BY <1>2, <1>3, <1>4, <1>5 DEF InsertRow, InsertExpense

\* What closeCycle holds has no splits until it reads them.
LEMMA NextPlanSplits ==
    ASSUME IInv, SplitsInv, NEW r \in Requests, NextPlan(r)
    PROVE  SplitsInv'
<1>1. PICK s \in todo[r] :
         \/ UNCHANGED <<pc, job>>
         \/ \E e \in Latest(s.plan) :
               /\ job' = [job EXCEPT ![r] =
                            [plan |-> s, source |-> [e EXCEPT !.splits = << >>]]]
               /\ pc' = [pc EXCEPT ![r] = "readSplits"]
  BY DEF NextPlan
<1>2. /\ pc[r] = "nextPlan" /\ body' = body /\ expenses' = expenses /\ issued' = issued
  BY DEF NextPlan, db
<1>3. CASE UNCHANGED <<pc, job>>
  BY <1>2, <1>3, QuietKeepsSplits DEF OthersKnow
<1>4. ASSUME NEW e \in Latest(s.plan),
             job' = [job EXCEPT ![r] =
                       [plan |-> s, source |-> [e EXCEPT !.splits = << >>]]],
             pc' = [pc EXCEPT ![r] = "readSplits"]
      PROVE  SplitsInv'
  <2>1. PICK source : source = [e EXCEPT !.splits = << >>]
    OBVIOUS
  <2>2. /\ pc'[r] = "readSplits" /\ job'[r] = [plan |-> s, source |-> source]
        /\ OthersKnow(r)
    BY <1>2, <1>4, <2>1 DEF IInv, LocalType, OthersKnow
  <2>3. e \in Row
    BY DEF Latest, RowsOf, IInv, TableInv
  <2>4. source.splits = << >>
    BY <2>1, <2>3, EmptySplits
  <2>5. NoComeback
    BY <1>2 DEF NoComeback
  <2> QED BY <1>2, <2>2, <2>4, <2>5, SplitsKeep
<1> QED BY <1>1, <1>3, <1>4

\* The splits closeCycle finds are those of the row it holds; if it finds none, the
\* purchase lost that row.
LEMMA ReadSplitsSplits ==
    ASSUME IInv, IdsInv, PartiesInv, SplitsInv, NEW r \in Requests, ReadSplits(r)
    PROVE  SplitsInv'
<1>1. PICK old, new : old = job[r].source /\ new = job'[r].source
  OBVIOUS
<1>2. /\ pc[r] = "readSplits" /\ pc'[r] = "insertNext" /\ OthersKnow(r)
      /\ expenses' = expenses /\ issued' = issued
      /\ Alike(new, old) /\ old \in Row
      /\ \/ WithId(old.id) = {} /\ new = old
         \/ \E e \in WithId(old.id) : new.splits = e.splits
  <2>1. /\ pc[r] = "readSplits" /\ pc' = [pc EXCEPT ![r] = "insertNext"]
        /\ body' = body /\ expenses' = expenses /\ issued' = issued
        /\ \A q \in Requests \ {r} : job'[q] = job[q]
        /\ job[r] \in Job /\ Alike(new, old)
        /\ \/ WithId(old.id) = {} /\ new = old
           \/ \E e \in WithId(old.id) : new.splits = e.splits
    BY <1>1, SplitsAreRead DEF db
  <2>2. pc'[r] = "insertNext" /\ OthersKnow(r)
    BY <2>1 DEF IInv, LocalType, OthersKnow
  <2>3. old \in Row
    BY <1>1, <2>1 DEF Job
  <2> QED BY <2>1, <2>2, <2>3
<1>3. /\ old.splits = << >> /\ ChargeOf(old) \in issued /\ old.plan # NoPlan
      /\ old \in Known /\ old.id.plan = old.plan
  <2>1. old.splits = << >> /\ ChargeOf(old) \in issued /\ old.plan # NoPlan
    BY <1>1, <1>2 DEF SplitsInv, IdsInv, OnceInv, IInv, RequestInv
  <2>2. old \in Known /\ old.id.plan = old.plan
    BY <1>1, <1>2, KnownTyped DEF PartiesInv, KnownInv, RowInv
  <2> QED BY <2>1, <2>2
<1>4. NoComeback
  BY <1>2 DEF NoComeback
<1>5. Divided(new)
  <2>1. CASE WithId(old.id) = {} /\ new = old
    <3>1. old.id = [by |-> old.id.by, plan |-> old.plan]
      BY <1>2, <1>3 DEF Row, RowId
    <3>2. PICK i \in issued : i.by = old.id.by /\ i.plan = old.plan
      BY <1>3 DEF ChargeOf
    <3>3. Lost(old.plan)
      BY <2>1, <3>1, <3>2 DEF Lost
    <3>4. NearlyPositive(old.splits, old.amount)
      <4>1. DOMAIN old.splits = {}
        BY <1>3
      <4> QED BY <4>1, SMT DEF NearlyPositive
    <3> QED BY <1>3, <2>1, <3>3, <3>4 DEF Divided
  <2>2. ASSUME NEW e \in WithId(old.id), new.splits = e.splits PROVE Divided(new)
    <3>1. e \in expenses /\ e \in Known /\ e.id = old.id /\ e.plan = old.plan
      BY <1>3 DEF WithId, Known, IInv, TableInv
    <3>2. e.group = old.group
      BY <1>3, <3>1, KinChains DEF PartiesInv, KnownInv
    <3>3. e.amount = old.amount
      <4>1. ChargeOf(e) \in issued
        BY <1>3, <3>1 DEF IInv, TableInv, RowsAsCharged, ChargeOf
      <4>2. ChargeOf(e) = ChargeOf(old)
        <5>1. ChargeOf(e).by = ChargeOf(old).by /\ ChargeOf(e).plan = ChargeOf(old).plan
          BY <3>1 DEF ChargeOf
        <5> QED BY <1>3, <4>1, <5>1 DEF IdsInv
      <4>3. ChargeOf(e).amount = e.amount /\ ChargeOf(old).amount = old.amount
        BY DEF ChargeOf
      <4> QED BY <4>2, <4>3
    <3>4. Divided(e)
      BY <3>1 DEF SplitsInv
    <3>5. /\ new.plan = e.plan /\ new.group = e.group /\ new.amount = e.amount
      BY <1>2, <3>1, <3>2, <3>3 DEF Alike
    <3> QED BY <2>2, <3>4, <3>5 DEF Divided, Whole
  <2> QED BY <1>2, <2>1, <2>2
<1>6. Divided(new)'
  BY <1>4, <1>5, DividedStays
<1> HIDE DEF Divided
<1> QED BY <1>1, <1>2, <1>4, <1>6, SplitsKeep

\* The division of a cloned row is the source's, carried over.
LEMMA NextRowNearlyPositive ==
    ASSUME IInv, SplitsInv, NEW r \in Requests, pc[r] = "insertNext"
    PROVE  NearlyPositive(NextRow(r).splits, NextRow(r).amount)
<1> DEFINE source == job[r].source
           row == NextRow(r)
<1>1. /\ source \in Row /\ source.plan # NoPlan /\ Divided(source)
  BY DEF IInv, RequestInv, Job, SplitsInv, ReadWhole
<1>2. /\ NearlyPositive(source.splits, source.amount)
      /\ source.splits = << >> \/ SplitSum(source.splits) = source.amount
  BY <1>1 DEF Divided, Whole
<1>3. source.splits \in DivisionAmong(Users) /\ source.amount \in Nat \ {0}
  BY <1>1 DEF Row, DivisionAmong
<1>4. row \in Row
  BY NextRowIsGood
<1>5. row.splits = ScaleSplits(source.splits, source.amount, row.amount)
  BY DEF NextRow
<1>6. row.amount \in Nat
  BY <1>4 DEF Row
<1> HIDE DEF row
<1>7. CASE source.splits = << >>
  <2>1. DOMAIN row.splits = {}
    BY <1>5, <1>7 DEF ScaleSplits, Reconcile
  <2> QED BY <2>1, SMT DEF NearlyPositive, row
<1>8. CASE source.splits # << >>
  <2>1. SplitSum(source.splits) = source.amount
    BY <1>2, <1>8
  <2> HIDE DEF source
  <2>2. NearlyPositive(row.splits, row.amount)
    BY <1>2, <1>3, <1>5, <1>6, <1>8, <2>1, ScaledSplitsNearlyPositive
  <2> QED BY <2>2 DEF row
<1> QED BY <1>7, <1>8

\* A clone is divided as what it clones.
LEMMA InsertNextSplits ==
    ASSUME IInv, IdsInv, PartiesInv, SplitsInv, NEW r \in Requests, InsertNext(r)
    PROVE  SplitsInv'
<1>1. pc[r] = "insertNext"
  BY DEF InsertNext
<1>2. PICK source, row : source = job[r].source /\ row = NextRow(r)
  OBVIOUS
<1>3. CASE End(r, "failed") /\ UNCHANGED db
  BY <1>3, EndKeepsSplits DEF Ended, db
<1>4. CASE expenses' = expenses \cup {row} /\ issued \subseteq issued' /\ Go(r, "advance")
  <2>1. /\ row.id = [by |-> r, plan |-> row.plan] /\ row.plan = job[r].plan.plan
        /\ Whole(source) => Whole(row)
        /\ source.splits = << >> => row.splits = << >>
    BY <1>1, <1>2, NextRowIsGood
  <2>2. source.plan # NoPlan /\ source.plan = row.plan
    BY <1>1, <1>2, <2>1 DEF IInv, RequestInv, PartiesInv, PartyInv
  <2>3. Divided(source)
    BY <1>1, <1>2 DEF SplitsInv, ReadWhole
  <2>4. Divided(row)
    <3>1. NearlyPositive(row.splits, row.amount)
      BY <1>1, <1>2, NextRowNearlyPositive
    <3> QED BY <2>1, <2>2, <2>3, <3>1 DEF Divided
  <2>5. ~HasCharged(r, row.plan)
    BY <1>1, <2>1 DEF IdsInv, OnceInv
  <2>6. NoComeback
    BY <1>4, <2>1, <2>5, FirstDoesNotComeBack
  <2>7. Divided(row)'
    BY <2>4, <2>6, DividedStays
  <2>8. pc'[r] = "advance" /\ OthersKnow(r)
    BY <1>4 DEF Go, IInv, LocalType, OthersKnow
  <2> HIDE DEF Divided
  <2> QED BY <1>4, <2>6, <2>7, <2>8, SplitsKeep
<1> QED BY <1>2, <1>3, <1>4 DEF InsertNext, InsertExpense

\* A patch leaves the splits of an installment alone, and its amount.
LEMMA UpdateSplits ==
    ASSUME IInv, SplitsInv, NEW r \in Requests, Update(r)
    PROVE  SplitsInv'
<1>1. pc[r] = "update"
  BY DEF Update
<1>2. PICK call, target : call = body[r] /\ target = WithId(call.target)
  OBVIOUS
<1>3. CASE Reject(r)
  BY <1>3, EndKeepsSplits DEF Reject, Ended, db
<1>4. CASE End(r, "failed") /\ UNCHANGED db
  BY <1>4, EndKeepsSplits DEF Ended, db
<1>5. CASE /\ expenses' = (expenses \ target) \cup {Patched(e, call) : e \in target}
           /\ End(r, "done") /\ UNCHANGED <<methods, plans, issued>>
  <2>1. call.amount # 0 => call.target.plan = NoPlan
    BY <1>1, <1>2 DEF IInv, RequestInv
  <2>2. ASSUME NEW e \in target
        PROVE  Patched(e, call).id = e.id /\ Divided(Patched(e, call))
    <3> DEFINE x == Patched(e, call)
    <3>1. /\ e \in expenses /\ e \in Row /\ e.id = call.target /\ e.id.plan = e.plan
          /\ Divided(e)
      BY <1>2 DEF WithId, SplitsInv, IInv, TableInv
    <3> DEFINE D == Seq([user : Users, amount : Int])
    <3>2. Row = [id : RowId, group : Groups, method : Methods, creator : Users,
                 amount : Nat \ {0}, plan : Requests \cup {NoPlan}, number : Nat,
                 splits : D]
      BY DEF Row
    <3> HIDE DEF D
    <3>3. /\ x.id = e.id /\ x.plan = e.plan /\ x.group = e.group /\ x.splits = e.splits
          /\ x.amount = IF call.amount = 0 THEN e.amount ELSE call.amount
      BY <3>1, <3>2 DEF Patched
    <3> HIDE DEF x
    <3>4. x.plan # NoPlan => x.amount = e.amount
      BY <2>1, <3>1, <3>3
    <3>5. Divided(x)
      BY <3>1, <3>3, <3>4 DEF Divided, Whole
    <3> QED BY <3>3, <3>5 DEF x
  <2>3. target \subseteq expenses
    BY <1>2 DEF WithId
  <2>4. NoComeback
    BY <1>5, <2>2, <2>3 DEF NoComeback
  <2>5. \A x \in expenses' : x \in expenses \/ Divided(x)'
    <3>1. ASSUME NEW e \in target PROVE Divided(Patched(e, call))'
      BY <2>2, <2>4, DividedStays
    <3> HIDE DEF Divided
    <3> QED BY <1>5, <3>1
  <2>6. pc'[r] = "done" /\ OthersKnow(r)
    BY <1>5 DEF End, IInv, LocalType, OthersKnow
  <2> HIDE DEF Divided
  <2> QED BY <2>4, <2>5, <2>6, SplitsKeep
<1> QED BY <1>2, <1>3, <1>4, <1>5 DEF Update

\* Every step keeps how the installments are divided.
LEMMA SplitsNext ==
    IInv /\ IdsInv /\ PartiesInv /\ SplitsInv /\ [Next]_vars => SplitsInv'
<1> SUFFICES ASSUME IInv, IdsInv, PartiesInv, SplitsInv, [Next]_vars PROVE SplitsInv'
  OBVIOUS
<1>1. ASSUME UNCHANGED <<expenses, pc, job, issued>> PROVE SplitsInv'
  <2>1. NoComeback /\ expenses' = expenses /\ pc' = pc /\ job' = job
    BY <1>1 DEF NoComeback
  <2>2. \A x \in expenses \cup ReadWhole : Divided(x)'
    BY <2>1, DividedStays DEF SplitsInv
  <2>3. ReadWhole' = ReadWhole
    BY <2>1 DEF ReadWhole
  <2> HIDE DEF Divided
  <2> QED BY <2>1, <2>2, <2>3 DEF SplitsInv
<1>2. ASSUME NEW r \in Requests, Start(r) PROVE SplitsInv'
  BY <1>2, StartKeepsSplits
<1>3. ASSUME NEW r \in Requests, Step(r) PROVE SplitsInv'
  <2>1. CASE InsertPlan(r)
    <3>1. CASE End(r, "failed") /\ UNCHANGED db
      BY <3>1, EndKeepsSplits DEF Ended, db
    <3>2. CASE Go(r, "insertRow") /\ UNCHANGED <<methods, expenses, issued>>
      <4>1. pc'[r] = "insertRow" /\ OthersKnow(r)
        BY <3>2 DEF Go, IInv, LocalType, OthersKnow
      <4> QED BY <3>2, <4>1, QuietKeepsSplits
    <3> QED BY <2>1, <3>1, <3>2 DEF InsertPlan
  <2>2. CASE CheckMethod(r)
    <3>1. CASE Reject(r)
      BY <3>1, EndKeepsSplits DEF Reject, Ended, db
    <3>2. CASE Go(r, "update") /\ UNCHANGED db
      <4>1. pc'[r] = "update" /\ OthersKnow(r) /\ expenses' = expenses /\ issued' = issued
        BY <3>2 DEF Go, IInv, LocalType, OthersKnow, db
      <4> QED BY <4>1, QuietKeepsSplits
    <3> QED BY <2>2, <3>1, <3>2 DEF CheckMethod
  <2>3. CASE ReadPlans(r) \/ Advance(r)
    <3>1. /\ pc'[r] = "nextPlan" /\ OthersKnow(r)
          /\ expenses' = expenses /\ issued' = issued
      BY <2>3 DEF ReadPlans, Advance, IInv, LocalType, OthersKnow, db
    <3> QED BY <3>1, QuietKeepsSplits
  <2>4. CASE CloseEnd(r)
    BY <2>4, EndKeepsSplits DEF CloseEnd, Ended, db
  <2>5. CASE Delete(r)
    <3>1. /\ expenses' \subseteq expenses /\ issued' = issued
          /\ \E outcome \in Ended : End(r, outcome)
      BY <2>5 DEF Delete, Ended
    <3> QED BY <3>1, EndKeepsSplits
  <2> QED BY <1>3, <2>1, <2>2, <2>3, <2>4, <2>5, InsertRowSplits, NextPlanSplits,
             ReadSplitsSplits, InsertNextSplits, UpdateSplits DEF Step
<1>4. ASSUME NEW r \in MayFail, Abort(r) PROVE SplitsInv'
  BY <1>4, EndKeepsSplits DEF Abort, Ended, db
<1>5. ASSUME NEW m \in Methods, PatchMethodType(m) \/ DeleteMethod(m) PROVE SplitsInv'
  BY <1>1, <1>5 DEF PatchMethodType, DeleteMethod
<1>6. CASE UNCHANGED vars
  BY <1>1, <1>6 DEF vars
<1> QED BY <1>2, <1>3, <1>4, <1>5, <1>6 DEF Next

\* Together with the other three, it holds in every reachable state of every instance.
THEOREM SplitsInvariance == Spec => []SplitsInv
<1>1. Init => SplitsInv
  BY DEF Init, SplitsInv, ReadWhole
<1> QED BY <1>1, Invariance, IdsInvariance, PartiesInvariance, SplitsNext, PTL DEF Spec

\* The splits of every installment of a shared expense add up to its amount, cents
\* included, through any chain of clones; or it has none, because the row it was
\* cloned from was deleted between the read of the row and the read of its splits.
THEOREM InstallmentsAreDivided == Spec => []InstallmentSplitsAddUp
<1>1. SplitsInv => InstallmentSplitsAddUp
  BY DEF SplitsInv, Divided, InstallmentSplitsAddUp
<1> QED BY <1>1, SplitsInvariance, PTL

\* Whatever percentages pass the check and however often they are scaled, a split of
\* an installment falls below zero by no more than a hundredth of a percent of it.
THEOREM NegativeOnlyByToleranceHolds == Spec => []NegativeOnlyByTolerance
<1>1. IInv /\ SplitsInv => NegativeOnlyByTolerance
  <2> SUFFICES ASSUME IInv, SplitsInv, NEW e \in expenses, e.plan # NoPlan,
                      NEW i \in DOMAIN e.splits
               PROVE  e.splits[i].amount * 10000 >= -e.amount
    BY DEF NegativeOnlyByTolerance
  <2>1. e \in Row
    BY DEF IInv, TableInv
  <2>2. NearlyPositive(e.splits, e.amount)
    BY DEF SplitsInv, Divided
  <2>3. e.splits \in DivisionAmong(Users) /\ e.amount \in Nat
    BY <2>1 DEF Row, DivisionAmong
  <2>4. e.splits[i].amount \in Int
    BY <2>3, DivisionIsFunction
  <2>5. \/ e.splits[i].amount * 10000 >= -e.amount
        \/ e.splits[i].amount >= 0
    BY <2>2, SMT DEF NearlyPositive
  <2> QED BY <2>3, <2>4, <2>5, SMT
<1> QED BY <1>1, Invariance, SplitsInvariance, PTL

-----------------------------------------------------------------------------
(* The table of payment methods, as expenses and plans use it.             *)

\* A row is inserted only while its payment method exists.
LEMMA InsertKeepsUsed ==
    ASSUME UsedExist, NEW r, NEW row, NEW step, InsertExpense(r, row, step)
    PROVE  UsedExist'
BY DEF UsedExist, InsertExpense, Exists, PlanIds, db

\* No statement leaves an expense or a plan without its payment method.
LEMMA UsedNext == IInv /\ UsedExist /\ [Next]_vars => UsedExist'
<1> SUFFICES ASSUME IInv, UsedExist, [Next]_vars PROVE UsedExist'
  OBVIOUS
<1>1. ASSUME UNCHANGED <<methods, plans, expenses>> PROVE UsedExist'
  BY <1>1 DEF UsedExist, Exists, PlanIds
<1>2. ASSUME UNCHANGED db PROVE UsedExist'
  BY <1>1, <1>2 DEF db
<1>3. ASSUME NEW r \in Requests, Start(r) PROVE UsedExist'
  BY <1>2, <1>3 DEF Start, CreateStart, CloseStart, PatchStart, DeleteStart, Accept, Reject
<1>4. ASSUME NEW r \in Requests, Step(r) PROVE UsedExist'
  <2>1. CASE InsertPlan(r)
    <3>1. CASE UNCHANGED db
      BY <1>2, <3>1
    <3>2. CASE /\ Exists(body[r].method) /\ UNCHANGED <<methods, expenses>>
               /\ plans' = [plans EXCEPT ![r] =
                      [method |-> body[r].method, total |-> body[r].amount,
                       count |-> body[r].installments,
                       current |-> 1, completed |-> FALSE]]
      BY <3>2 DEF UsedExist, Exists, PlanIds, IInv, TableInv
    <3> QED BY <2>1, <3>1, <3>2 DEF InsertPlan
  <2>2. CASE InsertRow(r)
    BY <1>2, <2>2, InsertKeepsUsed DEF InsertRow, Reject
  <2>3. CASE ReadPlans(r) \/ NextPlan(r) \/ ReadSplits(r) \/ CloseEnd(r) \/ CheckMethod(r)
    BY <1>2, <2>3 DEF ReadPlans, NextPlan, ReadSplits, CloseEnd, CheckMethod, Reject
  <2>4. CASE InsertNext(r)
    BY <2>4, InsertKeepsUsed DEF InsertNext
  <2>5. CASE Advance(r)
    <3>1. PICK p, c, d : /\ p = job[r].plan.plan
                         /\ plans' = [plans EXCEPT ![p].current = c, ![p].completed = d]
      BY <2>5 DEF Advance
    <3>2. UNCHANGED <<methods, expenses>> /\ pc[r] = "advance"
      BY <2>5 DEF Advance
    <3>3. /\ job[r].plan \in Snapshot /\ StillTrue(job[r].plan)
      BY <3>2 DEF IInv, RequestInv, Job
    <3>4. p \in PlanIds /\ plans[p] \in Plan
      BY <3>1, <3>3 DEF StillTrue, Snapshot, PlanIds, IInv, TableInv
    <3>5. /\ plans'[p] = [plans[p] EXCEPT !.current = c, !.completed = d]
          /\ \A q \in Requests \ {p} : plans'[q] = plans[q]
      BY <3>1, <3>4 DEF PlanIds, IInv, TableInv
    <3>6. [plans[p] EXCEPT !.current = c, !.completed = d].method = plans[p].method
      BY <3>4, Zenon DEF Plan
    <3>7. plans'[p].method = plans[p].method
      BY <3>5, <3>6, Zenon
    <3>8. PlanIds' \subseteq PlanIds
      BY <3>4, <3>5 DEF PlanIds
    <3>9. \A q \in PlanIds : plans'[q].method = plans[q].method
      BY <3>5, <3>7 DEF PlanIds
    <3> QED BY <3>2, <3>8, <3>9 DEF UsedExist, Exists
  <2>6. CASE Update(r)
    <3>1. CASE UNCHANGED db
      BY <1>2, <3>1
    <3>2. ASSUME UNCHANGED <<methods, plans>>,
                 NEW target \in SUBSET expenses,
                 body[r].method # NoMethod => Exists(body[r].method),
                 expenses' = (expenses \ target)
                               \cup {Patched(e, body[r]) : e \in target}
          PROVE  UsedExist'
      <4>1. \A e \in target : Patched(e, body[r]).method =
               IF body[r].method = NoMethod THEN e.method ELSE body[r].method
        BY DEF Patched, IInv, TableInv, Row
      <4> QED BY <3>2, <4>1 DEF UsedExist, Exists, PlanIds
    <3>3. PICK target : target = {e \in expenses : e.id = body[r].target}
      OBVIOUS
    <3> QED BY <2>6, <3>1, <3>2, <3>3 DEF Update, WithId, Reject
  <2>7. CASE Delete(r)
    BY <2>7 DEF Delete, UsedExist, Exists, PlanIds
  <2> QED BY <1>4, <2>1, <2>2, <2>3, <2>4, <2>5, <2>6, <2>7 DEF Step
<1>5. ASSUME NEW r \in MayFail, Abort(r) PROVE UsedExist'
  BY <1>2, <1>5 DEF Abort
<1>6. ASSUME NEW m \in Methods, PatchMethodType(m) PROVE UsedExist'
  BY <1>6 DEF PatchMethodType, UsedExist, Exists, PlanIds, IInv, TableInv, MethodType
<1>7. ASSUME NEW m \in Methods, DeleteMethod(m) PROVE UsedExist'
  BY <1>7 DEF DeleteMethod, Referenced, ReferencedByExpenses,
               ReferencedByPlans, UsedExist, Exists, PlanIds, IInv, TableInv
<1>8. CASE UNCHANGED vars
  BY <1>2, <1>8 DEF vars, db
<1> QED BY <1>3, <1>4, <1>5, <1>6, <1>7, <1>8 DEF Next

\* At the start nothing uses the methods there are.
LEMMA UsedInit == Init => UsedExist
BY DEF Init, UsedExist, PlanIds

\* A method exists exactly when its mapped row is one.
LEMMA RowsAreMethods ==
    ASSUME methods \in [Methods -> MethodType \cup {"DELETED"}]
    PROVE  /\ \A m \in Methods : Rows[m] # NoMethod <=> Exists(m)
           /\ Rows \in [Methods -> Table!Row \cup {NoMethod}]
           /\ Table!Existing = {m \in Methods : Exists(m)}
<1>1. ASSUME NEW m \in Methods, Exists(m)
      PROVE  [owner |-> Owner[m], type |-> methods[m]] \in Table!Row
  BY <1>1 DEF Exists, Table!Row
<1>2. NoMethod \notin Table!Row
  BY DEF Table!Row
<1>3. \A m \in Methods :
         /\ Exists(m) => Rows[m] = [owner |-> Owner[m], type |-> methods[m]]
         /\ ~Exists(m) => Rows[m] = NoMethod
  BY DEF Rows
<1>4. \A m \in Methods : Rows[m] # NoMethod <=> Exists(m)
  <2>1. \A m \in Methods : Exists(m) => Rows[m] \in Table!Row
    BY <1>1, <1>3
  <2> QED BY <1>2, <1>3, <2>1, Zenon
<1>5. Rows \in [Methods -> Table!Row \cup {NoMethod}]
  BY <1>1 DEF Rows
<1> QED BY <1>4, <1>5 DEF Table!Existing

\* What is used exists, as the table sees it.
LEMMA UsedAreExisting == IInv /\ UsedExist => Used \subseteq Table!Existing
<1> SUFFICES ASSUME IInv, UsedExist PROVE Used \subseteq Table!Existing
  OBVIOUS
<1>1. \A e \in expenses : e.method \in Methods
  BY DEF IInv, TableInv, Row
<1>2. \A p \in PlanIds : plans[p].method \in Methods
  BY DEF IInv, TableInv, PlanIds, Plan
<1> QED BY <1>1, <1>2, RowsAreMethods DEF IInv, TableInv, UsedExist, Used

\* Every statement on expenses and plans is a use of the table, and the table itself
\* changes as it allows.
LEMMA TableStep ==
    ASSUME IInv, IInv', UsedExist, UsedExist', [Next]_vars
    PROVE  [Table!Next]_(Table!vars)
<1>1. methods \in [Methods -> MethodType \cup {"DELETED"}]
  BY DEF IInv, TableInv
<1>2. ASSUME UNCHANGED methods PROVE [Table!Next]_(Table!vars)
  <2>1. Rows' = Rows /\ Table!Existing' = Table!Existing
    BY <1>2 DEF Rows, Exists, Table!Existing
  <2>2. (IInv /\ UsedExist => Used \subseteq Table!Existing)'
    BY UsedAreExisting, PTL
  <2>3. Table!Use
    BY <2>1, <2>2 DEF Table!Use
  <2> QED BY <2>3 DEF Table!Next
<1>3. ASSUME NEW m \in Methods, PatchMethodType(m) PROVE Table!Next
  <2>1. PICK t \in MethodType : methods' = [methods EXCEPT ![m] = t]
    BY <1>3 DEF PatchMethodType
  <2>2. Exists(m) /\ UNCHANGED <<plans, expenses>>
    BY <1>3 DEF PatchMethodType
  <2>3. Used' = Used
    BY <2>2 DEF Used, PlanIds
  <2>4. \A n \in Methods : Exists(n)' <=> Exists(n)
    BY <1>1, <2>1, <2>2 DEF Exists, MethodType
  <2>5. Rows' = [Rows EXCEPT ![m].type = t]
    <3>1. Rows[m] = [owner |-> Owner[m], type |-> methods[m]]
      BY <2>2 DEF Rows
    <3>2. Rows'[m] = [owner |-> Owner[m], type |-> t]
      BY <1>1, <2>1, <2>2, <2>4 DEF Rows
    <3>3. \A n \in Methods \ {m} : Rows'[n] = Rows[n]
      BY <1>1, <2>1, <2>4 DEF Rows
    <3>4. Rows'[m] = [Rows[m] EXCEPT !.type = t]
      BY <3>1, <3>2
    <3>5. Rows = [n \in Methods |-> Rows[n]] /\ Rows' = [n \in Methods |-> Rows'[n]]
      BY DEF Rows
    <3> QED BY <3>3, <3>4, <3>5, Zenon
  <2>6. m \in Table!Existing
    BY <1>1, <2>2, RowsAreMethods
  <2> QED BY <2>1, <2>3, <2>5, <2>6 DEF Table!Next, Table!ChangeType
<1>4. ASSUME NEW m \in Methods, DeleteMethod(m) PROVE Table!Next
  <2>1. /\ Exists(m) /\ ~Referenced(m) /\ UNCHANGED <<plans, expenses>>
        /\ methods' = [methods EXCEPT ![m] = "DELETED"]
    BY <1>4 DEF DeleteMethod
  <2>2. Used' = Used /\ m \notin Used
    BY <2>1 DEF Used, PlanIds, Referenced, ReferencedByExpenses, ReferencedByPlans
  <2>3. Rows' = [Rows EXCEPT ![m] = NoMethod]
    <3>1. ~Exists(m)' /\ \A n \in Methods \ {m} : methods'[n] = methods[n]
      BY <1>1, <2>1 DEF Exists
    <3> QED BY <3>1 DEF Rows, Exists
  <2>4. m \in Table!Existing
    BY <1>1, <2>1, RowsAreMethods
  <2> QED BY <2>2, <2>3, <2>4 DEF Table!Next, Table!Delete
<1>5. CASE Next
  <2>1. ASSUME NEW r \in Requests, Start(r) \/ Abort(r) PROVE UNCHANGED methods
    BY <2>1 DEF Start, CreateStart, CloseStart, PatchStart, DeleteStart, Abort, Accept,
                Reject, db
  <2>2. ASSUME NEW r \in Requests, Step(r) PROVE UNCHANGED methods
    BY <2>2 DEF Step, InsertPlan, InsertRow, ReadPlans, NextPlan, ReadSplits, InsertNext, Advance,
                CloseEnd, CheckMethod, Update, Delete, Reject, InsertExpense, db
  <2> QED BY <1>2, <1>3, <1>4, <1>5, <2>1, <2>2 DEF Next
<1>6. CASE UNCHANGED vars
  BY <1>2, <1>6 DEF vars
<1> QED BY <1>5, <1>6

\* Any number of creates, clones, patches and deletes, however they interleave, use the
\* table of payment methods as it promises to its users.
THEOREM ExpensesKeepTable == Spec => KeepsTable
<1>1. Init => Table!Init
  <2> SUFFICES ASSUME Init PROVE Table!Init
    OBVIOUS
  <2>1. /\ methods \in [Methods -> MethodType \cup {"DELETED"}]
        /\ \A m \in Methods : Exists(m)
    BY DEF Init, Exists, MethodType
  <2>2. Used = {}
    BY DEF Init, Used, PlanIds
  <2> QED BY <2>1, <2>2, RowsAreMethods DEF Table!Init
<1>2. IInv /\ UsedExist /\ [Next]_vars => [Table!Next]_(Table!vars)
  BY NextKeeps, UsedNext, TableStep
<1>3. Spec => []UsedExist
  BY Invariance, UsedInit, UsedNext, PTL DEF Spec
<1> QED BY <1>1, <1>2, <1>3, Invariance, PTL DEF Spec, KeepsTable, Table!Spec
=============================================================================
