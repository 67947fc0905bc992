--------------------------- MODULE ExpensesProofs ---------------------------
(***************************************************************************)
(* Safety of Expenses for any number of requests, users, groups, payment   *)
(* methods and amounts, with every interleaving and every failure.         *)
(*                                                                         *)
(* The argument is that IInv is inductive.  A step changes what one        *)
(* request knows and at most one table, so each step is proved from two    *)
(* lemmas: what the other requests know survives any change of the tables  *)
(* that only adds plans and charges (OthersKeep), and the tables keep      *)
(* their invariant when a row is added (InsertKeepsTables).                *)
(*                                                                         *)
(* From the same invariant follows that ids never come back (IdsInv): no   *)
(* request charges a plan twice, so that the id of a row names that row    *)
(* and, once it is deleted, no other.                                      *)
(***************************************************************************)
EXTENDS ExpensesInvariant, DivisionProofs

USE ConstantsAssumption, NullsAssumption

\* How the tables may change under a request: no plan is lost or gets other terms,
\* and no charge is forgotten.
Grows ==
    /\ issued \subseteq issued'
    /\ \A p \in Requests : plans[p] # NoPlan =>
          /\ plans'[p] # NoPlan
          /\ plans'[p].total = plans[p].total
          /\ plans'[p].count = plans[p].count

\* What a request knows stays true while others only add plans and charges.
LEMMA OthersKeep ==
    ASSUME NEW q \in Requests, LocalType, RequestInv(q), Grows,
           plans[q] = NoPlan => plans'[q] = NoPlan,
           pc'[q] = pc[q], body'[q] = body[q], todo'[q] = todo[q], job'[q] = job[q]
    PROVE  RequestInv(q)'
<1>1. \A p, n : IsCharged(p, n) => IsCharged(p, n)'
  BY DEF Grows, IsCharged
<1>2. \A s \in Snapshot : StillTrue(s) => StillTrue(s)'
  BY DEF Grows, StillTrue, Snapshot
<1>3. todo[q] \subseteq Snapshot
  BY DEF LocalType
<1>4. job[q] \in Job => job[q].plan \in Snapshot
  BY DEF Job
<1>5. plans[q] # NoPlan => /\ plans'[q] # NoPlan
                           /\ plans'[q].total = plans[q].total
                           /\ plans'[q].count = plans[q].count
  BY DEF Grows
<1>6. /\ (pc[q] \in {"idle", "insertPlan"} => plans[q] = NoPlan)'
      /\ (pc[q] = "insertPlan" =>
            /\ body[q] \in CreateBodies
            /\ body[q].installments # 0
            /\ body[q].installments <= body[q].amount)'
      /\ (pc[q] = "insertRow" =>
            /\ body[q] \in CreateBodies
            /\ body[q].installments # 0 =>
                /\ plans[q] # NoPlan
                /\ plans[q].total = body[q].amount
                /\ plans[q].count = body[q].installments)'
      /\ (pc[q] = "readPlans" => body[q] \in CloseBodies)'
  BY <1>5 DEF RequestInv
<1>7. (\A s \in todo[q] :
          StillTrue(s) /\ (s.current > 1 => IsCharged(s.plan, s.current)))'
  BY <1>1, <1>2, <1>3 DEF RequestInv
<1>8. /\ (pc[q] \in {"readSplits", "insertNext", "advance"} =>
            job[q] \in Job /\ StillTrue(job[q].plan))'
      /\ (pc[q] \in {"readSplits", "insertNext"} =>
            /\ IsCharged(job[q].plan.plan, job[q].plan.current)
            /\ job[q].source.plan # NoPlan)'
      /\ (pc[q] = "advance" => IsCharged(job[q].plan.plan, job[q].plan.current + 1))'
  BY <1>1, <1>2, <1>4 DEF RequestInv
<1>9. /\ (pc[q] \in {"checkMethod", "update"} =>
            /\ body[q] \in PatchCall
            /\ body[q].amount # 0 => body[q].target.plan = NoPlan)'
       /\ (pc[q] = "checkMethod" => body[q].method # NoMethod)'
       /\ (pc[q] = "delete" => body[q] \in DeleteCall)'
  BY DEF RequestInv
<1> QED BY <1>6, <1>7, <1>8, <1>9 DEF RequestInv

\* A charge of the right amount that leaves no gap, with its row.
LEMMA InsertKeepsTables ==
    ASSUME TableInv, NEW r \in Requests, NEW row \in Row,
           row.id = [by |-> r, plan |-> row.plan],
           row.plan # NoPlan =>
               /\ plans[row.plan] # NoPlan
               /\ row.number \in 1..plans[row.plan].count
               /\ row.amount = InstallmentAmount(plans[row.plan].total,
                                   plans[row.plan].count, row.number)
               /\ row.number > 1 => IsCharged(row.plan, row.number - 1),
           expenses' = expenses \cup {row},
           issued' = IF row.plan = NoPlan THEN issued
                     ELSE issued \cup {[by |-> r, plan |-> row.plan,
                                        number |-> row.number, amount |-> row.amount]},
           UNCHANGED <<methods, plans>>
    PROVE  /\ TableInv'
           /\ Grows
           /\ row.plan # NoPlan =>
                 \E i \in issued' : i.plan = row.plan /\ i.number = row.number
<1> DEFINE charge == [by |-> r, plan |-> row.plan, number |-> row.number,
                      amount |-> row.amount]
<1>1. row.plan # NoPlan => charge \in Charge /\ charge \in issued'
  BY DEF Row, Charge
<1>2. issued \subseteq issued' /\ PlanIds' = PlanIds /\ plans' = plans
  BY DEF PlanIds
<1>3. Grows
  BY <1>2 DEF Grows
<1>4. row.plan # NoPlan =>
         \E i \in issued' : i.plan = row.plan /\ i.number = row.number
  BY <1>1
<1>5. /\ methods' \in [Methods -> MethodType \cup {"DELETED"}]
      /\ plans' \in [Requests -> Plan \cup {NoPlan}]
      /\ expenses' \subseteq Row
      /\ issued' \subseteq Charge
      /\ (\A p \in PlanIds : plans[p].count <= plans[p].total)'
  BY <1>1, <1>2 DEF TableInv
<1>6. (\A e \in expenses : e.id.plan = e.plan)'
  BY DEF TableInv
<1>7. PlanProgress'
  BY <1>2 DEF TableInv, PlanProgress
<1>8. ChargesMatchPlan'
  <2>1. ASSUME NEW i \in issued'
        PROVE  LET p == plans[i.plan]
               IN  /\ p # NoPlan
                   /\ i.number \in 1..p.count
                   /\ i.amount = InstallmentAmount(p.total, p.count, i.number)
    <3>1. CASE i \in issued
      BY <3>1 DEF TableInv, ChargesMatchPlan
    <3>2. CASE row.plan # NoPlan /\ i = charge
      BY <3>2
    <3> QED BY <3>1, <3>2
  <2> QED BY <1>2, <2>1 DEF ChargesMatchPlan
<1>9. RowsAsCharged'
  <2>1. ASSUME NEW e \in expenses', e.plan # NoPlan
        PROVE  [by |-> e.id.by, plan |-> e.plan, number |-> e.number,
                amount |-> e.amount] \in issued'
    <3>1. CASE e \in expenses
      BY <1>2, <2>1, <3>1 DEF TableInv, RowsAsCharged
    <3>2. CASE e = row
      BY <1>1, <2>1, <3>2
    <3> QED BY <3>1, <3>2
  <2> QED BY <2>1 DEF RowsAsCharged
<1>10. NoGaps'
  <2>1. ASSUME NEW i \in issued', NEW n \in 1..i.number
        PROVE  \E j \in issued' : j.plan = i.plan /\ j.number = n
    <3>1. CASE i \in issued
      BY <1>2, <3>1 DEF TableInv, NoGaps
    <3>2. CASE row.plan # NoPlan /\ i = charge
      <4>1. i.plan = row.plan /\ i.number = row.number /\ row.number \in Nat
        BY <3>2 DEF Row
      <4>2. CASE n = row.number
        BY <1>1, <3>2, <4>1, <4>2
      <4>3. CASE n # row.number
        <5>1. row.number > 1 /\ n \in 1..(row.number - 1)
          BY <4>1, <4>3
        <5>2. PICK j \in issued : j.plan = row.plan /\ j.number = row.number - 1
          BY <3>2, <5>1 DEF IsCharged
        <5>3. \E k \in issued : k.plan = j.plan /\ k.number = n
          BY <5>1, <5>2 DEF TableInv, NoGaps
        <5> QED BY <1>2, <4>1, <5>2, <5>3
      <4> QED BY <4>2, <4>3
    <3> QED BY <3>1, <3>2
  <2>2. ASSUME NEW p \in PlanIds, plans[p].current > 1
        PROVE  \E i \in issued' : i.plan = p /\ i.number = plans[p].current
    BY <1>2, <2>2 DEF TableInv, NoGaps
  <2> QED BY <1>2, <2>1, <2>2 DEF NoGaps
<1> QED BY <1>3, <1>4, <1>5, <1>6, <1>7, <1>8, <1>9, <1>10 DEF TableInv

-----------------------------------------------------------------------------
(* Steps that leave the tables alone.                                      *)

\* A step that leaves the tables alone keeps what is said of them.
LEMMA TablesUnchanged ==
    ASSUME TableInv, UNCHANGED db
    PROVE  TableInv' /\ Grows /\ PlanIds' = PlanIds
BY DEF db, TableInv, Grows, PlanIds, PlanProgress, ChargesMatchPlan,
       RowsAsCharged, NoGaps

\* Moving request r on is all that happens to what requests know.
LEMMA Combine ==
    ASSUME IInv, NEW r \in Requests, LocalType', TableInv', Grows, RequestInv(r)',
           \A q \in Requests \ {r} :
               /\ plans[q] = NoPlan => plans'[q] = NoPlan
               /\ pc'[q] = pc[q] /\ body'[q] = body[q]
               /\ todo'[q] = todo[q] /\ job'[q] = job[q]
    PROVE  IInv'
<1>1. \A q \in Requests \ {r} : RequestInv(q)'
  BY OthersKeep DEF IInv
<1> QED BY <1>1 DEF IInv

\* Ending one request keeps what every request knows: the ended one knows nothing.
LEMMA EndKeepsRequests ==
    ASSUME LocalType, NEW r \in Requests, NEW outcome \in Ended, End(r, outcome)
    PROVE  /\ LocalType'
           /\ RequestInv(r)'
           /\ \A q \in Requests \ {r} :
                 /\ pc'[q] = pc[q] /\ body'[q] = body[q]
                 /\ todo'[q] = todo[q] /\ job'[q] = job[q]
<1>1. LocalType'
  BY DEF LocalType, End
<1>2. pc'[r] \in Ended /\ todo'[r] = {}
  BY DEF LocalType, End
<1>3. RequestInv(r)'
  BY <1>2 DEF RequestInv, Ended
<1>4. \A q \in Requests \ {r} :
         /\ pc'[q] = pc[q] /\ body'[q] = body[q]
         /\ todo'[q] = todo[q] /\ job'[q] = job[q]
  BY DEF LocalType, End
<1> QED BY <1>1, <1>3, <1>4

\* A request that ends and writes nothing keeps the invariant.
LEMMA EndKeeps ==
    ASSUME IInv, NEW r \in Requests, NEW outcome \in Ended, End(r, outcome),
           UNCHANGED db
    PROVE  IInv'
<1>1. TableInv' /\ Grows /\ plans' = plans
  BY TablesUnchanged DEF IInv, db
<1>2. LocalType
  BY DEF IInv
<1> QED BY <1>1, <1>2, EndKeepsRequests, Combine

\* So does one that is answered with a client error.
LEMMA RejectKeeps ==
    ASSUME IInv, NEW r \in Requests, Reject(r)
    PROVE  IInv'
BY EndKeeps DEF Reject, Ended

\* So does one that an error or a crash cuts short, wherever it is.
LEMMA AbortKeeps ==
    ASSUME IInv, NEW r \in Requests, Abort(r)
    PROVE  IInv'
BY EndKeeps DEF Abort, Ended

\* Where a request can be without a plan that it has read.
Awaiting == InFlight \ {"nextPlan", "readSplits", "insertNext", "advance"}

\* A request that starts knows what it was sent, and has read nothing yet.
LEMMA AcceptKeeps ==
    ASSUME IInv, NEW r \in Requests, pc[r] = "idle",
           NEW call \in CreateBodies \cup CloseBodies \cup PatchCall \cup DeleteCall,
           NEW step \in Awaiting,
           step = "insertPlan" => /\ call \in CreateBodies
                                  /\ call.installments # 0
                                  /\ call.installments <= call.amount,
           step = "insertRow" => call \in CreateBodies /\ call.installments = 0,
           step = "readPlans" => call \in CloseBodies,
           step \in {"checkMethod", "update"} =>
               call \in PatchCall /\ (call.amount # 0 => call.target.plan = NoPlan),
           step = "checkMethod" => call.method # NoMethod,
           step = "delete" => call \in DeleteCall,
           Accept(r, call, step)
    PROVE  IInv'
<1>1. UNCHANGED db /\ plans' = plans
  BY DEF Accept, db
<1>2. TableInv' /\ Grows
  BY <1>1, TablesUnchanged DEF IInv
<1>3. LocalType'
  BY DEF IInv, LocalType, Accept, Awaiting
<1>4. /\ pc'[r] = step /\ body'[r] = call /\ todo'[r] = todo[r]
      /\ plans[r] = NoPlan /\ issued' = issued
      /\ RequestInv(r)
  BY <1>1 DEF IInv, LocalType, Accept, RequestInv, db
<1>5. (\A s \in todo[r] :
          StillTrue(s) /\ (s.current > 1 => IsCharged(s.plan, s.current)))'
  BY <1>1, <1>4 DEF RequestInv, StillTrue, IsCharged
<1>6. RequestInv(r)'
  BY <1>1, <1>4, <1>5 DEF RequestInv, InFlight, Awaiting
<1>7. \A q \in Requests \ {r} :
         /\ pc'[q] = pc[q] /\ body'[q] = body[q]
         /\ todo'[q] = todo[q] /\ job'[q] = job[q]
  BY DEF IInv, LocalType, Accept
<1> QED BY <1>1, <1>2, <1>3, <1>6, <1>7, Combine

\* POST /expenses: the guards before the first write make the plan a good one.
LEMMA CreateStartKeeps ==
    ASSUME IInv, NEW r \in Requests, CreateStart(r)
    PROVE  IInv'
<1>1. PICK b \in CreateBodies :
         IF /\ IsMember(b.user, b.group)
            /\ Owns(b.user, b.method)
            /\ b.installments = 0 \/ FirstAmount(b) >= 1
         THEN Accept(r, b, IF b.installments = 0 THEN "insertRow" ELSE "insertPlan")
         ELSE Reject(r)
  BY DEF CreateStart
<1>2. CASE Reject(r)
  BY <1>2, RejectKeeps
<1>3. CASE b.installments = 0 /\ Accept(r, b, "insertRow")
  <2>1. pc[r] = "idle" /\ "insertRow" \in Awaiting
    BY DEF CreateStart, InFlight, Awaiting
  <2> QED BY <1>3, <2>1, AcceptKeeps
<1>4. CASE /\ b.installments # 0 /\ FirstAmount(b) >= 1
           /\ Accept(r, b, "insertPlan")
  <2>1. pc[r] = "idle" /\ "insertPlan" \in Awaiting
    BY DEF CreateStart, InFlight, Awaiting
  <2>2. b.amount \in Nat /\ b.installments \in Nat \ {0, 1}
    BY <1>4 DEF CreateBody
  <2>3. b.installments <= b.amount
    BY <1>4, <2>2, FirstInstallmentDecides DEF FirstAmount
  <2> QED BY <1>4, <2>1, <2>3, AcceptKeeps
<1> QED BY <1>1, <1>2, <1>3, <1>4

\* POST /expenses/close-cycle: the check of the card writes nothing.
LEMMA CloseStartKeeps ==
    ASSUME IInv, NEW r \in Requests, CloseStart(r)
    PROVE  IInv'
<1>1. PICK b \in CloseBodies : Accept(r, b, "readPlans") \/ Reject(r)
  BY DEF CloseStart
<1>2. pc[r] = "idle" /\ "readPlans" \in Awaiting
  BY DEF CloseStart, InFlight, Awaiting
<1> QED BY <1>1, <1>2, AcceptKeeps, RejectKeeps

\* PATCH /expenses/:id: the row that was checked says what the update may set.
LEMMA PatchStartKeeps ==
    ASSUME IInv, NEW r \in Requests, PatchStart(r)
    PROVE  IInv'
<1>1. PICK b \in PatchBodies, e \in expenses :
         LET call == [user |-> b.user, amount |-> b.amount,
                      method |-> b.method, target |-> e.id]
         IN  IF /\ IsMember(b.user, e.group)
                /\ b.amount = 0 \/ e.plan = NoPlan
             THEN Accept(r, call, IF b.method = NoMethod THEN "update"
                                  ELSE "checkMethod")
             ELSE Reject(r)
  BY DEF PatchStart, MayPatch
<1> DEFINE call == [user |-> b.user, amount |-> b.amount,
                    method |-> b.method, target |-> e.id]
<1>2. pc[r] = "idle" /\ {"update", "checkMethod"} \subseteq
                         Awaiting
  BY DEF PatchStart, InFlight, Awaiting
<1>3. e.id \in RowId /\ e.id.plan = e.plan
  BY DEF IInv, TableInv, Row
<1>4. call \in PatchCall
  BY <1>3 DEF PatchBody, PatchCall
<1>5. CASE Reject(r)
  BY <1>5, RejectKeeps
<1>6. CASE /\ b.amount = 0 \/ e.plan = NoPlan
           /\ Accept(r, call, IF b.method = NoMethod THEN "update" ELSE "checkMethod")
  <2>1. call.amount # 0 => call.target.plan = NoPlan
    BY <1>3, <1>6
  <2>2. call.method = b.method
    OBVIOUS
  <2> HIDE DEF call
  <2>3. CASE b.method = NoMethod
    BY <1>2, <1>4, <1>6, <2>1, <2>2, <2>3, AcceptKeeps
  <2>4. CASE b.method # NoMethod
    BY <1>2, <1>4, <1>6, <2>1, <2>2, <2>4, AcceptKeeps
  <2> QED BY <2>3, <2>4
<1> QED BY <1>1, <1>5, <1>6

\* DELETE /expenses/:id: the check of the membership writes nothing.
LEMMA DeleteStartKeeps ==
    ASSUME IInv, NEW r \in Requests, DeleteStart(r)
    PROVE  IInv'
<1>1. PICK u \in Deleters, e \in expenses :
         Accept(r, [user |-> u, target |-> e.id], "delete") \/ Reject(r)
  BY DEF DeleteStart
<1>2. pc[r] = "idle" /\ "delete" \in Awaiting
  BY DEF DeleteStart, InFlight, Awaiting
<1>3. [user |-> u, target |-> e.id] \in DeleteCall
  BY DEF IInv, TableInv, Row, DeleteCall
<1> QED BY <1>1, <1>2, <1>3, AcceptKeeps, RejectKeeps

-----------------------------------------------------------------------------
(* Steps that only read.                                                   *)

\* The same row, but for the splits.
Alike(x, e) ==
    /\ x.id = e.id /\ x.group = e.group /\ x.method = e.method
    /\ x.creator = e.creator /\ x.amount = e.amount
    /\ x.plan = e.plan /\ x.number = e.number

\* A row with the splits of another is a row, and nothing else of it changes.
LEMMA WithSplits ==
    ASSUME NEW e \in Row, NEW d \in Seq([user : Users, amount : Int])
    PROVE  LET x == [e EXCEPT !.splits = d]
           IN  /\ x \in Row /\ x.splits = d /\ Alike(x, e)
<1> DEFINE D == Seq([user : Users, amount : Int])
<1>1. Row = [id : RowId, group : Groups, method : Methods, creator : Users,
             amount : Nat \ {0}, plan : Requests \cup {NoPlan}, number : Nat,
             splits : D]
  BY DEF Row
<1> HIDE DEF D
<1>2. d \in D
  BY DEF D
<1> QED BY ONLY <1>1, <1>2, e \in Row DEF Alike

\* So is a row without any.
LEMMA EmptySplits ==
    ASSUME NEW e \in Row
    PROVE  LET x == [e EXCEPT !.splits = << >>]
           IN  /\ x \in Row /\ x.splits = << >> /\ Alike(x, e)
<1>1. PICK d : d = << >>
  OBVIOUS
<1>2. d \in Seq([user : Users, amount : Int])
  BY <1>1, EmptySeq
<1>3. LET x == [e EXCEPT !.splits = d]
      IN  /\ x \in Row /\ x.splits = d /\ Alike(x, e)
  BY <1>2, WithSplits
<1> QED BY <1>1, <1>3

\* closeCycle reads plans that are not complete, so their next installment exists.
LEMMA ReadPlansKeeps ==
    ASSUME IInv, NEW r \in Requests, ReadPlans(r)
    PROVE  IInv'
<1>1. UNCHANGED db /\ plans' = plans /\ issued' = issued
  BY DEF ReadPlans, db
<1>2. TableInv' /\ Grows
  BY <1>1, TablesUnchanged DEF IInv
<1> DEFINE active == ActivePlans(body[r].method)
<1>3. \A p \in active : /\ p \in Requests /\ plans[p] # NoPlan /\ plans[p] \in Plan
                        /\ plans[p].current < plans[p].count
  <2>1. ASSUME NEW p \in active
        PROVE  /\ p \in Requests /\ plans[p] # NoPlan /\ plans[p] \in Plan
               /\ plans[p].current < plans[p].count
    <3>1. p \in Requests /\ plans[p] # NoPlan /\ ~plans[p].completed
      BY DEF ActivePlans, PlanIds
    <3>2. plans[p] \in Plan
      BY <3>1 DEF IInv, TableInv
    <3>3. plans[p].current <= plans[p].count /\ plans[p].current # plans[p].count
      BY <3>1 DEF IInv, TableInv, PlanProgress, PlanIds
    <3> QED BY <3>1, <3>2, <3>3 DEF Plan
  <2> QED BY <2>1
<1>4. \A p \in active : Read(p) \in Snapshot
  BY <1>3 DEF Read, Snapshot, Plan
<1>5. /\ pc' = [pc EXCEPT ![r] = "nextPlan"]
      /\ todo' = [todo EXCEPT ![r] = {Read(p) : p \in active}]
      /\ body' = body /\ job' = job
  BY DEF ReadPlans
<1>6. LocalType'
  BY <1>4, <1>5 DEF IInv, LocalType, InFlight
<1>7. pc'[r] = "nextPlan" /\ todo'[r] = {Read(p) : p \in active}
  BY <1>5 DEF IInv, LocalType
<1>8. ASSUME NEW p \in active
      PROVE  (StillTrue(Read(p)) /\ (Read(p).current > 1 =>
                 IsCharged(Read(p).plan, Read(p).current)))'
  <2>1. p \in PlanIds
    BY <1>3 DEF PlanIds
  <2>2. plans[p].current > 1 => IsCharged(p, plans[p].current)
    BY <2>1 DEF IInv, TableInv, NoGaps, IsCharged
  <2>3. /\ Read(p).plan = p /\ Read(p).current = plans[p].current
        /\ Read(p).total = plans[p].total /\ Read(p).count = plans[p].count
        /\ Read(p)' = Read(p)
    BY <1>1 DEF Read
  <2> QED BY <1>1, <1>3, <2>2, <2>3 DEF StillTrue, IsCharged
<1>9. (\A s \in todo[r] :
          StillTrue(s) /\ (s.current > 1 => IsCharged(s.plan, s.current)))'
  <2>1. ASSUME NEW s \in todo'[r]
        PROVE  (StillTrue(s) /\ (s.current > 1 => IsCharged(s.plan, s.current)))'
    <3>1. PICK p \in active : s = Read(p)
      BY <1>7
    <3>2. Read(p)' = Read(p)
      BY <1>1 DEF Read
    <3> QED BY <1>1, <1>8, <3>1, <3>2 DEF StillTrue, IsCharged
  <2> QED BY <2>1
<1>10. RequestInv(r)'
  BY <1>7, <1>9 DEF RequestInv
<1>11. \A q \in Requests \ {r} :
          /\ pc'[q] = pc[q] /\ body'[q] = body[q]
          /\ todo'[q] = todo[q] /\ job'[q] = job[q]
  BY <1>5 DEF IInv, LocalType
<1> QED BY <1>1, <1>2, <1>6, <1>10, <1>11, Combine

\* The latest row of a plan is one of its installments.
LEMMA NextPlanKeeps ==
    ASSUME IInv, NEW r \in Requests, NextPlan(r)
    PROVE  IInv'
<1>1. UNCHANGED db /\ plans' = plans /\ issued' = issued /\ body' = body
  BY DEF NextPlan, Left, db
<1>2. TableInv' /\ Grows
  BY <1>1, TablesUnchanged DEF IInv
<1>3. PICK s \in todo[r] :
         /\ todo' = [todo EXCEPT ![r] = @ \ {s}]
         /\ \/ /\ RowsOf(s.plan) = {}
               /\ UNCHANGED <<pc, job>>
            \/ \E e \in Latest(s.plan) :
                  /\ job' = [job EXCEPT ![r] =
                               [plan |-> s, source |-> [e EXCEPT !.splits = << >>]]]
                  /\ pc' = [pc EXCEPT ![r] = "readSplits"]
  BY DEF NextPlan, Left
<1>4. /\ pc[r] = "nextPlan" /\ todo'[r] = todo[r] \ {s} /\ s \in Snapshot
      /\ todo[r] \subseteq Snapshot
  BY <1>3 DEF NextPlan, Left, IInv, LocalType
<1>5. /\ StillTrue(s) /\ (s.current > 1 => IsCharged(s.plan, s.current))
      /\ \A t \in todo[r] :
            StillTrue(t) /\ (t.current > 1 => IsCharged(t.plan, t.current))
  BY DEF IInv, RequestInv
<1>6. (\A t \in todo[r] :
          StillTrue(t) /\ (t.current > 1 => IsCharged(t.plan, t.current)))'
  BY <1>1, <1>4, <1>5 DEF StillTrue, IsCharged
<1>7. CASE UNCHANGED <<pc, job>>
  <2>1. LocalType'
    BY <1>1, <1>3, <1>4, <1>7 DEF IInv, LocalType
  <2>2. RequestInv(r)'
    BY <1>4, <1>6, <1>7 DEF RequestInv
  <2>3. \A q \in Requests \ {r} :
           /\ pc'[q] = pc[q] /\ body'[q] = body[q]
           /\ todo'[q] = todo[q] /\ job'[q] = job[q]
    BY <1>1, <1>3, <1>7 DEF IInv, LocalType
  <2> QED BY <1>1, <1>2, <2>1, <2>2, <2>3, Combine
<1>8. ASSUME NEW e \in Latest(s.plan),
             job' = [job EXCEPT ![r] =
                       [plan |-> s, source |-> [e EXCEPT !.splits = << >>]]],
             pc' = [pc EXCEPT ![r] = "readSplits"]
      PROVE  IInv'
  <2>1. e \in expenses /\ e.plan = s.plan /\ e \in Row
    BY DEF Latest, RowsOf, IInv, TableInv
  <2>2. s.plan \in Requests /\ s.plan # NoPlan /\ s.current \in Nat \ {0}
    BY <1>4 DEF Snapshot
  <2>3. PICK source : source = [e EXCEPT !.splits = << >>]
    OBVIOUS
  <2>4. source \in Row /\ source.plan = s.plan
    BY <2>1, <2>3, EmptySplits DEF Alike
  <2>5. [plan |-> s, source |-> source] \in Job
    BY <1>4, <2>4 DEF Job
  <2>6. LocalType'
    BY <1>1, <1>3, <1>4, <1>8, <2>3, <2>5 DEF IInv, LocalType, InFlight
  <2>7. IsCharged(s.plan, s.current)
    <3>1. CASE s.current > 1
      BY <1>5, <3>1
    <3>2. CASE s.current = 1
      <4>1. PICK i \in issued : i.plan = s.plan /\ i.number = e.number
        BY <2>1, <2>2 DEF IInv, TableInv, RowsAsCharged
      <4>2. i.number \in 1..plans[i.plan].count
        BY DEF IInv, TableInv, ChargesMatchPlan
      <4>3. plans[i.plan].count \in Nat
        BY <4>1, <1>5, <2>2 DEF StillTrue, IInv, TableInv, Plan
      <4>4. 1 \in 1..i.number
        BY <4>2, <4>3
      <4> QED BY <3>2, <4>1, <4>4 DEF IInv, TableInv, NoGaps, IsCharged
    <3> QED BY <2>2, <3>1, <3>2
  <2>8. pc'[r] = "readSplits" /\ job'[r] = [plan |-> s, source |-> source]
    BY <1>8, <2>3 DEF IInv, LocalType
  <2>9. /\ (job[r] \in Job /\ StillTrue(job[r].plan))'
        /\ (IsCharged(job[r].plan.plan, job[r].plan.current)
            /\ job[r].source.plan # NoPlan)'
    BY <1>1, <1>5, <2>2, <2>4, <2>5, <2>7, <2>8 DEF StillTrue, IsCharged
  <2>10. RequestInv(r)'
    BY <1>6, <2>8, <2>9 DEF RequestInv
  <2>11. \A q \in Requests \ {r} :
            /\ pc'[q] = pc[q] /\ body'[q] = body[q]
            /\ todo'[q] = todo[q] /\ job'[q] = job[q]
    BY <1>1, <1>3, <1>8 DEF IInv, LocalType
  <2> QED BY <1>1, <1>2, <2>6, <2>10, <2>11, Combine
<1> QED BY <1>3, <1>7, <1>8

\* The splits come with the row that has the id of the one held, or not at all.
LEMMA SplitsAreRead ==
    ASSUME IInv, NEW r \in Requests, ReadSplits(r)
    PROVE  /\ pc[r] = "readSplits" /\ pc' = [pc EXCEPT ![r] = "insertNext"]
           /\ UNCHANGED <<body, todo, db>>
           /\ job' \in [Requests -> Job \cup {NoJob}]
           /\ \A q \in Requests \ {r} : job'[q] = job[q]
           /\ job[r] \in Job /\ job'[r] \in Job /\ job'[r].plan = job[r].plan
           /\ Alike(job'[r].source, job[r].source)
           /\ \/ WithId(job[r].source.id) = {} /\ job'[r] = job[r]
              \/ \E e \in WithId(job[r].source.id) : job'[r].source.splits = e.splits
<1>1. /\ pc[r] = "readSplits" /\ pc' = [pc EXCEPT ![r] = "insertNext"]
      /\ UNCHANGED <<body, todo, db>>
  BY DEF ReadSplits
<1>2. job[r] \in Job
  BY <1>1 DEF IInv, RequestInv
<1>3. CASE WithId(job[r].source.id) = {} /\ job' = job
  BY <1>1, <1>2, <1>3 DEF IInv, LocalType, Alike
<1>4. ASSUME NEW e \in WithId(job[r].source.id),
             job' = [job EXCEPT ![r].source.splits = e.splits]
      PROVE  /\ job' \in [Requests -> Job \cup {NoJob}]
             /\ \A q \in Requests \ {r} : job'[q] = job[q]
             /\ job'[r] \in Job /\ job'[r].plan = job[r].plan
             /\ Alike(job'[r].source, job[r].source)
             /\ job'[r].source.splits = e.splits
  <2>1. e \in Row /\ job[r].source \in Row /\ job[r].plan \in Snapshot
    BY <1>2 DEF WithId, IInv, TableInv, Job
  <2>2. PICK d \in Seq([user : Users, amount : Int]) : d = e.splits
    BY <2>1 DEF Row
  <2>3. PICK source : source = [job[r].source EXCEPT !.splits = d]
    OBVIOUS
  <2>4. source \in Row /\ source.splits = d /\ Alike(source, job[r].source)
    <3>1. LET x == [job[r].source EXCEPT !.splits = d]
          IN  x \in Row /\ x.splits = d /\ Alike(x, job[r].source)
      BY <2>1, WithSplits
    <3> QED BY ONLY <2>3, <3>1
  <2>5. [job[r] EXCEPT !.source.splits = d] = [plan |-> job[r].plan, source |-> source]
    <3>1. [job[r] EXCEPT !.source.splits = d] =
             [job[r] EXCEPT !.source = [job[r].source EXCEPT !.splits = d]]
      OBVIOUS
    <3>2. [job[r] EXCEPT !.source.splits = d] = [job[r] EXCEPT !.source = source]
      BY ONLY <2>3, <3>1, Zenon
    <3>3. [job[r] EXCEPT !.source = source] = [plan |-> job[r].plan, source |-> source]
      <4>1. ASSUME NEW P, NEW R, NEW j \in [plan : P, source : R]
            PROVE  [j EXCEPT !.source = source] = [plan |-> j.plan, source |-> source]
        OBVIOUS
      <4> QED BY ONLY <1>2, <4>1 DEF Job
    <3> QED BY ONLY <3>2, <3>3, Zenon
  <2>6. [plan |-> job[r].plan, source |-> source] \in Job
    BY <2>1, <2>4 DEF Job
  <2>7. job' = [job EXCEPT ![r] = [plan |-> job[r].plan, source |-> source]]
    BY <1>4, <2>2, <2>5
  <2>8. /\ job' \in [Requests -> Job \cup {NoJob}]
        /\ \A q \in Requests \ {r} : job'[q] = job[q]
        /\ job'[r] = [plan |-> job[r].plan, source |-> source]
    BY <2>6, <2>7 DEF IInv, LocalType
  <2>9. job'[r].source = source /\ job'[r].plan = job[r].plan /\ job'[r] \in Job
    BY <2>6, <2>8
  <2> QED BY <2>2, <2>4, <2>8, <2>9
<1> QED BY <1>1, <1>2, <1>3, <1>4 DEF ReadSplits

\* What is known of the plan stays true while its row gets its splits.
LEMMA ReadSplitsKeeps ==
    ASSUME IInv, NEW r \in Requests, ReadSplits(r)
    PROVE  IInv'
<1>1. /\ UNCHANGED db /\ plans' = plans /\ issued' = issued
      /\ body' = body /\ todo' = todo
      /\ pc' = [pc EXCEPT ![r] = "insertNext"] /\ pc[r] = "readSplits"
  BY DEF ReadSplits, db
<1>2. TableInv' /\ Grows
  BY <1>1, TablesUnchanged DEF IInv
<1>3. /\ job[r] \in Job /\ StillTrue(job[r].plan)
      /\ IsCharged(job[r].plan.plan, job[r].plan.current)
      /\ job[r].source.plan # NoPlan
  BY <1>1 DEF IInv, RequestInv
<1>4. /\ job' \in [Requests -> Job \cup {NoJob}]
      /\ job'[r] \in Job /\ job'[r].plan = job[r].plan
      /\ job'[r].source.plan = job[r].source.plan
      /\ \A q \in Requests \ {r} : job'[q] = job[q]
  BY SplitsAreRead DEF Alike
<1>5. LocalType'
  BY <1>1, <1>4 DEF IInv, LocalType, InFlight
<1>6. pc'[r] = "insertNext" /\ todo'[r] = todo[r]
  BY <1>1 DEF IInv, LocalType
<1>7. (\A t \in todo[r] :
          StillTrue(t) /\ (t.current > 1 => IsCharged(t.plan, t.current)))'
  BY <1>1, <1>6 DEF IInv, RequestInv, StillTrue, IsCharged
<1>8. RequestInv(r)'
  BY <1>1, <1>3, <1>4, <1>6, <1>7 DEF RequestInv, StillTrue, IsCharged
<1>9. \A q \in Requests \ {r} :
         /\ pc'[q] = pc[q] /\ body'[q] = body[q]
         /\ todo'[q] = todo[q] /\ job'[q] = job[q]
  BY <1>1, <1>4 DEF IInv, LocalType
<1> QED BY <1>1, <1>2, <1>5, <1>8, <1>9, Combine

\* closeCycle ends when no plan is left to come to.
LEMMA CloseEndKeeps ==
    ASSUME IInv, NEW r \in Requests, CloseEnd(r)
    PROVE  IInv'
BY EndKeeps DEF CloseEnd, Ended

\* The check of a patched payment method writes nothing.
LEMMA CheckMethodKeeps ==
    ASSUME IInv, NEW r \in Requests, CheckMethod(r)
    PROVE  IInv'
<1>1. CASE Reject(r)
  BY <1>1, RejectKeeps
<1>2. CASE Go(r, "update") /\ UNCHANGED db
  <2>1. TableInv' /\ Grows /\ plans' = plans /\ issued' = issued
    BY <1>2, TablesUnchanged DEF IInv, db
  <2>2. LocalType'
    BY <1>2 DEF IInv, LocalType, Go, InFlight
  <2>3. /\ pc[r] = "checkMethod" /\ pc'[r] = "update" /\ body'[r] = body[r]
        /\ todo'[r] = todo[r] /\ RequestInv(r)
    BY <1>2 DEF CheckMethod, Go, IInv, LocalType
  <2>4. (\A s \in todo[r] :
            StillTrue(s) /\ (s.current > 1 => IsCharged(s.plan, s.current)))'
    BY <2>1, <2>3 DEF RequestInv, StillTrue, IsCharged
  <2>5. RequestInv(r)'
    BY <2>3, <2>4 DEF RequestInv
  <2>6. \A q \in Requests \ {r} :
           /\ pc'[q] = pc[q] /\ body'[q] = body[q]
           /\ todo'[q] = todo[q] /\ job'[q] = job[q]
    BY <1>2 DEF IInv, LocalType, Go
  <2> QED BY <2>1, <2>2, <2>5, <2>6, Combine
<1> QED BY <1>1, <1>2 DEF CheckMethod

-----------------------------------------------------------------------------
(* Steps that write.                                                       *)

\* A new plan is at its first installment and has nothing charged yet.
LEMMA InsertPlanKeeps ==
    ASSUME IInv, NEW r \in Requests, InsertPlan(r)
    PROVE  IInv'
<1> DEFINE b == body[r]
           row == [method |-> b.method, total |-> b.amount,
                   count |-> b.installments, current |-> 1, completed |-> FALSE]
<1>1. CASE End(r, "failed") /\ UNCHANGED db
  BY <1>1, EndKeeps DEF Ended
<1>2. CASE /\ plans' = [plans EXCEPT ![r] = row]
           /\ Go(r, "insertRow")
           /\ UNCHANGED <<methods, expenses, issued>>
  <2>1. /\ pc[r] = "insertPlan" /\ plans[r] = NoPlan
        /\ b \in CreateBodies /\ b.installments # 0 /\ b.installments <= b.amount
    BY DEF InsertPlan, IInv, RequestInv
  <2>2. /\ b.method \in Methods /\ b.amount \in Nat \ {0}
        /\ b.installments \in Nat \ {0, 1}
    BY <2>1 DEF CreateBody
  <2>3. row \in Plan /\ row # NoPlan
    <3>1. row \in Plan
      BY <2>2 DEF Plan
    <3>2. \A x \in Plan : x # NoPlan
      BY NullsAssumption
    <3> QED BY <3>1, <3>2
  <2>4. plans'[r] = row /\ \A p \in Requests \ {r} : plans'[p] = plans[p]
    BY <1>2 DEF IInv, TableInv
  <2>5. PlanIds' = PlanIds \cup {r} /\ r \notin PlanIds
    BY <2>1, <2>3, <2>4 DEF PlanIds
  <2>6. Grows
    BY <1>2, <2>1, <2>4 DEF Grows
  <2>7. \A i \in issued : i.plan # r /\ i.plan \in Requests
    BY <2>1 DEF IInv, TableInv, ChargesMatchPlan, Charge
  <2>8. TableInv'
    <3>1. /\ methods' \in [Methods -> MethodType \cup {"DELETED"}]
          /\ plans' \in [Requests -> Plan \cup {NoPlan}]
          /\ expenses' \subseteq Row
          /\ issued' \subseteq Charge
      BY <1>2, <2>3 DEF IInv, TableInv
    <3>2. (\A p \in PlanIds : plans[p].count <= plans[p].total)'
      BY <2>1, <2>4, <2>5 DEF IInv, TableInv, PlanIds
    <3>3. (\A e \in expenses : e.id.plan = e.plan)'
      BY <1>2 DEF IInv, TableInv
    <3>4. PlanProgress'
      BY <2>2, <2>4, <2>5 DEF IInv, TableInv, PlanProgress, PlanIds
    <3>5. ChargesMatchPlan'
      BY <1>2, <2>4, <2>7 DEF IInv, TableInv, ChargesMatchPlan
    <3>6. RowsAsCharged'
      BY <1>2 DEF IInv, TableInv, RowsAsCharged
    <3>7. NoGaps'
      BY <1>2, <2>4, <2>5 DEF IInv, TableInv, NoGaps, PlanIds
    <3> QED BY <3>1, <3>2, <3>3, <3>4, <3>5, <3>6, <3>7 DEF TableInv
  <2>9. LocalType'
    BY <1>2 DEF IInv, LocalType, Go, InFlight
  <2>10. pc'[r] = "insertRow" /\ body'[r] = b /\ todo'[r] = todo[r]
    BY <1>2 DEF IInv, LocalType, Go
  <2>11. (\A s \in todo[r] :
             StillTrue(s) /\ (s.current > 1 => IsCharged(s.plan, s.current)))'
    <3>1. \A s \in todo[r] : StillTrue(s) /\ s.plan \in Requests
                             /\ (s.current > 1 => IsCharged(s.plan, s.current))
      BY DEF IInv, RequestInv, LocalType, Snapshot
    <3>2. \A s \in todo[r] : s.plan # r
      BY <2>1, <3>1 DEF StillTrue
    <3> QED BY <1>2, <2>4, <2>10, <3>1, <3>2 DEF StillTrue, IsCharged
  <2>12. RequestInv(r)'
    BY <2>1, <2>3, <2>4, <2>10, <2>11 DEF RequestInv
  <2>13. \A q \in Requests \ {r} :
            /\ plans[q] = NoPlan => plans'[q] = NoPlan
            /\ pc'[q] = pc[q] /\ body'[q] = body[q]
            /\ todo'[q] = todo[q] /\ job'[q] = job[q]
    BY <1>2, <2>4 DEF IInv, LocalType, Go
  <2> QED BY <2>6, <2>8, <2>9, <2>12, <2>13, Combine
<1> QED BY <1>1, <1>2 DEF InsertPlan

\* The row a create inserts is typed, is divided, and is the first of its plan.
LEMMA NewRowIsGood ==
    ASSUME IInv, NEW r \in Requests, pc[r] = "insertRow",
           LET b == body[r]
               amount == IF b.installments = 0 THEN b.amount ELSE FirstAmount(b)
           IN  \/ b.group \in DefaultGroups
               \/ SplitAccepted(b.split, amount, Members[b.group])
    PROVE  /\ NewRow(r) \in Row
           /\ NewRow(r).id = [by |-> r, plan |-> NewRow(r).plan]
           /\ Whole(NewRow(r))
           /\ NewRow(r).plan # NoPlan =>
                 /\ NewRow(r).plan = r /\ plans[r] # NoPlan
                 /\ NewRow(r).number = 1 /\ 1 \in 1..plans[r].count
                 /\ NewRow(r).amount = InstallmentAmount(plans[r].total,
                                            plans[r].count, 1)
<1> DEFINE b == body[r]
           inPlan == b.installments # 0
           amount == IF inPlan THEN FirstAmount(b) ELSE b.amount
           row == NewRow(r)
           built == BuildSplits(b.split, amount, Members[b.group])
<1>1. b \in CreateBodies /\ b \in CreateBody
  BY DEF IInv, RequestInv
<1>2. /\ b.user \in Users /\ b.group \in Groups /\ b.method \in Methods
      /\ b.amount \in Nat \ {0} /\ b.installments \in Nat \ {1} /\ b.split \in Split
  BY <1>1 DEF CreateBody
<1>3. inPlan => /\ plans[r] # NoPlan /\ plans[r] \in Plan
                /\ plans[r].total = b.amount /\ plans[r].count = b.installments
                /\ b.installments <= b.amount
  BY DEF IInv, RequestInv, TableInv, PlanIds
<1>4. amount \in Nat \ {0}
  <2>1. CASE inPlan
    <3>1. b.installments \in Nat \ {0} /\ 1 \in 1..b.installments /\ b.amount \in Nat
      BY <1>2, <2>1
    <3> QED BY <1>3, <2>1, <3>1, InstallmentsArePositive DEF FirstAmount
  <2>2. CASE ~inPlan
    BY <1>2, <2>2
  <2> QED BY <2>1, <2>2
<1>5. b.group \in DefaultGroups \/ SplitAccepted(b.split, amount, Members[b.group])
  OBVIOUS
<1>6. b.group \notin DefaultGroups =>
        built \in DivisionAmong(Users) /\ built # << >> /\ SplitSum(built) = amount
  <2>1. Members[b.group] \in Seq(Users)
    BY <1>2
  <2>2. b.split.members \in MembersAmong(Users)
    BY <1>2 DEF Split, MembersAmong
  <2> HIDE DEF amount, b
  <2> QED BY <1>4, <1>5, <2>1, <2>2, BuiltSplitsAddUp
<1>7. << >> \in DivisionAmong(Users)
  BY EmptySeq DEF DivisionAmong
<1>8. row = [id |-> [by |-> r, plan |-> IF inPlan THEN r ELSE NoPlan],
             group |-> b.group, method |-> b.method, creator |-> b.user,
             amount |-> amount,
             plan |-> IF inPlan THEN r ELSE NoPlan,
             number |-> IF inPlan THEN 1 ELSE 0,
             splits |-> IF b.group \in DefaultGroups THEN << >> ELSE built]
  BY DEF NewRow
<1>9. DivisionAmong(Users) = Seq([user : Users, amount : Int])
  BY DEF DivisionAmong
<1>10. row.splits \in DivisionAmong(Users)
  BY <1>6, <1>7, <1>8
<1>11. row \in Row
  <2>1. /\ row.id \in RowId /\ row.plan \in Requests \cup {NoPlan} /\ row.number \in Nat
        /\ row.group \in Groups /\ row.method \in Methods /\ row.creator \in Users
        /\ row.amount \in Nat \ {0}
    BY <1>2, <1>4, <1>8 DEF RowId
  <2> DEFINE D == DivisionAmong(Users)
  <2>2. Row = [id : RowId, group : Groups, method : Methods, creator : Users,
               amount : Nat \ {0}, plan : Requests \cup {NoPlan}, number : Nat,
               splits : D]
    BY <1>9 DEF Row
  <2>3. row = [id |-> row.id, group |-> row.group, method |-> row.method,
               creator |-> row.creator, amount |-> row.amount, plan |-> row.plan,
               number |-> row.number, splits |-> row.splits]
    BY <1>8
  <2> HIDE DEF row, D
  <2> QED BY <1>10, <2>1, <2>2, <2>3 DEF D
<1>12. row.id = [by |-> r, plan |-> row.plan]
  BY <1>8
<1>13. Whole(row)
  BY <1>6, <1>8 DEF Whole
<1>14. row.plan # NoPlan =>
         /\ row.plan = r /\ plans[r] # NoPlan
         /\ row.number = 1 /\ 1 \in 1..plans[r].count
         /\ row.amount = InstallmentAmount(plans[r].total, plans[r].count, 1)
  BY <1>2, <1>3, <1>8 DEF FirstAmount
<1> HIDE DEF row
<1> QED BY <1>11, <1>12, <1>13, <1>14 DEF row

\* The row of a create is an expense by itself or the first installment of its plan.
LEMMA InsertRowKeeps ==
    ASSUME IInv, NEW r \in Requests, InsertRow(r)
    PROVE  IInv'
<1> DEFINE b == body[r]
           amount == IF b.installments = 0 THEN b.amount ELSE FirstAmount(b)
           row == NewRow(r)
           divisible == \/ b.group \in DefaultGroups
                        \/ SplitAccepted(b.split, amount, Members[b.group])
<1>1. pc[r] = "insertRow"
  BY DEF InsertRow
<1>2. CASE Reject(r)
  BY <1>2, RejectKeeps
<1>3. CASE divisible /\ InsertExpense(r, row, End(r, "done"))
  <2>1. /\ row \in Row /\ row.id = [by |-> r, plan |-> row.plan]
        /\ row.plan # NoPlan =>
              /\ row.plan = r /\ plans[r] # NoPlan
              /\ row.number = 1 /\ 1 \in 1..plans[r].count
              /\ row.amount = InstallmentAmount(plans[r].total, plans[r].count, 1)
    BY <1>1, <1>3, NewRowIsGood
  <2> HIDE DEF row
  <2>2. CASE End(r, "failed") /\ UNCHANGED db
    BY <2>2, EndKeeps DEF Ended
  <2>3. CASE /\ expenses' = expenses \cup {row}
             /\ issued' = IF row.plan = NoPlan THEN issued
                          ELSE issued \cup {[by |-> r, plan |-> row.plan,
                                             number |-> row.number,
                                             amount |-> row.amount]}
             /\ End(r, "done")
             /\ UNCHANGED <<methods, plans>>
    <3>1. row.plan # NoPlan =>
            /\ plans[row.plan] # NoPlan
            /\ row.number \in 1..plans[row.plan].count
            /\ row.amount = InstallmentAmount(plans[row.plan].total,
                                plans[row.plan].count, row.number)
            /\ row.number > 1 => IsCharged(row.plan, row.number - 1)
      BY <2>1
    <3>2. TableInv' /\ Grows
      BY <2>1, <2>3, <3>1, InsertKeepsTables DEF IInv
    <3>3. LocalType /\ plans' = plans /\ "done" \in Ended
      BY <2>3 DEF IInv, Ended
    <3> QED BY <2>3, <3>2, <3>3, EndKeepsRequests, Combine
  <2> QED BY <1>3, <2>2, <2>3 DEF InsertExpense
<1> QED BY <1>2, <1>3 DEF InsertRow

\* The row a close clones is typed, is divided if what it clones is, and is the next
\* of its plan.
LEMMA NextRowIsGood ==
    ASSUME IInv, NEW r \in Requests, pc[r] = "insertNext"
    PROVE  /\ NextRow(r) \in Row
           /\ NextRow(r).id = [by |-> r, plan |-> NextRow(r).plan]
           /\ Whole(job[r].source) => Whole(NextRow(r))
           /\ job[r].source.splits = << >> => NextRow(r).splits = << >>
           /\ NextRow(r).plan # NoPlan
           /\ NextRow(r).plan = job[r].plan.plan
           /\ NextRow(r).number = job[r].plan.current + 1
           /\ plans[NextRow(r).plan] # NoPlan
           /\ NextRow(r).number \in 1..plans[NextRow(r).plan].count
           /\ NextRow(r).amount = InstallmentAmount(plans[NextRow(r).plan].total,
                                      plans[NextRow(r).plan].count, NextRow(r).number)
           /\ IsCharged(NextRow(r).plan, NextRow(r).number - 1)
<1> DEFINE s == job[r].plan
           source == job[r].source
           amount == InstallmentAmount(s.total, s.count, s.current + 1)
           scaled == ScaleSplits(source.splits, source.amount, amount)
           row == NextRow(r)
<1>1. /\ s \in Snapshot /\ source \in Row /\ StillTrue(s)
      /\ IsCharged(s.plan, s.current)
  BY DEF IInv, RequestInv, Job
<1>2. /\ s.plan \in Requests /\ s.plan # NoPlan /\ s.total \in Nat \ {0}
      /\ s.count \in Nat \ {0, 1} /\ s.current \in Nat \ {0}
  BY <1>1 DEF Snapshot
<1>3. /\ plans[s.plan] # NoPlan /\ plans[s.plan].total = s.total
      /\ plans[s.plan].count = s.count /\ s.current < s.count /\ s.count <= s.total
  BY <1>1, <1>2 DEF StillTrue, IInv, TableInv, PlanIds
<1>4. s.current + 1 \in 1..s.count
  BY <1>2, <1>3
<1>5. amount \in Nat \ {0}
  <2> HIDE DEF s
  <2> QED BY <1>2, <1>3, <1>4, InstallmentsArePositive
<1>6. source.splits \in DivisionAmong(Users) /\ source.amount \in Nat \ {0}
  BY <1>1 DEF Row, DivisionAmong
<1>7. /\ scaled \in DivisionAmong(Users) /\ Len(scaled) = Len(source.splits)
      /\ source.splits # << >> => SplitSum(scaled) = amount
  <2> HIDE DEF source, amount
  <2> QED BY <1>5, <1>6, ScaledSplitsAddUp
<1>8. (scaled = << >>) <=> (source.splits = << >>)
  <2> HIDE DEF source, scaled
  <2> QED BY <1>6, <1>7, EmptySeq DEF DivisionAmong
<1>9. row = [id |-> [by |-> r, plan |-> s.plan],
             group |-> source.group, method |-> source.method,
             creator |-> source.creator, amount |-> amount,
             plan |-> s.plan, number |-> s.current + 1, splits |-> scaled]
  BY DEF NextRow
<1>10. /\ source.group \in Groups /\ source.method \in Methods
       /\ source.creator \in Users
  BY <1>1 DEF Row
<1> HIDE DEF scaled, amount, source, s, row
<1>11. row \in Row
  <2> DEFINE D == DivisionAmong(Users)
  <2>1. Row = [id : RowId, group : Groups, method : Methods, creator : Users,
               amount : Nat \ {0}, plan : Requests \cup {NoPlan}, number : Nat,
               splits : D]
    BY DEF Row, DivisionAmong
  <2>2. [by |-> r, plan |-> s.plan] \in RowId /\ s.current + 1 \in Nat
    BY <1>2 DEF RowId
  <2> HIDE DEF D
  <2> QED BY <1>2, <1>5, <1>7, <1>9, <1>10, <2>1, <2>2 DEF D
<1>12. /\ Whole(source) => Whole(row)
       /\ source.splits = << >> => row.splits = << >>
  BY <1>7, <1>8, <1>9 DEF Whole
<1>13. /\ row.plan = s.plan /\ row.number = s.current + 1
       /\ row.id = [by |-> r, plan |-> row.plan]
       /\ row.amount = InstallmentAmount(s.total, s.count, s.current + 1)
  BY <1>9 DEF amount
<1>14. row.number - 1 = s.current
  BY <1>2, <1>13
<1> QED BY <1>1, <1>2, <1>3, <1>4, <1>11, <1>12, <1>13, <1>14 DEF row, s, source

\* The row of a closeCycle is the installment after the current one it read.
LEMMA InsertNextKeeps ==
    ASSUME IInv, NEW r \in Requests, InsertNext(r)
    PROVE  IInv'
<1> DEFINE row == NextRow(r)
           s == job[r].plan
<1>1. pc[r] = "insertNext"
  BY DEF InsertNext
<1>2. /\ row \in Row /\ row.id = [by |-> r, plan |-> row.plan]
      /\ row.plan # NoPlan /\ row.plan = s.plan
      /\ row.number = s.current + 1
      /\ plans[row.plan] # NoPlan
      /\ row.number \in 1..plans[row.plan].count
      /\ row.amount = InstallmentAmount(plans[row.plan].total,
                          plans[row.plan].count, row.number)
      /\ IsCharged(row.plan, row.number - 1)
  BY <1>1, NextRowIsGood
<1> HIDE DEF row
<1>3. CASE End(r, "failed") /\ UNCHANGED db
  BY <1>3, EndKeeps DEF Ended
<1>4. CASE /\ expenses' = expenses \cup {row}
           /\ issued' = IF row.plan = NoPlan THEN issued
                        ELSE issued \cup {[by |-> r, plan |-> row.plan,
                                           number |-> row.number,
                                           amount |-> row.amount]}
           /\ Go(r, "advance")
           /\ UNCHANGED <<methods, plans>>
  <2>1. /\ TableInv' /\ Grows
        /\ \E i \in issued' : i.plan = row.plan /\ i.number = row.number
    <3>1. TableInv
      BY DEF IInv
    <3> QED BY ONLY <1>2, <1>4, <3>1, r \in Requests, InsertKeepsTables
  <2>2. LocalType'
    <3>1. /\ pc' = [pc EXCEPT ![r] = "advance"] /\ UNCHANGED <<body, todo, job>>
      BY <1>4 DEF Go
    <3> QED BY <3>1 DEF IInv, LocalType, InFlight
  <2>3. /\ pc'[r] = "advance" /\ job'[r] = job[r] /\ todo'[r] = todo[r]
        /\ plans' = plans /\ issued \subseteq issued'
    BY <1>4, <2>1 DEF IInv, LocalType, Go, Grows
  <2>4. (\A t \in todo[r] :
            StillTrue(t) /\ (t.current > 1 => IsCharged(t.plan, t.current)))'
    BY <2>3 DEF IInv, RequestInv, StillTrue, IsCharged
  <2>5. (job[r] \in Job /\ StillTrue(job[r].plan))'
    BY <1>1, <2>3 DEF IInv, RequestInv, StillTrue
  <2>6. IsCharged(job[r].plan.plan, job[r].plan.current + 1)'
    BY <1>2, <2>1, <2>3 DEF IsCharged
  <2>7. RequestInv(r)'
    BY <2>3, <2>4, <2>5, <2>6 DEF RequestInv
  <2>8. \A q \in Requests \ {r} :
           /\ pc'[q] = pc[q] /\ body'[q] = body[q]
           /\ todo'[q] = todo[q] /\ job'[q] = job[q]
    BY <1>4 DEF IInv, LocalType, Go
  <2> QED BY <2>1, <2>2, <2>3, <2>7, <2>8, Combine
<1> QED BY <1>3, <1>4 DEF InsertNext, InsertExpense, row

\* A plan is set to an installment that is charged by then, and is complete at the last.
LEMMA AdvanceKeeps ==
    ASSUME IInv, NEW r \in Requests, Advance(r)
    PROVE  IInv'
<1> DEFINE s == job[r].plan
           p == s.plan
           next == s.current + 1
<1>1. /\ pc[r] = "advance" /\ s \in Snapshot /\ StillTrue(s)
      /\ IsCharged(p, next)
  BY DEF Advance, IInv, RequestInv, Job
<1>2. p \in Requests /\ s.count \in Nat \ {0, 1} /\ s.current \in Nat \ {0}
  BY <1>1 DEF Snapshot
<1>3. /\ plans[p] # NoPlan /\ plans[p] \in Plan /\ plans[p].count = s.count
      /\ s.current < s.count
  BY <1>1, <1>2 DEF StillTrue, IInv, TableInv
<1>4. /\ plans' = [plans EXCEPT ![p].current = next, ![p].completed = next >= s.count]
      /\ pc' = [pc EXCEPT ![r] = "nextPlan"]
      /\ job' = [job EXCEPT ![r] = NoJob]
      /\ UNCHANGED <<methods, expenses, body, todo, issued>>
  BY DEF Advance, Advanced, IsLast
<1> HIDE DEF p, next, s
<1>5. /\ plans'[p] = [plans[p] EXCEPT !.current = next, !.completed = next >= s.count]
      /\ \A q \in Requests \ {p} : plans'[q] = plans[q]
      /\ plans' \in [Requests -> {plans'[q] : q \in Requests}]
  BY <1>2, <1>4 DEF IInv, TableInv
<1>6. next \in Nat \ {0} /\ next > 1 /\ next <= s.count /\ (next >= s.count <=> next = s.count)
  BY <1>2, <1>3 DEF next
<1>7. /\ plans'[p] \in Plan
      /\ plans'[p].total = plans[p].total /\ plans'[p].count = plans[p].count
      /\ plans'[p].current = next
      /\ plans'[p].completed <=> next = s.count
  <2> DEFINE last == next >= s.count
  <2>1. last \in BOOLEAN /\ (last <=> next = s.count)
    BY <1>6
  <2>2. plans'[p] = [plans[p] EXCEPT !.current = next, !.completed = last]
    BY <1>5, Zenon
  <2> HIDE DEF last
  <2>3. /\ plans'[p] \in Plan
        /\ plans'[p].total = plans[p].total /\ plans'[p].count = plans[p].count
        /\ plans'[p].current = next /\ plans'[p].completed = last
    <3> DEFINE y == [plans[p] EXCEPT !.current = next, !.completed = last]
    <3>1. plans[p] \in Plan /\ next \in Nat \ {0} /\ last \in BOOLEAN
      BY <1>3, <1>6, <2>1
    <3>2. /\ y \in Plan /\ y.total = plans[p].total /\ y.count = plans[p].count
          /\ y.current = next /\ y.completed = last
      BY <3>1, Zenon DEF Plan
    <3> HIDE DEF y
    <3>3. plans'[p] = y
      BY <2>2, Zenon DEF y
    <3> QED BY <3>2, <3>3, Zenon
  <2> QED BY <2>1, <2>3
<1>8. plans'[p] # NoPlan
  <2>1. \A x \in Plan : x # NoPlan
    BY NullsAssumption
  <2> QED BY <1>7, <2>1
<1>9. PlanIds' = PlanIds /\ p \in PlanIds
  BY <1>2, <1>3, <1>5, <1>8 DEF PlanIds
<1>10. Grows
  BY <1>4, <1>5, <1>7, <1>8 DEF Grows
<1>11. TableInv'
  <2>1. /\ methods' \in [Methods -> MethodType \cup {"DELETED"}]
        /\ expenses' \subseteq Row
        /\ issued' \subseteq Charge
    BY <1>4 DEF IInv, TableInv
  <2>2. plans' \in [Requests -> Plan \cup {NoPlan}]
    <3>1. \A q \in Requests : plans'[q] \in Plan \cup {NoPlan}
      BY <1>5, <1>7 DEF IInv, TableInv
    <3> QED BY <1>5, <3>1
  <2>3. (\A q \in PlanIds : plans[q].count <= plans[q].total)'
    BY <1>5, <1>7, <1>9 DEF IInv, TableInv, PlanIds
  <2>4. (\A e \in expenses : e.id.plan = e.plan)'
    BY <1>4 DEF IInv, TableInv
  <2>5. PlanProgress'
    <3>1. ASSUME NEW q \in PlanIds
          PROVE  /\ plans'[q].current <= plans'[q].count
                 /\ plans'[q].completed <=> plans'[q].current = plans'[q].count
      <4>1. CASE q = p
        BY <1>3, <1>6, <1>7, <4>1
      <4>2. CASE q # p
        BY <1>5, <4>2 DEF IInv, TableInv, PlanProgress, PlanIds
      <4> QED BY <4>1, <4>2
    <3> QED BY <1>9, <3>1 DEF PlanProgress
  <2>6. ChargesMatchPlan'
    <3>1. ASSUME NEW i \in issued
          PROVE  /\ plans'[i.plan] # NoPlan
                 /\ plans'[i.plan].total = plans[i.plan].total
                 /\ plans'[i.plan].count = plans[i.plan].count
      <4>1. i.plan \in Requests /\ plans[i.plan] # NoPlan
        BY DEF IInv, TableInv, ChargesMatchPlan, Charge
      <4> QED BY <1>10, <4>1 DEF Grows
    <3>2. \A i \in issued :
             /\ i.number \in 1..plans[i.plan].count
             /\ i.amount = InstallmentAmount(plans[i.plan].total,
                               plans[i.plan].count, i.number)
      BY DEF IInv, TableInv, ChargesMatchPlan
    <3>3. issued' = issued
      BY <1>4
    <3> QED BY <3>1, <3>2, <3>3 DEF ChargesMatchPlan
  <2>7. RowsAsCharged'
    BY <1>4 DEF IInv, TableInv, RowsAsCharged
  <2>8. NoGaps'
    <3>1. ASSUME NEW q \in PlanIds, plans'[q].current > 1
          PROVE  \E i \in issued : i.plan = q /\ i.number = plans'[q].current
      <4>1. CASE q = p
        BY <1>1, <1>7, <4>1 DEF IsCharged
      <4>2. CASE q # p
        BY <1>5, <3>1, <4>2 DEF IInv, TableInv, NoGaps, PlanIds
      <4> QED BY <4>1, <4>2
    <3>2. \A i \in issued : \A n \in 1..i.number :
             \E j \in issued : j.plan = i.plan /\ j.number = n
      BY DEF IInv, TableInv, NoGaps
    <3>3. issued' = issued
      BY <1>4
    <3> QED BY <1>9, <3>1, <3>2, <3>3 DEF NoGaps
  <2> QED BY <2>1, <2>2, <2>3, <2>4, <2>5, <2>6, <2>7, <2>8 DEF TableInv
<1>12. LocalType'
  BY <1>4 DEF IInv, LocalType, InFlight
<1>13. pc'[r] = "nextPlan" /\ todo'[r] = todo[r]
  BY <1>4 DEF IInv, LocalType
<1>14. (\A t \in todo[r] :
           StillTrue(t) /\ (t.current > 1 => IsCharged(t.plan, t.current)))'
  <2>1. \A t \in todo[r] : /\ StillTrue(t) /\ t.plan \in Requests
                           /\ (t.current > 1 => IsCharged(t.plan, t.current))
    BY DEF IInv, RequestInv, LocalType, Snapshot
  <2> QED BY <1>4, <1>10, <1>13, <2>1 DEF Grows, StillTrue, IsCharged
<1>15. RequestInv(r)'
  BY <1>13, <1>14 DEF RequestInv
<1>16. \A q \in Requests \ {r} :
          /\ plans[q] = NoPlan => plans'[q] = NoPlan
          /\ pc'[q] = pc[q] /\ body'[q] = body[q]
          /\ todo'[q] = todo[q] /\ job'[q] = job[q]
  BY <1>3, <1>4, <1>5 DEF IInv, LocalType
<1> QED BY <1>10, <1>11, <1>12, <1>15, <1>16, Combine

\* Rows change or go, and no row of an installment changes its amount.
LEMMA RowsChange ==
    ASSUME IInv, expenses' \subseteq Row,
           \A e \in expenses' : \E f \in expenses :
               /\ e.id = f.id /\ e.plan = f.plan /\ e.number = f.number
               /\ e.plan # NoPlan => e.amount = f.amount,
           UNCHANGED <<methods, plans, issued>>
    PROVE  TableInv' /\ Grows
<1>1. (\A e \in expenses : e.id.plan = e.plan)'
  BY DEF IInv, TableInv
<1>2. RowsAsCharged'
  <2>1. ASSUME NEW e \in expenses', e.plan # NoPlan
        PROVE  [by |-> e.id.by, plan |-> e.plan, number |-> e.number,
                amount |-> e.amount] \in issued
    <3>1. PICK f \in expenses :
               /\ e.id = f.id /\ e.plan = f.plan /\ e.number = f.number
               /\ e.amount = f.amount
      BY <2>1
    <3> QED BY <2>1, <3>1 DEF IInv, TableInv, RowsAsCharged
  <2> QED BY <2>1 DEF RowsAsCharged
<1> QED BY <1>1, <1>2 DEF IInv, TableInv, Grows, PlanIds, PlanProgress,
           ChargesMatchPlan, NoGaps

\* What a patch leaves as it was.
LEMMA RowsPatched ==
    ASSUME NEW e \in Row, NEW call
    PROVE  /\ Patched(e, call).id = e.id /\ Patched(e, call).plan = e.plan
           /\ Patched(e, call).number = e.number /\ Patched(e, call).splits = e.splits
<1> DEFINE D == Seq([user : Users, amount : Int])
<1>1. Row = [id : RowId, group : Groups, method : Methods, creator : Users,
             amount : Nat \ {0}, plan : Requests \cup {NoPlan}, number : Nat,
             splits : D]
  BY DEF Row
<1> HIDE DEF D
<1> QED BY <1>1 DEF Patched

\* The update of a row sets no amount on the row of an installment.
LEMMA UpdateKeeps ==
    ASSUME IInv, NEW r \in Requests, Update(r)
    PROVE  IInv'
<1> DEFINE call == body[r]
           target == {e \in expenses : e.id = call.target}
<1>1. CASE Reject(r)
  BY <1>1, RejectKeeps
<1>2. CASE End(r, "failed") /\ UNCHANGED db
  BY <1>2, EndKeeps DEF Ended
<1>3. CASE /\ expenses' = (expenses \ target) \cup {Patched(e, call) : e \in target}
           /\ End(r, "done")
           /\ UNCHANGED <<methods, plans, issued>>
  <2>1. call \in PatchCall /\ (call.amount # 0 => call.target.plan = NoPlan)
    BY DEF Update, IInv, RequestInv
  <2>2. ASSUME NEW e \in target
        PROVE  /\ Patched(e, call) \in Row
               /\ Patched(e, call).id = e.id /\ Patched(e, call).plan = e.plan
               /\ Patched(e, call).number = e.number
               /\ e.plan # NoPlan => Patched(e, call).amount = e.amount
    <3>1. e \in Row /\ e.id.plan = e.plan /\ e.id = call.target
      BY DEF IInv, TableInv
    <3>2. call.amount \in Nat /\ call.method \in Methods \cup {NoMethod}
      BY <2>1 DEF PatchCall
    <3> DEFINE D == Seq([user : Users, amount : Int])
    <3>3. Row = [id : RowId, group : Groups, method : Methods, creator : Users,
                 amount : Nat \ {0}, plan : Requests \cup {NoPlan}, number : Nat,
                 splits : D]
      BY DEF Row
    <3> HIDE DEF D
    <3> QED BY <2>1, <3>1, <3>2, <3>3 DEF Patched
  <2>3. expenses' \subseteq Row
    BY <1>3, <2>2 DEF IInv, TableInv
  <2>4. ASSUME NEW e \in expenses'
        PROVE  \E f \in expenses :
                  /\ e.id = f.id /\ e.plan = f.plan /\ e.number = f.number
                  /\ e.plan # NoPlan => e.amount = f.amount
    <3>1. CASE e \in expenses
      BY <3>1
    <3>2. CASE \E f \in target : e = Patched(f, call)
      BY <2>2, <3>2
    <3> QED BY <1>3, <3>1, <3>2
  <2>5. TableInv' /\ Grows
    BY <1>3, <2>3, <2>4, RowsChange
  <2>6. LocalType /\ plans' = plans /\ "done" \in Ended
    BY <1>3 DEF IInv, Ended
  <2> QED BY <1>3, <2>5, <2>6, EndKeepsRequests, Combine
<1> QED BY <1>1, <1>2, <1>3 DEF Update, WithId

\* A row that is deleted takes nothing with it that was charged.
LEMMA DeleteKeeps ==
    ASSUME IInv, NEW r \in Requests, Delete(r)
    PROVE  IInv'
<1>1. PICK outcome \in Ended : End(r, outcome)
  BY DEF Delete, Ended
<1>2. expenses' \subseteq expenses /\ UNCHANGED <<methods, plans, issued>>
  BY DEF Delete
<1>3. TableInv' /\ Grows
  BY <1>2, RowsChange DEF IInv, TableInv
<1>4. LocalType /\ plans' = plans
  BY <1>2 DEF IInv
<1> QED BY <1>1, <1>3, <1>4, EndKeepsRequests, Combine

\* Payment methods change under the requests: none of this depends on them.
LEMMA MethodsKeep ==
    ASSUME IInv, NEW m \in Methods, PatchMethodType(m) \/ DeleteMethod(m)
    PROVE  IInv'
<1>1. /\ UNCHANGED <<plans, expenses, pc, body, todo, job, issued>>
      /\ methods' \in [Methods -> MethodType \cup {"DELETED"}]
  BY DEF IInv, TableInv, PatchMethodType, DeleteMethod
<1>2. TableInv' /\ Grows
  BY <1>1 DEF IInv, TableInv, Grows, PlanIds, PlanProgress,
     ChargesMatchPlan, RowsAsCharged, NoGaps
<1>3. LocalType'
  BY <1>1 DEF IInv, LocalType
<1>4. \A q \in Requests : RequestInv(q)'
  BY <1>1, <1>2, OthersKeep DEF IInv
<1> QED BY <1>2, <1>3, <1>4 DEF IInv

\* Every table is empty and no request has started.
LEMMA InitKeeps == Init => IInv
<1> SUFFICES ASSUME Init PROVE IInv
  OBVIOUS
<1>1. PlanIds = {}
  BY DEF Init, PlanIds
<1>2. LocalType
  BY DEF Init, LocalType
<1>3. TableInv
  BY <1>1 DEF Init, TableInv, PlanProgress, ChargesMatchPlan, RowsAsCharged, NoGaps
<1>4. \A r \in Requests : RequestInv(r)
  BY DEF Init, RequestInv
<1> QED BY <1>2, <1>3, <1>4 DEF IInv

\* Every step of every request and of what runs around them keeps the invariant.
LEMMA NextKeeps == IInv /\ [Next]_vars => IInv'
<1> SUFFICES ASSUME IInv, [Next]_vars PROVE IInv'
  OBVIOUS
<1>1. CASE UNCHANGED vars
  <2>1. TableInv' /\ LocalType' /\ Grows
    BY <1>1, TablesUnchanged DEF vars, db, IInv, LocalType
  <2>2. \A q \in Requests : RequestInv(q)'
    BY <1>1, <2>1, OthersKeep DEF vars, IInv
  <2> QED BY <2>1, <2>2 DEF IInv
<1>2. ASSUME NEW r \in Requests, Start(r) PROVE IInv'
  BY <1>2, CreateStartKeeps, CloseStartKeeps, PatchStartKeeps, DeleteStartKeeps DEF Start
<1>3. ASSUME NEW r \in Requests, Step(r) PROVE IInv'
  BY <1>3, InsertPlanKeeps, InsertRowKeeps, ReadPlansKeeps, NextPlanKeeps,
     ReadSplitsKeeps, InsertNextKeeps, AdvanceKeeps, CloseEndKeeps, CheckMethodKeeps, UpdateKeeps,
     DeleteKeeps DEF Step
<1>4. ASSUME NEW r \in MayFail, Abort(r) PROVE IInv'
  BY <1>4, AbortKeeps DEF IInv
<1>5. ASSUME NEW m \in PatchableMethods, PatchMethodType(m) PROVE IInv'
  BY <1>5, MethodsKeep
<1>6. ASSUME NEW m \in DeletableMethods, DeleteMethod(m) PROVE IInv'
  BY <1>6, MethodsKeep
<1> QED BY <1>1, <1>2, <1>3, <1>4, <1>5, <1>6 DEF Next

\* IInv holds in every reachable state of every instance.
THEOREM Invariance == Spec => []IInv
BY InitKeeps, NextKeeps, PTL DEF Spec

\* The tables and what the requests know are of the right kind, always.
THEOREM TypeCorrect == Spec => []TypeOK
<1>1. IInv => TypeOK
  BY DEF IInv, LocalType, TableInv, RequestInv, TypeOK
<1> QED BY <1>1, Invariance, PTL

\* No plan runs past its last installment or disagrees with its completed flag,
\* whatever closeCycle calls overlap or are cut short.
THEOREM PlansProgress == Spec => []PlanProgress
<1>1. IInv => PlanProgress
  BY DEF IInv, TableInv
<1> QED BY <1>1, Invariance, PTL

\* Every installment ever inserted has a number of its plan and the amount
\* computeInstallmentAmount gives that number.
THEOREM ChargesMatch == Spec => []ChargesMatchPlan
<1>1. IInv => ChargesMatchPlan
  BY DEF IInv, TableInv
<1> QED BY <1>1, Invariance, PTL

\* No patch, in any interleaving, changes the amount of an installment row.
THEOREM RowsStayAsCharged == Spec => []RowsAsCharged
<1>1. IInv => RowsAsCharged
  BY DEF IInv, TableInv
<1> QED BY <1>1, Invariance, PTL

\* Installments are charged without a gap and no plan is ahead of its charges,
\* whichever closeCycle wrote the plan last.
THEOREM NoInstallmentSkipped == Spec => []NoGaps
<1>1. IInv => NoGaps
  BY DEF IInv, TableInv
<1> QED BY <1>1, Invariance, PTL

-----------------------------------------------------------------------------
(* The ids of installment rows: IdsInv is inductive relative to IInv.      *)

\* All but one request have the plans they had.
OthersHave(r) ==
    \A q \in Requests \ {r} : pc'[q] = pc[q] /\ todo'[q] = todo[q] /\ job'[q] = job[q]

\* A charge is new, and is the first the request r makes for its plan.
FirstCharge(r) ==
    \E c \in Charge : /\ c.by = r /\ ~HasCharged(r, c.plan)
                      /\ issued' = issued \cup {c}

\* What is charged by one request is no other's.
LEMMA OthersCharge ==
    ASSUME NEW q, issued \subseteq issued', \A i \in issued' : i \in issued \/ i.by # q
    PROVE  \A p : HasCharged(q, p)' <=> HasCharged(q, p)
BY DEF HasCharged

\* A step of request r: the others have charged what they had.
LEMMA IdsKeep ==
    ASSUME IdsInv, NEW r \in Requests, OthersHave(r), OnceInv(r)',
           issued' = issued \/ FirstCharge(r)
    PROVE  IdsInv'
<1>1. /\ issued \subseteq issued'
      /\ \A i \in issued' : i \in issued \/ i.by = r
  BY DEF FirstCharge
<1>2. ASSUME NEW q \in Requests \ {r} PROVE OnceInv(q)'
  <2>1. /\ pc'[q] = pc[q] /\ todo'[q] = todo[q] /\ job'[q] = job[q] /\ OnceInv(q)
    BY DEF OthersHave, IdsInv
  <2>2. \A p : HasCharged(q, p)' <=> HasCharged(q, p)
    BY <1>1, OthersCharge
  <2>3. \A e : ChargeOf(e)' = ChargeOf(e)
    BY DEF ChargeOf
  <2> HIDE DEF HasCharged, ChargeOf
  <2> QED BY <1>1, <2>1, <2>2, <2>3 DEF OnceInv
<1>3. \A i, j \in issued' : i.by = j.by /\ i.plan = j.plan => i = j
  <2>1. \A i, j \in issued : i.by = j.by /\ i.plan = j.plan => i = j
    BY DEF IdsInv
  <2>2. CASE FirstCharge(r)
    <3>1. PICK c \in Charge : /\ c.by = r /\ ~HasCharged(r, c.plan)
                              /\ issued' = issued \cup {c}
      BY <2>2 DEF FirstCharge
    <3>2. \A i \in issued : ~(i.by = c.by /\ i.plan = c.plan)
      BY <3>1 DEF HasCharged
    <3> QED BY <2>1, <3>1, <3>2
  <2> QED BY <2>1, <2>2
<1> QED BY <1>2, <1>3 DEF IdsInv

\* A request that ends has nothing left to charge.
LEMMA EndKeepsIds ==
    ASSUME IInv, IdsInv, NEW r \in Requests, NEW outcome \in Ended, End(r, outcome),
           issued' = issued \/ FirstCharge(r)
    PROVE  IdsInv'
<1>1. pc'[r] = outcome /\ todo'[r] = {} /\ OthersHave(r)
  BY DEF End, IInv, LocalType, OthersHave
<1>2. OnceInv(r)'
  BY <1>1 DEF OnceInv, Ended, Early
<1> QED BY <1>1, <1>2, IdsKeep

\* Neither does one that is refused or cut short, nor a closeCycle that is through.
LEMMA RejectKeepsIds ==
    ASSUME IInv, IdsInv, NEW r \in Requests, Reject(r) \/ Abort(r) \/ CloseEnd(r)
    PROVE  IdsInv'
BY EndKeepsIds DEF Reject, Abort, CloseEnd, Ended, db

\* A request that moves on without a charge has charged as little as before.
LEMMA MoveKeepsIds ==
    ASSUME IInv, IdsInv, NEW r \in Requests, OthersHave(r), issued' = issued,
           todo'[r] = todo[r], pc'[r] \notin {"readSplits", "insertNext"},
           pc'[r] \in Early \cup {"readPlans"} => pc[r] \in Early
    PROVE  IdsInv'
<1>1. \A p : HasCharged(r, p)' <=> HasCharged(r, p)
  BY DEF HasCharged
<1>2. OnceInv(r)
  BY DEF IdsInv
<1> HIDE DEF HasCharged
<1>3. OnceInv(r)'
  BY <1>1, <1>2 DEF OnceInv
<1> QED BY <1>3, IdsKeep

\* A request starts with no charge of its own.
LEMMA StartKeepsIds ==
    ASSUME IInv, IdsInv, NEW r \in Requests, Start(r)
    PROVE  IdsInv'
<1>1. CASE Reject(r)
  BY <1>1, RejectKeepsIds
<1>2. ASSUME NEW call, NEW step \in Awaiting, pc[r] = "idle", Accept(r, call, step)
      PROVE  IdsInv'
  <2>1. /\ OthersHave(r) /\ issued' = issued /\ todo'[r] = todo[r] /\ pc'[r] = step
    BY <1>2 DEF Accept, IInv, LocalType, OthersHave, db
  <2> QED BY <1>2, <2>1, MoveKeepsIds DEF Awaiting, Early
<1>3. {"insertRow", "insertPlan", "readPlans", "update", "checkMethod", "delete"}
         \subseteq Awaiting
  BY DEF Awaiting, InFlight
<1>4. CASE CreateStart(r)
  BY <1>1, <1>2, <1>3, <1>4 DEF CreateStart
<1>5. CASE CloseStart(r)
  BY <1>1, <1>2, <1>3, <1>5 DEF CloseStart
<1>6. CASE PatchStart(r)
  BY <1>1, <1>2, <1>3, <1>6 DEF PatchStart
<1>7. CASE DeleteStart(r)
  BY <1>1, <1>2, <1>3, <1>7 DEF DeleteStart
<1> QED BY <1>4, <1>5, <1>6, <1>7 DEF Start

\* The row of a create is the first it charges.
LEMMA InsertRowKeepsIds ==
    ASSUME IInv, IdsInv, NEW r \in Requests, InsertRow(r)
    PROVE  IdsInv'
<1>1. pc[r] = "insertRow"
  BY DEF InsertRow
<1>2. PICK row : row = NewRow(r)
  OBVIOUS
<1>3. CASE Reject(r)
  BY <1>3, RejectKeepsIds
<1>4. CASE End(r, "failed") /\ UNCHANGED db
  BY <1>4, EndKeepsIds DEF Ended, db
<1>5. CASE /\ LET b == body[r]
                  amount == IF b.installments = 0 THEN b.amount ELSE FirstAmount(b)
              IN  \/ b.group \in DefaultGroups
                  \/ SplitAccepted(b.split, amount, Members[b.group])
           /\ issued' = IF row.plan = NoPlan THEN issued
                        ELSE issued \cup {[by |-> r, plan |-> row.plan,
                                           number |-> row.number,
                                           amount |-> row.amount]}
           /\ End(r, "done")
  <2>1. row \in Row
    BY <1>1, <1>2, <1>5, NewRowIsGood
  <2>2. \A p \in Requests : ~HasCharged(r, p)
    BY <1>1 DEF IdsInv, OnceInv, Early
  <2>3. row.plan # NoPlan =>
          /\ [by |-> r, plan |-> row.plan, number |-> row.number,
              amount |-> row.amount] \in Charge
          /\ row.plan \in Requests
    BY <2>1 DEF Row, Charge
  <2>4. issued' = issued \/ FirstCharge(r)
    BY <1>5, <2>2, <2>3 DEF FirstCharge
  <2> QED BY <1>5, <2>4, EndKeepsIds DEF Ended
<1> QED BY <1>2, <1>3, <1>4, <1>5 DEF InsertRow, InsertExpense

\* closeCycle reads each plan once, and has charged none yet.
LEMMA ReadPlansKeepsIds ==
    ASSUME IInv, IdsInv, NEW r \in Requests, ReadPlans(r)
    PROVE  IdsInv'
<1>1. /\ pc[r] = "readPlans" /\ issued' = issued
      /\ pc' = [pc EXCEPT ![r] = "nextPlan"] /\ job' = job
      /\ todo' = [todo EXCEPT ![r] = {Read(p) : p \in ActivePlans(body[r].method)}]
  BY DEF ReadPlans, db
<1>2. /\ pc'[r] = "nextPlan" /\ OthersHave(r)
      /\ todo'[r] = {Read(p) : p \in ActivePlans(body[r].method)}
  BY <1>1 DEF IInv, LocalType, OthersHave
<1>3. \A p \in Requests : ~HasCharged(r, p)'
  BY <1>1 DEF IdsInv, OnceInv, HasCharged
<1>4. \A s \in todo'[r] : s.plan \in Requests /\ s = Read(s.plan)
  BY <1>2 DEF Read, ActivePlans, PlanIds
<1>5. OnceInv(r)'
  BY <1>2, <1>3, <1>4 DEF OnceInv, Early
<1> QED BY <1>1, <1>2, <1>5, IdsKeep

\* closeCycle comes to each plan once, and holds a row that was charged.
LEMMA NextPlanKeepsIds ==
    ASSUME IInv, IdsInv, NEW r \in Requests, NextPlan(r)
    PROVE  IdsInv'
<1>1. PICK s \in todo[r] :
         /\ todo' = [todo EXCEPT ![r] = @ \ {s}]
         /\ \/ UNCHANGED <<pc, job>>
            \/ \E e \in Latest(s.plan) :
                  /\ job' = [job EXCEPT ![r] =
                               [plan |-> s, source |-> [e EXCEPT !.splits = << >>]]]
                  /\ pc' = [pc EXCEPT ![r] = "readSplits"]
  BY DEF NextPlan, Left
<1>2. /\ pc[r] = "nextPlan" /\ issued' = issued /\ s \in Snapshot /\ OnceInv(r)
      /\ todo'[r] = todo[r] \ {s} /\ \A q \in Requests \ {r} : todo'[q] = todo[q]
  BY <1>1 DEF NextPlan, IInv, LocalType, IdsInv, db
<1>3. \A p : HasCharged(r, p)' <=> HasCharged(r, p)
  BY <1>2 DEF HasCharged
<1>4. /\ \A t \in todo[r] : ~HasCharged(r, t.plan)
      /\ \A t, u \in todo[r] : t.plan = u.plan => t = u
  BY <1>2 DEF OnceInv
<1>5. CASE UNCHANGED <<pc, job>>
  <2>1. OnceInv(r)'
    BY <1>2, <1>3, <1>4, <1>5 DEF OnceInv, Early
  <2> QED BY <1>2, <1>5, <2>1, IdsKeep DEF OthersHave
<1>6. ASSUME NEW e \in Latest(s.plan),
             job' = [job EXCEPT ![r] =
                       [plan |-> s, source |-> [e EXCEPT !.splits = << >>]]],
             pc' = [pc EXCEPT ![r] = "readSplits"]
      PROVE  IdsInv'
  <2>1. PICK source : source = [e EXCEPT !.splits = << >>]
    OBVIOUS
  <2>2. e \in expenses /\ e \in Row /\ e.plan = s.plan /\ s.plan # NoPlan
    BY <1>2 DEF Latest, RowsOf, IInv, TableInv, Snapshot
  <2>3. Alike(source, e)
    BY <2>1, <2>2, EmptySplits
  <2>4. ChargeOf(source) \in issued
    <3>1. ChargeOf(e) \in issued
      BY <2>2 DEF IInv, TableInv, RowsAsCharged, ChargeOf
    <3> QED BY <2>3, <3>1 DEF Alike, ChargeOf
  <2>5. /\ pc'[r] = "readSplits" /\ job'[r] = [plan |-> s, source |-> source]
        /\ OthersHave(r)
    BY <1>2, <1>6, <2>1 DEF IInv, LocalType, OthersHave
  <2>6. ChargeOf(source)' = ChargeOf(source)
    BY DEF ChargeOf
  <2>7. (ChargeOf(job[r].source) \in issued)'
    BY <1>2, <2>4, <2>5, <2>6 DEF ChargeOf
  <2>8. OnceInv(r)'
    BY <1>2, <1>3, <1>4, <2>5, <2>7 DEF OnceInv, Early
  <2> QED BY <1>2, <2>5, <2>8, IdsKeep
<1> QED BY <1>1, <1>5, <1>6

\* The row it holds is the same with its splits.
LEMMA ReadSplitsKeepsIds ==
    ASSUME IInv, IdsInv, NEW r \in Requests, ReadSplits(r)
    PROVE  IdsInv'
<1>1. /\ pc[r] = "readSplits" /\ pc' = [pc EXCEPT ![r] = "insertNext"]
      /\ todo' = todo /\ issued' = issued
      /\ \A q \in Requests \ {r} : job'[q] = job[q]
      /\ job'[r].plan = job[r].plan /\ Alike(job'[r].source, job[r].source)
  BY SplitsAreRead DEF db
<1>2. pc'[r] = "insertNext" /\ OthersHave(r) /\ OnceInv(r)
  BY <1>1 DEF IInv, LocalType, OthersHave, IdsInv
<1>3. \A p : HasCharged(r, p)' <=> HasCharged(r, p)
  BY <1>1 DEF HasCharged
<1>4. (ChargeOf(job[r].source) \in issued)'
  BY <1>1, <1>2 DEF OnceInv, Alike, ChargeOf
<1> HIDE DEF HasCharged, ChargeOf
<1>5. OnceInv(r)'
  BY <1>1, <1>2, <1>3, <1>4 DEF OnceInv, Early
<1> QED BY <1>1, <1>2, <1>5, IdsKeep

\* The clone is the first this closeCycle charges its plan, and it comes to the plan
\* no more.
LEMMA InsertNextKeepsIds ==
    ASSUME IInv, IdsInv, NEW r \in Requests, InsertNext(r)
    PROVE  IdsInv'
<1>1. pc[r] = "insertNext" /\ OnceInv(r)
  BY DEF InsertNext, IdsInv
<1>2. PICK row : row = NextRow(r)
  OBVIOUS
<1>3. row \in Row /\ row.plan = job[r].plan.plan /\ row.plan # NoPlan
  BY <1>1, <1>2, NextRowIsGood
<1>4. CASE End(r, "failed") /\ UNCHANGED db
  BY <1>4, EndKeepsIds DEF Ended, db
<1>5. CASE /\ issued' = IF row.plan = NoPlan THEN issued
                        ELSE issued \cup {[by |-> r, plan |-> row.plan,
                                           number |-> row.number,
                                           amount |-> row.amount]}
           /\ Go(r, "advance")
  <2>1. pc'[r] = "advance" /\ todo' = todo /\ OthersHave(r)
    BY <1>5 DEF Go, IInv, LocalType, OthersHave
  <2>2. PICK c \in Charge : c.by = r /\ c.plan = row.plan /\ issued' = issued \cup {c}
    BY <1>3, <1>5 DEF Row, Charge
  <2>3. ~HasCharged(r, row.plan)
    BY <1>1, <1>3 DEF OnceInv
  <2>4. \A s \in todo[r] : ~HasCharged(r, s.plan)'
    <3>1. ASSUME NEW s \in todo[r] PROVE ~HasCharged(r, s.plan) /\ s.plan # c.plan
      BY <1>1, <1>3, <2>2 DEF OnceInv
    <3> QED BY <2>2, <3>1 DEF HasCharged
  <2>5. \A s, t \in todo[r] : s.plan = t.plan => s = t
    BY <1>1 DEF OnceInv
  <2>6. OnceInv(r)'
    BY <2>1, <2>4, <2>5 DEF OnceInv, Early
  <2>7. FirstCharge(r)
    BY <2>2, <2>3 DEF FirstCharge
  <2> QED BY <2>1, <2>6, <2>7, IdsKeep
<1> QED BY <1>2, <1>4, <1>5 DEF InsertNext, InsertExpense

\* No request charges a plan twice: every step keeps it.
LEMMA IdsNext == IInv /\ IdsInv /\ [Next]_vars => IdsInv'
<1> SUFFICES ASSUME IInv, IdsInv, [Next]_vars PROVE IdsInv'
  OBVIOUS
<1>1. ASSUME UNCHANGED <<pc, todo, job, issued>> PROVE IdsInv'
  <2>1. ASSUME NEW q \in Requests PROVE OnceInv(q)'
    BY <1>1 DEF IdsInv, OnceInv, HasCharged, ChargeOf
  <2> QED BY <1>1, <2>1 DEF IdsInv
<1>2. ASSUME NEW r \in Requests, Start(r) PROVE IdsInv'
  BY <1>2, StartKeepsIds
<1>3. ASSUME NEW r \in Requests, Step(r) PROVE IdsInv'
  <2>1. CASE InsertPlan(r)
    <3>1. CASE End(r, "failed") /\ UNCHANGED db
      BY <3>1, EndKeepsIds DEF Ended, db
    <3>2. CASE Go(r, "insertRow") /\ issued' = issued
      <4>1. /\ pc[r] = "insertPlan" /\ pc'[r] = "insertRow" /\ todo'[r] = todo[r]
            /\ OthersHave(r)
        BY <2>1, <3>2 DEF InsertPlan, Go, IInv, LocalType, OthersHave
      <4> QED BY <3>2, <4>1, MoveKeepsIds DEF Early
    <3> QED BY <2>1, <3>1, <3>2 DEF InsertPlan
  <2>2. CASE CheckMethod(r)
    <3>1. CASE Reject(r)
      BY <3>1, RejectKeepsIds
    <3>2. CASE Go(r, "update") /\ UNCHANGED db
      <4>1. /\ pc'[r] = "update" /\ todo'[r] = todo[r] /\ issued' = issued
            /\ OthersHave(r)
        BY <3>2 DEF Go, IInv, LocalType, OthersHave, db
      <4> QED BY <4>1, MoveKeepsIds DEF Early
    <3> QED BY <2>2, <3>1, <3>2 DEF CheckMethod
  <2>3. CASE Advance(r)
    <3>1. /\ pc'[r] = "nextPlan" /\ todo'[r] = todo[r] /\ issued' = issued
          /\ OthersHave(r)
      BY <2>3 DEF Advance, IInv, LocalType, OthersHave
    <3> QED BY <3>1, MoveKeepsIds DEF Early
  <2>4. CASE Update(r)
    <3>1. issued' = issued /\ \E outcome \in Ended : End(r, outcome)
      BY <2>4 DEF Update, Reject, Ended, db
    <3> QED BY <3>1, EndKeepsIds
  <2>5. CASE Delete(r)
    <3>1. issued' = issued /\ \E outcome \in Ended : End(r, outcome)
      BY <2>5 DEF Delete, Ended
    <3> QED BY <3>1, EndKeepsIds
  <2> QED BY <1>3, <2>1, <2>2, <2>3, <2>4, <2>5, InsertRowKeepsIds, ReadPlansKeepsIds,
             NextPlanKeepsIds, ReadSplitsKeepsIds, InsertNextKeepsIds,
             RejectKeepsIds DEF Step
<1>4. ASSUME NEW r \in MayFail, Abort(r) PROVE IdsInv'
  BY <1>4, RejectKeepsIds
<1>5. ASSUME NEW m \in Methods, PatchMethodType(m) \/ DeleteMethod(m) PROVE IdsInv'
  BY <1>1, <1>5 DEF PatchMethodType, DeleteMethod
<1>6. CASE UNCHANGED vars
  BY <1>1, <1>6 DEF vars
<1> QED BY <1>2, <1>3, <1>4, <1>5, <1>6 DEF Next

\* No installment row ever has the id of one before it: no request charges a plan
\* twice, however its turns fall among those of others.
THEOREM IdsInvariance == Spec => []IdsInv
<1>1. Init => IdsInv
  BY DEF Init, IdsInv, OnceInv, HasCharged
<1> QED BY <1>1, Invariance, IdsNext, PTL DEF Spec

\* A row that is inserted into a plan has an id no row has.
LEMMA InsertKeepsUnique ==
    ASSUME IInv, UniqueIds, NEW r \in Requests, NEW row,
           row.id = [by |-> r, plan |-> row.plan],
           row.plan # NoPlan => ~HasCharged(r, row.plan),
           expenses' = expenses \cup {row}
    PROVE  UniqueIds'
<1>1. row.id.by = r /\ row.id.plan = row.plan
  OBVIOUS
<1>2. ASSUME NEW e \in expenses, e.id = row.id PROVE e.plan = NoPlan /\ row.plan = NoPlan
  <2>1. e.id.plan = e.plan /\ e.plan = row.plan
    BY <1>1, <1>2 DEF IInv, TableInv
  <2> SUFFICES ASSUME e.plan # NoPlan PROVE FALSE
    BY <2>1
  <2>2. ChargeOf(e) \in issued
    BY DEF IInv, TableInv, RowsAsCharged, ChargeOf
  <2>3. ChargeOf(e).by = r /\ ChargeOf(e).plan = row.plan
    BY <1>1, <1>2, <2>1 DEF ChargeOf
  <2> HIDE DEF ChargeOf
  <2> QED BY <2>1, <2>2, <2>3 DEF HasCharged
<1> QED BY <1>2 DEF UniqueIds

\* The row of a create, and that of a closeCycle.
LEMMA InsertsKeepUnique ==
    ASSUME IInv, IdsInv, UniqueIds, NEW r \in Requests, InsertRow(r) \/ InsertNext(r)
    PROVE  UniqueIds'
<1>1. CASE UNCHANGED expenses
  BY <1>1 DEF UniqueIds
<1>2. OnceInv(r)
  BY DEF IdsInv
<1>3. CASE InsertRow(r)
  <2>1. pc[r] = "insertRow"
    BY <1>3 DEF InsertRow
  <2>2. PICK row : row = NewRow(r)
    OBVIOUS
  <2>3. CASE /\ LET b == body[r]
                    amount == IF b.installments = 0 THEN b.amount ELSE FirstAmount(b)
                IN  \/ b.group \in DefaultGroups
                    \/ SplitAccepted(b.split, amount, Members[b.group])
             /\ expenses' = expenses \cup {row}
    <3>1. /\ row.id = [by |-> r, plan |-> row.plan]
          /\ row.plan # NoPlan => row.plan = r
      BY <2>1, <2>2, <2>3, NewRowIsGood
    <3>2. ~HasCharged(r, r)
      BY <1>2, <2>1 DEF OnceInv, Early
    <3> QED BY <2>3, <3>1, <3>2, InsertKeepsUnique
  <2> QED BY <1>1, <1>3, <2>2, <2>3 DEF InsertRow, InsertExpense, Reject, db
<1>4. CASE InsertNext(r)
  <2>1. pc[r] = "insertNext"
    BY <1>4 DEF InsertNext
  <2>2. PICK row : row = NextRow(r)
    OBVIOUS
  <2>3. /\ row.id = [by |-> r, plan |-> row.plan] /\ row.plan = job[r].plan.plan
        /\ ~HasCharged(r, row.plan)
    BY <1>2, <2>1, <2>2, NextRowIsGood DEF OnceInv
  <2>4. CASE expenses' = expenses \cup {row}
    BY <2>3, <2>4, InsertKeepsUnique
  <2> QED BY <1>1, <1>4, <2>2, <2>4 DEF InsertNext, InsertExpense, db
<1> QED BY <1>3, <1>4

\* A patch keeps the id of the row it writes.
LEMMA UpdateKeepsUnique ==
    ASSUME IInv, UniqueIds, NEW r \in Requests, Update(r)
    PROVE  UniqueIds'
<1>1. PICK call, target : call = body[r] /\ target = WithId(call.target)
  OBVIOUS
<1>2. CASE UNCHANGED expenses
  BY <1>2 DEF UniqueIds
<1>3. CASE expenses' = (expenses \ target) \cup {Patched(e, call) : e \in target}
  <2>1. target \subseteq expenses /\ \A e \in expenses : e \in target <=> e.id = call.target
    BY <1>1 DEF WithId
  <2>2. ASSUME NEW e \in target
        PROVE  Patched(e, call).id = e.id /\ Patched(e, call).plan = e.plan
    BY <2>1, RowsPatched DEF IInv, TableInv
  <2>3. ASSUME NEW e \in expenses', NEW f \in expenses', e.plan # NoPlan, e.id = f.id
        PROVE  e = f
    <3>1. CASE e \in expenses \ target /\ f \in expenses \ target
      BY <2>3, <3>1 DEF UniqueIds
    <3>2. CASE e \in expenses \ target /\ \E x \in target : f = Patched(x, call)
      BY <2>1, <2>2, <2>3, <3>2
    <3>3. CASE f \in expenses \ target /\ \E x \in target : e = Patched(x, call)
      BY <2>1, <2>2, <2>3, <3>3
    <3>4. ASSUME NEW x \in target, NEW y \in target,
                 e = Patched(x, call), f = Patched(y, call)
          PROVE  e = f
      <4>1. x.id = y.id /\ x.plan # NoPlan
        BY <2>2, <2>3, <3>4
      <4> QED BY <2>1, <3>4, <4>1 DEF UniqueIds
    <3> QED BY <1>3, <3>1, <3>2, <3>3, <3>4
  <2> QED BY <2>3 DEF UniqueIds
<1> QED BY <1>1, <1>2, <1>3 DEF Update, Reject, db

\* An id names one row.
LEMMA UniqueNext == IInv /\ IdsInv /\ UniqueIds /\ [Next]_vars => UniqueIds'
<1> SUFFICES ASSUME IInv, IdsInv, UniqueIds, [Next]_vars PROVE UniqueIds'
  OBVIOUS
<1>1. CASE expenses' \subseteq expenses
  BY <1>1 DEF UniqueIds
<1>2. ASSUME NEW r \in Requests, Start(r) \/ Abort(r) PROVE expenses' = expenses
  BY <1>2 DEF Start, CreateStart, CloseStart, PatchStart, DeleteStart, Abort, Accept,
              Reject, db
<1>3. ASSUME NEW r \in Requests, Step(r)
      PROVE  \/ expenses' \subseteq expenses
             \/ InsertRow(r) \/ InsertNext(r) \/ Update(r)
  BY <1>3 DEF Step, InsertPlan, ReadPlans, NextPlan, ReadSplits, Advance, CloseEnd,
              CheckMethod, Delete, Reject, db
<1>4. ASSUME NEW m \in Methods, PatchMethodType(m) \/ DeleteMethod(m)
      PROVE  expenses' = expenses
  BY <1>4 DEF PatchMethodType, DeleteMethod
<1>5. CASE UNCHANGED vars
  BY <1>1, <1>5 DEF vars
<1>6. ASSUME NEW r \in Requests, InsertRow(r) \/ InsertNext(r) \/ Update(r)
      PROVE  UniqueIds'
  BY <1>6, InsertsKeepUnique, UpdateKeepsUnique
<1> QED BY <1>1, <1>2, <1>3, <1>4, <1>5, <1>6, ConstantsAssumption DEF Next

\* In every reachable state the id of an installment is that of one row.
THEOREM IdsAreUnique == Spec => []UniqueIds
<1>1. Init => UniqueIds
  BY DEF Init, UniqueIds
<1> QED BY <1>1, Invariance, IdsInvariance, UniqueNext, PTL DEF Spec
=============================================================================
