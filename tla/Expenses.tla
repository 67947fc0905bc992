------------------------------ MODULE Expenses ------------------------------
(***************************************************************************)
(* The expenses of the service: ExpensesService, the part of               *)
(* PaymentMethodsService and GroupsService it calls, and the tables        *)
(* expenses, expense_splits, installment_plans and payment_methods behind  *)
(* their repositories.                                                     *)
(*                                                                         *)
(* Every HTTP request is a process.  The code opens no transaction, so a   *)
(* request is a sequence of database statements and other requests run at  *)
(* every await between two of them; one action here is one statement on a  *)
(* table that changes, with the synchronous code around it.  A write with  *)
(* `include` is one transaction, but a read with it is one SELECT for each *)
(* table: the row closeCycle clones is read first and its splits after it. *)
(* Groups and their members never change once created (there is no         *)
(* invite), so reads of them are folded into the action beside them.       *)
(***************************************************************************)
EXTENDS InstallmentMath, Splits, FiniteSets

CONSTANTS
    Requests,            \* each one is one HTTP request, used at most once
    MayFail,             \* the requests an error or a crash may cut short
    Users, Groups,
    DefaultGroups,       \* the groups with isDefault, called "Personal"
    Members,             \* a group's user ids, in GroupMember id order
    Methods,             \* payment method ids
    Owner,               \* PaymentMethod.userId
    InitialType,         \* PaymentMethod.type at the start
    PatchableMethods,    \* the methods whose type their owner may patch
    DeletableMethods,    \* the methods their owner may delete
    CreateBodies,        \* the bodies of POST /expenses and who sends them
    CloseBodies,         \* of POST /expenses/close-cycle
    PatchBodies,         \* of PATCH /expenses/:id
    Deleters,            \* the users that send DELETE /expenses/:id
    NoPlan, NoMethod, NoBody, NoJob     \* null

VARIABLES
    methods,             \* payment_methods: the type of each id, or "DELETED"
    plans,               \* installment_plans; a plan's id is the request that made it
    expenses,            \* expenses with their splits
    pc,                  \* where each request is
    body,                \* what it was sent
    todo,                \* closeCycle: the plans it read and has not come to yet
    job,                 \* closeCycle: the plan it is at and the row it clones, as read
    issued               \* history: every installment row ever inserted

db == <<methods, plans, expenses, issued>>
vars == <<methods, plans, expenses, pc, body, todo, job, issued>>

-----------------------------------------------------------------------------

MethodType == {"CREDIT", "OTHER"}            \* OTHER is CASH or DEBIT

\* A row is inserted by one request, and a request inserts one row per plan.
RowId == [by : Requests, plan : Requests \cup {NoPlan}]

Split == [strategy : SplitStrategy \cup {NoStrategy},
          members : Seq([user : Users, share : Nat])]

\* installments = 0 is an absent installmentsCount; the DTO asks for at least 2.
CreateBody == [user : Users, group : Groups, method : Methods,
               amount : Nat \ {0}, installments : Nat \ {1}, split : Split]
CloseBody == [user : Users, method : Methods]
\* amount = 0 is an absent amount.
PatchBody == [user : Users, amount : Nat, method : Methods \cup {NoMethod}]

PatchCall == [user : Users, amount : Nat, method : Methods \cup {NoMethod},
              target : RowId]
DeleteCall == [user : Users, target : RowId]

Plan == [method : Methods, total : Nat \ {0}, count : Nat \ {0, 1},
         current : Nat \ {0}, completed : BOOLEAN]
Snapshot == [plan : Requests, total : Nat \ {0}, count : Nat \ {0, 1},
             current : Nat \ {0}]

Row == [id : RowId, group : Groups, method : Methods, creator : Users,
        amount : Nat \ {0}, plan : Requests \cup {NoPlan}, number : Nat,
        splits : Seq([user : Users, amount : Int])]
Charge == [by : Requests, plan : Requests, number : Nat, amount : Nat \ {0}]
Job == [plan : Snapshot, source : Row]

InFlight == {"insertPlan", "insertRow", "readPlans", "nextPlan", "readSplits",
             "insertNext", "advance", "checkMethod", "update", "delete"}
Ended == {"done", "rejected", "failed"}

ASSUME ConstantsAssumption ==
    /\ MayFail \subseteq Requests
    /\ DefaultGroups \subseteq Groups
    /\ Members \in [Groups -> Seq(Users)]
    /\ Owner \in [Methods -> Users]
    /\ InitialType \in [Methods -> MethodType]
    /\ PatchableMethods \subseteq Methods
    /\ DeletableMethods \subseteq Methods
    /\ CreateBodies \subseteq CreateBody
    /\ CloseBodies \subseteq CloseBody
    /\ PatchBodies \subseteq PatchBody
    /\ Deleters \subseteq Users

ASSUME NullsAssumption ==
    /\ NoPlan \notin Requests \cup Plan
    /\ NoMethod \notin Methods \cup [owner : Users, type : MethodType]

Init ==
    /\ methods = InitialType
    /\ plans = [p \in Requests |-> NoPlan]
    /\ expenses = {}
    /\ pc = [r \in Requests |-> "idle"]
    /\ body = [r \in Requests |-> NoBody]
    /\ todo = [r \in Requests |-> {}]
    /\ job = [r \in Requests |-> NoJob]
    /\ issued = {}

-----------------------------------------------------------------------------
(* What the handlers ask the other services and the tables.               *)

IsMember(u, g) == u \in Range(Members[g])
Exists(m) == methods[m] # "DELETED"
\* Mistake: any method that exists will do.
OwnsAny(u, m) == Exists(m)
Owns(u, m) == Exists(m) /\ Owner[m] = u
OwnsCredit(u, m) == Owns(u, m) /\ methods[m] = "CREDIT"

PlanIds == {p \in Requests : plans[p] # NoPlan}
\* Mistake: the completed plans of the card are closed again.
PlansOnCard(m) == {p \in PlanIds : plans[p].method = m}
ActivePlans(m) ==
    {p \in PlanIds : plans[p].method = m /\ ~plans[p].completed}
Read(p) == [plan |-> p, total |-> plans[p].total, count |-> plans[p].count,
            current |-> plans[p].current]

\* Mistake: the rows of the card, for those of the plan.
RowsOnCard(p) == {e \in expenses : e.method = plans[p].method}
RowsOf(p) == {e \in expenses : e.plan = p}
\* ORDER BY installment_number DESC LIMIT 1 leaves the choice among equals open.
Latest(p) == {e \in RowsOf(p) : \A f \in RowsOf(p) : f.number <= e.number}

WithId(id) == {e \in expenses : e.id = id}

\* The foreign keys that keep a payment method: those of expenses and of plans.
ReferencedByExpenses(m) == \E e \in expenses : e.method = m
ReferencedByPlans(m) == \E p \in PlanIds : plans[p].method = m
Referenced(m) == ReferencedByExpenses(m) \/ ReferencedByPlans(m)

-----------------------------------------------------------------------------
(* Moving a request on.  What an ended request knew is dropped.            *)

Go(r, step) ==
    /\ pc' = [pc EXCEPT ![r] = step]
    /\ UNCHANGED <<body, todo, job>>

End(r, outcome) ==
    /\ pc' = [pc EXCEPT ![r] = outcome]
    /\ body' = [body EXCEPT ![r] = NoBody]
    /\ todo' = [todo EXCEPT ![r] = {}]
    /\ job' = [job EXCEPT ![r] = NoJob]

Accept(r, call, step) ==
    /\ pc' = [pc EXCEPT ![r] = step]
    /\ body' = [body EXCEPT ![r] = call]
    /\ UNCHANGED <<todo, job, db>>

Reject(r) == End(r, "rejected") /\ UNCHANGED db

\* INSERT INTO expenses, with its splits; a missing payment method makes the
\* foreign key fail, which the client sees as a 500.
InsertExpense(r, row, step) ==
    IF Exists(row.method)
    THEN /\ expenses' = expenses \cup {row}
         /\ issued' = IF row.plan = NoPlan THEN issued
                      ELSE issued \cup {[by |-> r, plan |-> row.plan,
                                         number |-> row.number,
                                         amount |-> row.amount]}
         /\ step
         /\ UNCHANGED <<methods, plans>>
    ELSE End(r, "failed") /\ UNCHANGED db

-----------------------------------------------------------------------------
(* POST /expenses                                                          *)

FirstAmount(b) == InstallmentAmount(b.amount, b.installments, 1)

CreateStart(r) ==
    /\ pc[r] = "idle"
    /\ \E b \in CreateBodies :
          IF /\ IsMember(b.user, b.group)
             /\ Owns(b.user, b.method)
             /\ b.installments = 0 \/ FirstAmount(b) >= 1
          THEN Accept(r, b, IF b.installments = 0 THEN "insertRow" ELSE "insertPlan")
          ELSE Reject(r)

InsertPlan(r) ==
    /\ pc[r] = "insertPlan"
    /\ IF Exists(body[r].method)
       THEN /\ plans' = [plans EXCEPT ![r] =
                           [method |-> body[r].method, total |-> body[r].amount,
                            count |-> body[r].installments,
                            current |-> 1, completed |-> FALSE]]
            /\ Go(r, "insertRow")
            /\ UNCHANGED <<methods, expenses, issued>>
       ELSE End(r, "failed") /\ UNCHANGED db

\* The row a create inserts: the whole expense, or the first installment.
NewRow(r) ==
    LET b == body[r]
        inPlan == b.installments # 0
        amount == IF inPlan THEN FirstAmount(b) ELSE b.amount
    IN  [id |-> [by |-> r, plan |-> IF inPlan THEN r ELSE NoPlan],
         group |-> b.group, method |-> b.method, creator |-> b.user,
         amount |-> amount,
         plan |-> IF inPlan THEN r ELSE NoPlan,
         number |-> IF inPlan THEN 1 ELSE 0,
         splits |-> IF b.group \in DefaultGroups THEN << >>
                    ELSE BuildSplits(b.split, amount, Members[b.group])]

\* buildSplits runs here, after the plan is in the table: what it throws on is
\* found out too late to leave nothing behind.
InsertRow(r) ==
    /\ pc[r] = "insertRow"
    /\ LET b == body[r]
           amount == IF b.installments = 0 THEN b.amount ELSE FirstAmount(b)
       IN  IF \/ b.group \in DefaultGroups
              \/ SplitAccepted(b.split, amount, Members[b.group])
           THEN InsertExpense(r, NewRow(r), End(r, "done"))
           ELSE Reject(r)

-----------------------------------------------------------------------------
(* POST /expenses/close-cycle                                              *)

CloseStart(r) ==
    /\ pc[r] = "idle"
    /\ \E b \in CloseBodies :
          IF OwnsCredit(b.user, b.method)
          THEN Accept(r, b, "readPlans")
          ELSE Reject(r)

ReadPlans(r) ==
    /\ pc[r] = "readPlans"
    /\ todo' = [todo EXCEPT ![r] = {Read(p) : p \in ActivePlans(body[r].method)}]
    /\ pc' = [pc EXCEPT ![r] = "nextPlan"]
    /\ UNCHANGED <<body, job, db>>

\* Mistake: the turn of a plan that has no row to clone comes again.
LeftUnlessCloned(r, s) == IF RowsOf(s.plan) = {} THEN todo[r] ELSE todo[r] \ {s}
Left(r, s) == todo[r] \ {s}

\* One turn of the loop up to the splits: `continue` when the plan has no row.
NextPlan(r) ==
    /\ pc[r] = "nextPlan"
    /\ \E s \in todo[r] :
          /\ todo' = [todo EXCEPT ![r] = Left(r, s)]
          /\ \/ /\ RowsOf(s.plan) = {}
                /\ UNCHANGED <<pc, job>>
             \/ \E e \in Latest(s.plan) :
                   /\ job' = [job EXCEPT ![r] =
                                [plan |-> s, source |-> [e EXCEPT !.splits = << >>]]]
                   /\ pc' = [pc EXCEPT ![r] = "readSplits"]
    /\ UNCHANGED <<body, db>>

\* A row that is deleted by now took its splits with it: it is cloned without any.
ReadSplits(r) ==
    /\ pc[r] = "readSplits"
    /\ LET rows == WithId(job[r].source.id)
       IN  \/ rows = {} /\ UNCHANGED job
           \/ \E e \in rows : job' = [job EXCEPT ![r].source.splits = e.splits]
    /\ pc' = [pc EXCEPT ![r] = "insertNext"]
    /\ UNCHANGED <<body, todo, db>>

CloseEnd(r) ==
    /\ pc[r] = "nextPlan"
    /\ todo[r] = {}
    /\ End(r, "done")
    /\ UNCHANGED db

\* The next installment: everything but the amount is cloned from the source.
NextRow(r) ==
    LET s == job[r].plan
        source == job[r].source
        amount == InstallmentAmount(s.total, s.count, s.current + 1)
    IN  [id |-> [by |-> r, plan |-> s.plan],
         group |-> source.group, method |-> source.method,
         creator |-> source.creator, amount |-> amount,
         plan |-> s.plan, number |-> s.current + 1,
         splits |-> ScaleSplits(source.splits, source.amount, amount)]

InsertNext(r) ==
    /\ pc[r] = "insertNext"
    /\ InsertExpense(r, NextRow(r), Go(r, "advance"))

\* Mistakes: what is written is the installment that was current; or what the plan
\* is at by now and one more, as an increment would.
NotAdvanced(r) == job[r].plan.current
AdvancedByOne(r) == plans[job[r].plan.plan].current + 1
\* The plan is set from what was read before the loop, whatever it is by now.
Advanced(r) == job[r].plan.current + 1

\* Mistake: a plan is complete one installment too late.
BeyondLast(number, count) == number > count
IsLast(number, count) == number >= count

Advance(r) ==
    /\ pc[r] = "advance"
    /\ LET s == job[r].plan
       IN  plans' = [plans EXCEPT ![s.plan].current = Advanced(r),
                                  ![s.plan].completed = IsLast(Advanced(r), s.count)]
    /\ pc' = [pc EXCEPT ![r] = "nextPlan"]
    /\ job' = [job EXCEPT ![r] = NoJob]
    /\ UNCHANGED <<methods, expenses, body, todo, issued>>

-----------------------------------------------------------------------------
(* PATCH and DELETE /expenses/:id, for any member of the expense's group.  *)

\* Mistake: the amount of an installment can be patched like any other.
MayPatchAny(b, e) == TRUE
MayPatch(b, e) == b.amount = 0 \/ e.plan = NoPlan

PatchStart(r) ==
    /\ pc[r] = "idle"
    /\ \E b \in PatchBodies, e \in expenses :
          LET call == [user |-> b.user, amount |-> b.amount,
                       method |-> b.method, target |-> e.id]
          IN  IF /\ IsMember(b.user, e.group)
                 /\ MayPatch(b, e)
              THEN Accept(r, call, IF b.method = NoMethod THEN "update"
                                   ELSE "checkMethod")
              ELSE Reject(r)

CheckMethod(r) ==
    /\ pc[r] = "checkMethod"
    /\ IF Owns(body[r].user, body[r].method)
       THEN Go(r, "update") /\ UNCHANGED db
       ELSE Reject(r)

Patched(e, call) ==
    [e EXCEPT !.amount = IF call.amount = 0 THEN @ ELSE call.amount,
              !.method = IF call.method = NoMethod THEN @ ELSE call.method]

\* UPDATE by id: a row that is gone is P2025, answered with a 404; a payment
\* method that is gone fails the foreign key.
Update(r) ==
    /\ pc[r] = "update"
    /\ LET call == body[r]
           target == WithId(call.target)
           missing == call.method # NoMethod /\ ~Exists(call.method)
       IN  \/ target = {} /\ Reject(r)
           \/ target # {} /\ missing /\ End(r, "failed") /\ UNCHANGED db
           \/ /\ target # {} /\ ~missing
              /\ expenses' = (expenses \ target) \cup {Patched(e, call) : e \in target}
              /\ End(r, "done")
              /\ UNCHANGED <<methods, plans, issued>>

DeleteStart(r) ==
    /\ pc[r] = "idle"
    /\ \E u \in Deleters, e \in expenses :
          IF IsMember(u, e.group)
          THEN Accept(r, [user |-> u, target |-> e.id], "delete")
          ELSE Reject(r)

\* Mistake: to delete an installment takes its plan back to the one before.
DeleteAndStepBack(r) ==
    /\ pc[r] = "delete"
    /\ LET target == WithId(body[r].target)
       IN  /\ expenses' = expenses \ target
           /\ plans' = [p \in Requests |->
                          IF \E e \in target : e.plan = p /\ e.number = plans[p].current
                                                /\ e.number > 1
                          THEN [plans[p] EXCEPT !.current = @ - 1] ELSE plans[p]]
           /\ End(r, IF target = {} THEN "rejected" ELSE "done")
    /\ UNCHANGED <<methods, issued>>

Delete(r) ==
    /\ pc[r] = "delete"
    /\ LET target == WithId(body[r].target)
       IN  /\ expenses' = expenses \ target
           /\ End(r, IF target = {} THEN "rejected" ELSE "done")
    /\ UNCHANGED <<methods, plans, issued>>

-----------------------------------------------------------------------------
(* Around the requests: PATCH and DELETE /payment-methods/:id, each one    *)
(* statement on the table as far as expenses can see, and what cuts a      *)
(* request short between two statements: a database error or a crash.      *)

PatchMethodType(m) ==
    /\ Exists(m)
    /\ \E t \in MethodType \ {methods[m]} :
          methods' = [methods EXCEPT ![m] = t]
    /\ UNCHANGED <<plans, expenses, pc, body, todo, job, issued>>

DeleteMethod(m) ==
    /\ Exists(m)
    /\ ~Referenced(m)
    /\ methods' = [methods EXCEPT ![m] = "DELETED"]
    /\ UNCHANGED <<plans, expenses, pc, body, todo, job, issued>>

Abort(r) ==
    /\ pc[r] \in InFlight
    /\ End(r, "failed")
    /\ UNCHANGED db

-----------------------------------------------------------------------------

Start(r) == CreateStart(r) \/ CloseStart(r) \/ PatchStart(r) \/ DeleteStart(r)

\* What a request does by itself once it has started.
Step(r) ==
    \/ InsertPlan(r) \/ InsertRow(r)
    \/ ReadPlans(r) \/ NextPlan(r) \/ ReadSplits(r) \/ InsertNext(r) \/ Advance(r)
    \/ CloseEnd(r)
    \/ CheckMethod(r) \/ Update(r)
    \/ Delete(r)

Next ==
    \/ \E r \in Requests : Start(r) \/ Step(r)
    \/ \E r \in MayFail : Abort(r)
    \/ \E m \in PatchableMethods : PatchMethodType(m)
    \/ \E m \in DeletableMethods : DeleteMethod(m)

Spec == Init /\ [][Next]_vars

\* Node keeps running the handlers and the database answers.
FairSpec == Spec /\ \A r \in Requests : WF_vars(Step(r))

\* A client that waits for each answer before it sends the next request.
OneAtATime == Cardinality({r \in Requests : pc[r] \in InFlight}) <= 1
SerialSpec == Init /\ [][Next /\ OneAtATime']_vars

-----------------------------------------------------------------------------
(* Properties of every interleaving, with requests cut short anywhere.     *)

\* The tables and what each request knows hold values of the right kind, and a
\* request knows what the step it is at will read.
TypeOK ==
    /\ methods \in [Methods -> MethodType \cup {"DELETED"}]
    /\ plans \in [Requests -> Plan \cup {NoPlan}]
    /\ expenses \subseteq Row
    /\ issued \subseteq Charge
    /\ pc \in [Requests -> InFlight \cup Ended \cup {"idle"}]
    /\ body \in [Requests -> CreateBodies \cup CloseBodies \cup PatchCall
                                \cup DeleteCall \cup {NoBody}]
    /\ todo \in [Requests -> SUBSET Snapshot]
    /\ job \in [Requests -> Job \cup {NoJob}]
    /\ \A r \in Requests :
          /\ pc[r] \in {"insertPlan", "insertRow"} => body[r] \in CreateBodies
          /\ pc[r] = "readPlans" => body[r] \in CloseBodies
          /\ pc[r] \in {"readSplits", "insertNext", "advance"} => job[r] \in Job
          /\ pc[r] \in {"checkMethod", "update"} => body[r] \in PatchCall
          /\ pc[r] = "checkMethod" => body[r].method # NoMethod
          /\ pc[r] = "delete" => body[r] \in DeleteCall

\* closeCycle writes currentInstallment and completed from a stale read, and
\* still no interleaving leaves a plan past its last installment or with a
\* `completed` that does not say whether it is at the last one.
PlanProgress ==
    \A p \in PlanIds :
        /\ plans[p].current <= plans[p].count
        /\ plans[p].completed <=> plans[p].current = plans[p].count

\* Every installment ever charged has a number its plan has, and the amount
\* computeInstallmentAmount gives that number, which is a cent or more.
ChargesMatchPlan ==
    \A i \in issued :
        LET p == plans[i.plan]
        IN  /\ p # NoPlan
            /\ i.number \in 1..p.count
            /\ i.amount = InstallmentAmount(p.total, p.count, i.number)

\* No installment row in the table differs from what was charged: patch refuses
\* an amount for it whenever the row is read and written.
RowsAsCharged ==
    \A e \in expenses : e.plan # NoPlan =>
        [by |-> e.id.by, plan |-> e.plan, number |-> e.number,
         amount |-> e.amount] \in issued

\* Installments are charged without a gap, and a plan is never ahead of what it
\* charged, whichever closeCycle wrote last and wherever one was cut short.
NoGaps ==
    /\ \A i \in issued : \A n \in 1..i.number :
          \E j \in issued : j.plan = i.plan /\ j.number = n
    /\ \A p \in PlanIds : plans[p].current > 1 =>
          \E i \in issued : i.plan = p /\ i.number = plans[p].current

\* closeCycle clones from whichever row is last: through any chain of clones the
\* installments of a purchase stay with the group and the creator it was made by.
OneParty ==
    \A e, f \in expenses : e.plan # NoPlan /\ e.plan = f.plan =>
        e.group = f.group /\ e.creator = f.creator

\* An expense is always paid with a method of one of its group's members.
MethodInGroup ==
    \A e \in expenses : IsMember(Owner[e.method], e.group)

Whole(e) ==
    IF e.group \in DefaultGroups THEN e.splits = << >>
    ELSE e.splits # << >> /\ SplitSum(e.splits) = e.amount

\* An installment of the purchase p was charged and its row is gone.
Lost(p) ==
    \E i \in issued : i.plan = p /\ WithId([by |-> i.by, plan |-> p]) = {}

\* The splits of an installment of a shared expense add up to its amount, for the
\* first one and for each one scaled from another.  It has none at all only in a
\* purchase that lost a row: one closeCycle read before it was deleted, and its
\* splits after.
InstallmentSplitsAddUp ==
    \A e \in expenses : e.plan # NoPlan =>
        Whole(e) \/ (e.splits = << >> /\ Lost(e.plan))

\* Percentages may add up to a hundredth of a percent too much, and what they are
\* over is taken from the last split: it may fall below zero by that part of the
\* amount and no more, also after it was scaled from one installment to the next.
NegativeOnlyByTolerance ==
    \A e \in expenses : e.plan # NoPlan =>
        \A i \in DOMAIN e.splits : e.splits[i].amount * 10000 >= -e.amount

\* Every request ends, whatever the others do to the plans it is closing.
RequestsEnd == \A r \in Requests : pc[r] \in InFlight ~> pc[r] \in Ended

-----------------------------------------------------------------------------
(* Properties of one request at a time with none cut short (SerialSpec).   *)

IssuedOf(p) == {i \in issued : i.plan = p}

\* Between requests a plan has charged exactly the installments up to its
\* current one, each of them once, unless its creation never got to the first.
Settled ==
    (\A r \in Requests : pc[r] \notin InFlight) =>
        \A p \in PlanIds :
            \/ IssuedOf(p) = {}
            \/ /\ {i.number : i \in IssuedOf(p)} = 1..plans[p].current
               /\ Cardinality(IssuedOf(p)) = plans[p].current

\* A plan never goes back: closeCycle neither lowers the current installment nor
\* reopens a completed plan.
NeverGoesBack ==
    [][\A p \in PlanIds : /\ plans'[p].current >= plans[p].current
                          /\ plans[p].completed => plans'[p].completed]_vars

\* Equal installments of a purchase are divided alike: rounding does not drift
\* from clone to clone.
SameDivision ==
    \A e, f \in expenses :
        e.plan # NoPlan /\ e.plan = f.plan /\ e.amount = f.amount =>
            e.splits = f.splits

-----------------------------------------------------------------------------
(* What the repository says of the code and some interleaving breaks.      *)

\* "no debería pasar": closeCycle finds a row to clone for every active plan.
PlanHasRow ==
    \A r \in Requests : pc[r] = "nextPlan" =>
        \A s \in todo[r] : RowsOf(s.plan) # {}

\* "las cuotas solo aplican a tarjetas CREDIT".
PlansOnCredit ==
    \A p \in PlanIds : methods[plans[p].method] = "CREDIT"

\* The splits of a shared expense add up to the amount of the expense.
SplitsAddUp ==
    \A e \in expenses : e.group \notin DefaultGroups => SplitSum(e.splits) = e.amount
=============================================================================
