--------------------------- MODULE PaymentMethods ---------------------------
(***************************************************************************)
(* PaymentMethodsService and the table payment_methods: who owns a method, *)
(* what its type is and, for a CREDIT one, on which days its billing cycle *)
(* starts and ends.                                                        *)
(*                                                                         *)
(* A patch and a delete are a read, which checks the owner, and a write    *)
(* that comes an await later; other requests run in between.  Expenses has *)
(* what these writes mean to the expenses (PatchMethodType, DeleteMethod). *)
(***************************************************************************)
EXTENDS FiniteSets, Naturals

CONSTANTS
    Requests,            \* each one is one HTTP request, used at most once
    MayFail,             \* the requests an error or a crash may cut short
    Users,
    Days, DaysOfMonth,   \* the days a body may carry for a cycle, and those in 1..31
    CreateBodies,        \* the bodies of POST /payment-methods and who sends them
    PatchBodies,         \* of PATCH /payment-methods/:id
    Deleters,            \* the users that send DELETE /payment-methods/:id
    NoMethod, NoDay, NoType, NoCall    \* null, or a field the body leaves out

VARIABLES
    methods,             \* payment_methods; a method's id is the request that made it
    used,                \* the ids that rows of other tables refer to
    pc,                  \* where each request is
    call                 \* what it was sent, and the row it read

vars == <<methods, used, pc, call>>

-----------------------------------------------------------------------------

Type == {"CASH", "DEBIT", "CREDIT"}

Method == [owner : Users, type : Type, start : Days \cup {NoDay},
           end : Days \cup {NoDay}]

\* The days are looked at only when the body itself says CREDIT: a create must have
\* both then, and a patch may leave either out, or the type.
CreateBody == {b \in Method : b.type = "CREDIT" => {b.start, b.end} \subseteq DaysOfMonth}
PatchBody ==
    {b \in [user : Users, type : Type \cup {NoType}, start : Days \cup {NoDay},
            end : Days \cup {NoDay}] :
        b.type = "CREDIT" => {b.start, b.end} \subseteq DaysOfMonth \cup {NoDay}}

PatchCall == [patch : PatchBodies, id : Requests, existing : Method]
DeleteCall == [user : Users, id : Requests]

InFlight == {"update", "delete"}
Ended == {"done", "rejected", "failed"}

ASSUME MethodConstants ==
    /\ MayFail \subseteq Requests
    /\ CreateBodies \subseteq CreateBody
    /\ PatchBodies \subseteq PatchBody
    /\ Deleters \subseteq Users
    /\ NoMethod \notin Method \cup [owner : Users, type : Type]
    /\ DaysOfMonth \subseteq Days
    /\ NoDay \notin Days
    /\ NoType \notin Type

Init ==
    /\ methods = [r \in Requests |-> NoMethod]
    /\ used = {}
    /\ pc = [r \in Requests |-> "idle"]
    /\ call = [r \in Requests |-> NoCall]

-----------------------------------------------------------------------------

Ids == {m \in Requests : methods[m] # NoMethod}

\* Mistake: whoever knows the id may write.
OwnsAny(u, m) == m \in Ids
Owns(u, m) == m \in Ids /\ methods[m].owner = u

End(r, outcome) ==
    /\ pc' = [pc EXCEPT ![r] = outcome]
    /\ call' = [call EXCEPT ![r] = NoCall]

Reject(r) == End(r, "rejected") /\ UNCHANGED <<methods, used>>

\* Mistake: the days are stored as they were sent.
CreatedAsSent(b) == b
\* Only a CREDIT method has a billing cycle, whatever the body says.
Created(b) ==
    IF b.type = "CREDIT" THEN b ELSE [b EXCEPT !.start = NoDay, !.end = NoDay]

Create(r) ==
    /\ pc[r] = "idle"
    /\ \E b \in CreateBodies : methods' = [methods EXCEPT ![r] = Created(b)]
    /\ End(r, "done")
    /\ UNCHANGED used

PatchStart(r) ==
    /\ pc[r] = "idle"
    /\ \E b \in PatchBodies, m \in Requests :
          IF Owns(b.user, m)
          THEN /\ pc' = [pc EXCEPT ![r] = "update"]
               /\ call' = [call EXCEPT ![r] =
                             [patch |-> b, id |-> m, existing |-> methods[m]]]
               /\ UNCHANGED <<methods, used>>
          ELSE Reject(r)

\* What the patch leaves out of the cycle is taken from the row that was read, and
\* what it leaves out of the type stays as it is in the row that is written.
NextType(b, existing) == IF b.type = NoType THEN existing.type ELSE b.type
Day(patched, existing) == IF patched = NoDay THEN existing ELSE patched

\* Mistake: the cycle of a method that stops being a credit card is not cleared.
PatchedCycleKept(row, b, existing) ==
    [row EXCEPT !.type = IF b.type = NoType THEN @ ELSE b.type,
                !.start = Day(b.start, existing.start),
                !.end = Day(b.end, existing.end)]
Patched(row, b, existing) ==
    LET isCredit == NextType(b, existing) = "CREDIT"
    IN  [row EXCEPT !.type = IF b.type = NoType THEN @ ELSE b.type,
                    !.start = IF isCredit THEN Day(b.start, existing.start) ELSE NoDay,
                    !.end = IF isCredit THEN Day(b.end, existing.end) ELSE NoDay]

\* Mistake: an upsert for an update brings back a method that was deleted.
Upsert(r) ==
    /\ pc[r] = "update"
    /\ LET c == call[r]
           row == IF c.id \in Ids THEN methods[c.id] ELSE c.existing
       IN  methods' = [methods EXCEPT ![c.id] = Patched(row, c.patch, c.existing)]
    /\ End(r, "done")
    /\ UNCHANGED used
\* UPDATE by id: a row that is gone is P2025, answered with a 404.
Update(r) ==
    /\ pc[r] = "update"
    /\ LET c == call[r]
       IN  \/ c.id \notin Ids /\ Reject(r)
           \/ /\ c.id \in Ids
              /\ methods' = [methods EXCEPT ![c.id] =
                               Patched(methods[c.id], c.patch, c.existing)]
              /\ End(r, "done")
              /\ UNCHANGED used

DeleteStart(r) ==
    /\ pc[r] = "idle"
    /\ \E u \in Deleters, m \in Requests :
          IF Owns(u, m)
          THEN /\ pc' = [pc EXCEPT ![r] = "delete"]
               /\ call' = [call EXCEPT ![r] = [user |-> u, id |-> m]]
               /\ UNCHANGED <<methods, used>>
          ELSE Reject(r)

\* Mistake: a method in use is deleted as well.
DeleteUsed(r) ==
    /\ pc[r] = "delete"
    /\ LET id == call[r].id
       IN  \/ id \notin Ids /\ Reject(r)
           \/ /\ id \in Ids
              /\ methods' = [methods EXCEPT ![id] = NoMethod]
              /\ End(r, "done")
              /\ UNCHANGED used
\* DELETE by id: gone is a 404, and the foreign keys of a method in use a 500.
Delete(r) ==
    /\ pc[r] = "delete"
    /\ LET id == call[r].id
       IN  \/ id \notin Ids /\ Reject(r)
           \/ id \in used /\ End(r, "failed") /\ UNCHANGED <<methods, used>>
           \/ /\ id \in Ids \ used
              /\ methods' = [methods EXCEPT ![id] = NoMethod]
              /\ End(r, "done")
              /\ UNCHANGED used

\* An expense or a plan is inserted with the method, or the last one is deleted.
Refer(m) ==
    /\ m \in Ids
    /\ used' = used \cup {m}
    /\ UNCHANGED <<methods, pc, call>>

Release(m) ==
    /\ m \in used
    /\ used' = used \ {m}
    /\ UNCHANGED <<methods, pc, call>>

Abort(r) ==
    /\ pc[r] \in InFlight
    /\ End(r, "failed")
    /\ UNCHANGED <<methods, used>>

Next ==
    \/ \E r \in Requests :
          \/ Create(r) \/ PatchStart(r) \/ Update(r) \/ DeleteStart(r) \/ Delete(r)
    \/ \E r \in MayFail : Abort(r)
    \/ \E m \in Requests : Refer(m) \/ Release(m)

Spec == Init /\ [][Next]_vars

-----------------------------------------------------------------------------

\* The table and what a request read from it are of the right kind, and nothing
\* refers to a method that is not there.
TypeOK ==
    /\ methods \in [Requests -> Method \cup {NoMethod}]
    /\ used \subseteq Ids
    /\ pc \in [Requests -> InFlight \cup Ended \cup {"idle"}]
    /\ call \in [Requests -> PatchCall \cup DeleteCall \cup {NoCall}]
    /\ \A r \in Requests :
          /\ pc[r] = "update" => call[r] \in PatchCall
          /\ pc[r] = "delete" => call[r] \in DeleteCall

HasCycleOnlyAsCredit(m) == m.type # "CREDIT" => m.start = NoDay /\ m.end = NoDay

\* The owner is checked an await before the write, and still no request changes
\* or deletes a method that is not its user's, and none changes whose it is.
OnlyOwnerWrites ==
    [][\A m \in Ids : methods'[m] # methods[m] =>
          \E r \in Requests :
             \/ /\ pc[r] = "update" /\ pc'[r] = "done"
                /\ call[r].id = m /\ call[r].patch.user = methods[m].owner
                /\ methods'[m] # NoMethod /\ methods'[m].owner = methods[m].owner
             \/ /\ pc[r] = "delete" /\ pc'[r] = "done"
                /\ call[r].id = m /\ call[r].user = methods[m].owner]_vars

Table == INSTANCE MethodTable WITH
    Ids <- Requests,
    Owners <- Users,
    Types <- Type,
    NoRow <- NoMethod,
    rows <- [m \in Requests |->
                IF m \in Ids
                THEN [owner |-> methods[m].owner, type |-> methods[m].type]
                ELSE NoMethod],
    given <- {m \in Requests : pc[m] # "idle"}

\* What the handlers do to the table is what Expenses relies on: a method that was
\* deleted stays deleted, also under a patch that read it before, one in use is
\* not deleted, and none changes hands.
KeepsTable == Table!Spec

\* The days are "solo para CREDIT" in the schema, and one race puts them elsewhere.
\* A patch leaves a billing cycle on what is not a credit card only when the type
\* was changed after it read the row; no chain of patches does so by itself.
CycleFollowsType ==
    [][\A r \in Requests : pc[r] = "update" /\ pc'[r] = "done" =>
          LET c == call[r]
          IN  methods[c.id].type = c.existing.type => HasCycleOnlyAsCredit(methods'[c.id])]_vars

\* The DTOs ask for days from 1 to 31 and one hole lets others through.
\* A day no month has gets into the table with a patch that does not say its type,
\* and with no other; once corrected, it comes back only with a patch that had read
\* it before.
BadDay(m) == ~({m.start, m.end} \subseteq DaysOfMonth \cup {NoDay})
BadDayNeedsNoType ==
    [][\A m \in Requests :
          /\ methods'[m] # NoMethod /\ BadDay(methods'[m])
          /\ methods[m] = NoMethod \/ ~BadDay(methods[m])
          => \E r \in Requests :
                /\ pc[r] = "update" /\ pc'[r] = "done" /\ call[r].id = m
                /\ \/ call[r].patch.type = NoType /\ BadDay(call[r].patch)
                   \/ BadDay(call[r].existing)]_vars
=============================================================================
