------------------------- MODULE ExpensesInvariant -------------------------
(***************************************************************************)
(* The inductive invariant of Expenses.  The properties of the tables are  *)
(* not inductive by themselves, because a request acts on what it read     *)
(* some steps ago; what is added here says how much of that is still true  *)
(* when it acts.                                                           *)
(***************************************************************************)
EXTENDS Expenses

IsCharged(p, n) == \E i \in issued : i.plan = p /\ i.number = n

\* What closeCycle read of a plan is out of date in nothing but its current
\* installment, and the next one it computes from it is one the plan has.
StillTrue(s) ==
    /\ plans[s.plan] # NoPlan
    /\ plans[s.plan].total = s.total
    /\ plans[s.plan].count = s.count
    /\ s.current < s.count

\* What a request knows, at the step it is at.
RequestInv(r) ==
    /\ pc[r] \in {"idle", "insertPlan"} => plans[r] = NoPlan
    /\ pc[r] = "insertPlan" =>
          /\ body[r] \in CreateBodies
          /\ body[r].installments # 0
          /\ body[r].installments <= body[r].amount
    /\ pc[r] = "insertRow" =>
          /\ body[r] \in CreateBodies
          /\ body[r].installments # 0 =>
                /\ plans[r] # NoPlan
                /\ plans[r].total = body[r].amount
                /\ plans[r].count = body[r].installments
    /\ pc[r] = "readPlans" => body[r] \in CloseBodies
    /\ \A s \in todo[r] :
          StillTrue(s) /\ (s.current > 1 => IsCharged(s.plan, s.current))
    /\ pc[r] \in {"readSplits", "insertNext", "advance"} =>
          job[r] \in Job /\ StillTrue(job[r].plan)
    /\ pc[r] \in {"readSplits", "insertNext"} =>
          /\ IsCharged(job[r].plan.plan, job[r].plan.current)
          /\ job[r].source.plan # NoPlan
    /\ pc[r] = "advance" => IsCharged(job[r].plan.plan, job[r].plan.current + 1)
    /\ pc[r] \in {"checkMethod", "update"} =>
          /\ body[r] \in PatchCall
          /\ body[r].amount # 0 => body[r].target.plan = NoPlan
    /\ pc[r] = "checkMethod" => body[r].method # NoMethod
    /\ pc[r] = "delete" => body[r] \in DeleteCall

\* The types of what requests know, without what depends on the step.
LocalType ==
    /\ pc \in [Requests -> InFlight \cup Ended \cup {"idle"}]
    /\ body \in [Requests -> CreateBodies \cup CloseBodies \cup PatchCall
                                \cup DeleteCall \cup {NoBody}]
    /\ todo \in [Requests -> SUBSET Snapshot]
    /\ job \in [Requests -> Job \cup {NoJob}]

TableInv ==
    /\ methods \in [Methods -> MethodType \cup {"DELETED"}]
    /\ plans \in [Requests -> Plan \cup {NoPlan}]
    /\ expenses \subseteq Row
    /\ issued \subseteq Charge
    /\ \A p \in PlanIds : plans[p].count <= plans[p].total
    /\ \A e \in expenses : e.id.plan = e.plan
    /\ PlanProgress
    /\ ChargesMatchPlan
    /\ RowsAsCharged
    /\ NoGaps

IInv == LocalType /\ TableInv /\ \A r \in Requests : RequestInv(r)

\* Before the insert of a row of its own.
Early == {"idle", "insertPlan", "insertRow"}

-----------------------------------------------------------------------------
(* Whose the rows are.  A clone copies what was read of a row that may be  *)
(* gone by then, and a patch writes to whichever row has the id it checked *)
(* earlier: so what is said of the rows of the table has to be said of the *)
(* rows closeCycle holds too, and of the rows a patch may still reach.     *)

Held == {job[r].source : r \in {q \in Requests : pc[q] \in {"readSplits", "insertNext"}}}
Known == expenses \cup Held

\* The ids of one row, or of two installments of one purchase.
Kin(i, j) == i = j \/ (i.plan # NoPlan /\ i.plan = j.plan)

\* The requests an id names are past the insert of their own row.
Begun(id) ==
    /\ pc[id.by] \notin Early
    /\ id.plan # NoPlan => pc[id.plan] \notin Early

RowInv(e) ==
    /\ e.id.plan = e.plan
    /\ Begun(e.id)
    /\ IsMember(Owner[e.method], e.group)

KnownInv ==
    /\ \A e \in Known : RowInv(e)
    /\ \A e, f \in Known : Kin(e.id, f.id) =>
          e.group = f.group /\ e.creator = f.creator

PartyInv(r) ==
    /\ pc[r] \in {"insertPlan", "insertRow"} =>
          /\ IsMember(body[r].user, body[r].group)
          /\ Owner[body[r].method] = body[r].user
    /\ pc[r] \in {"readSplits", "insertNext"} => job[r].source.plan = job[r].plan.plan
    /\ pc[r] \in {"checkMethod", "update"} =>
          /\ Begun(body[r].target)
          /\ \A e \in Known : Kin(body[r].target, e.id) =>
                IsMember(body[r].user, e.group)
    /\ pc[r] = "update" /\ body[r].method # NoMethod =>
          Owner[body[r].method] = body[r].user

PartiesInv == KnownInv /\ \A r \in Requests : PartyInv(r)

-----------------------------------------------------------------------------
(* How the rows are divided.  closeCycle reads the splits of a row some    *)
(* steps after the row.  The row it finds by its id is the one it holds    *)
(* because no request charges a plan twice, so ids never come back; for    *)
(* the same reason a row that is lost stays lost.                          *)

HasCharged(r, p) == \E i \in issued : i.by = r /\ i.plan = p

ChargeOf(e) ==
    [by |-> e.id.by, plan |-> e.plan, number |-> e.number, amount |-> e.amount]

OnceInv(r) ==
    /\ pc[r] \in Early \cup {"readPlans"} => \A p \in Requests : ~HasCharged(r, p)
    /\ \A s \in todo[r] : ~HasCharged(r, s.plan)
    /\ \A s, t \in todo[r] : s.plan = t.plan => s = t
    /\ pc[r] \in {"readSplits", "insertNext"} =>
          /\ ~HasCharged(r, job[r].plan.plan)
          /\ \A s \in todo[r] : s.plan # job[r].plan.plan
          /\ ChargeOf(job[r].source) \in issued

IdsInv ==
    /\ \A i, j \in issued : i.by = j.by /\ i.plan = j.plan => i = j
    /\ \A r \in Requests : OnceInv(r)

UniqueIds == \A e, f \in expenses : e.plan # NoPlan /\ e.id = f.id => e = f

\* The rows with the splits they had when they were read.
ReadWhole == {job[r].source : r \in {q \in Requests : pc[q] = "insertNext"}}

Divided(e) ==
    e.plan # NoPlan =>
        /\ Whole(e) \/ (e.splits = << >> /\ Lost(e.plan))
        /\ NearlyPositive(e.splits, e.amount)

SplitsInv ==
    /\ \A e \in expenses \cup ReadWhole : Divided(e)
    /\ \A r \in Requests : pc[r] = "readSplits" => job[r].source.splits = << >>

\* The foreign keys: no expense and no plan is left without its payment method.
UsedExist ==
    /\ \A e \in expenses : Exists(e.method)
    /\ \A p \in PlanIds : Exists(plans[p].method)

-----------------------------------------------------------------------------
(* A client that waits for each answer.  What closeCycle reads stays true  *)
(* until it writes, so every number is charged to a plan once, and what it *)
(* clones is the last row of the plan.                                     *)

Busy == {r \in Requests : pc[r] \in InFlight}

Fresh(s) == plans[s.plan].current = s.current

AloneInv ==
    /\ IsFiniteSet(Busy)
    /\ \A q, r \in Busy : q = r

FreshInv(r) ==
    /\ r \notin Busy => todo[r] = {}
    /\ \A s \in todo[r] : Fresh(s)
    /\ \A s, t \in todo[r] : s.plan = t.plan => s = t
    /\ pc[r] \in {"readSplits", "insertNext", "advance"} =>
          /\ Fresh(job[r].plan)
          /\ \A s \in todo[r] : s.plan # job[r].plan.plan
    /\ pc[r] = "readSplits" =>
          \E e \in Latest(job[r].plan.plan) : job[r].source = [e EXCEPT !.splits = << >>]
    /\ pc[r] = "insertNext" => job[r].source \in Latest(job[r].plan.plan)

SerialInv == AloneInv /\ \A r \in Requests : FreshInv(r)

\* The installments 1 to n of a plan are charged, each of them once, and no others.
ChargedUpTo(p, n) ==
    /\ {i.number : i \in IssuedOf(p)} = 1..n
    /\ \A i, j \in IssuedOf(p) : i.number = j.number => i = j

\* Needs that no request is cut short: a plan is one behind while it is advanced.
ChargedInv ==
    /\ \A p \in Requests : pc[p] \in Early => IssuedOf(p) = {}
    /\ \A p \in PlanIds :
          \/ IssuedOf(p) = {}
          \/ ChargedUpTo(p, plans[p].current)
          \/ /\ \E r \in Requests : pc[r] = "advance" /\ job[r].plan.plan = p
             /\ ChargedUpTo(p, plans[p].current + 1)

\* A plan is at most one behind what it charged, even if a request is cut short.
OneBehind == \A i \in issued : i.number <= plans[i.plan].current + 1

DivisionInv == OneBehind /\ SameDivision
=============================================================================
