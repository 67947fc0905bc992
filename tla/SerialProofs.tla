---------------------------- MODULE SerialProofs ----------------------------
(***************************************************************************)
(* What a client that waits for each answer can rely on, for any number of *)
(* requests, plans and amounts.                                            *)
(*                                                                         *)
(* SerialInv says that what closeCycle read is still true when it writes:  *)
(* only one request is under way, and it removes a plan from what is left  *)
(* to do before it changes it.  It holds even if requests are cut short.   *)
(* It also keeps rounding from drifting (DivisionInv): a clone that is      *)
(* equal to some installment is equal to the one it is cloned from, and to *)
(* scale a division to its own amount changes nothing (ScaledToItself).    *)
(*                                                                         *)
(* When no request is cut short, every number of a plan is charged once    *)
(* and in turn (ChargedInv).  With the sum of what was charged so far      *)
(* (ChargesAddUp) follows that every statement is a step of Ledger or a    *)
(* stutter.                                                                *)
(***************************************************************************)
EXTENDS PartiesProofs

USE ConstantsAssumption, NullsAssumption

SerialNext == [Next /\ OneAtATime']_vars

\* What other requests know, and where they are.
OthersRest(r) ==
    \A q \in Requests \ {r} :
        pc'[q] = pc[q] /\ todo'[q] = todo[q] /\ job'[q] = job[q]

-----------------------------------------------------------------------------
(* One request at a time.                                                  *)

\* What a request does changes nothing of the others.
LEMMA RequestsApart ==
    ASSUME IInv, NEW r \in Requests, Start(r) \/ Step(r) \/ Abort(r)
    PROVE  OthersRest(r)
<1> USE DEF IInv, LocalType, OthersRest
<1>1. ASSUME NEW outcome, End(r, outcome) PROVE OthersRest(r)
  BY <1>1 DEF End
<1>2. ASSUME NEW step, Go(r, step) PROVE OthersRest(r)
  BY <1>2 DEF Go
<1>3. ASSUME NEW call, NEW step, Accept(r, call, step) PROVE OthersRest(r)
  BY <1>3 DEF Accept
<1> HIDE DEF IInv, LocalType, OthersRest
<1>4. CASE Start(r)
  BY <1>1, <1>3, <1>4 DEF Start, CreateStart, CloseStart, PatchStart, DeleteStart, Reject
<1>5. CASE InsertPlan(r) \/ InsertRow(r) \/ InsertNext(r)
  BY <1>1, <1>2, <1>5 DEF InsertPlan, InsertRow, InsertNext, InsertExpense, Reject
<1>6. CASE CloseEnd(r) \/ CheckMethod(r) \/ Update(r) \/ Delete(r) \/ Abort(r)
  BY <1>1, <1>2, <1>6 DEF CloseEnd, CheckMethod, Update, Delete, Abort, Reject
<1>7. CASE ReadPlans(r) \/ NextPlan(r) \/ Advance(r)
  BY <1>7 DEF ReadPlans, NextPlan, Advance, IInv, LocalType, OthersRest
<1>8. CASE ReadSplits(r)
  BY <1>8, SplitsAreRead DEF IInv, LocalType, OthersRest
<1> QED BY <1>4, <1>5, <1>6, <1>7, <1>8 DEF Step

\* Of a set with one element at most any two are the same.
LEMMA OneAtMost ==
    ASSUME NEW S, IsFiniteSet(S), Cardinality(S) <= 1
    PROVE  \A q, s \in S : q = s
<1> SUFFICES ASSUME S # {} PROVE \A q, s \in S : q = s
  OBVIOUS
<1>1. Cardinality(S) \in Nat /\ Cardinality(S) # 0
  BY FS_CardinalityType, FS_EmptySet
<1>2. Cardinality(S) = 1
  BY <1>1
<1>3. \E x : S = {x}
  BY <1>2, FS_Singleton
<1> QED BY <1>3

\* The requests under way stay finitely many, so that counting them means something,
\* and there is one at most.
LEMMA AloneNext ==
    ASSUME IInv, AloneInv, SerialNext
    PROVE  AloneInv'
<1>1. CASE UNCHANGED pc
  <2>1. Busy' = Busy
    BY <1>1 DEF Busy
  <2> QED BY <2>1 DEF AloneInv
<1>2. ASSUME NEW r \in Requests, OthersRest(r), OneAtATime' PROVE AloneInv'
  <2>1. Busy' \subseteq Busy \cup {r}
    BY <1>2 DEF OthersRest, Busy
  <2>2. IsFiniteSet(Busy')
    <3>1. IsFiniteSet(Busy \cup {r})
      BY FS_AddElement DEF AloneInv
    <3> QED BY <2>1, <3>1, FS_Subset
  <2>3. Cardinality(Busy') <= 1
    BY <1>2 DEF OneAtATime, Busy
  <2>4. \A q, s \in Busy' : q = s
    BY <2>2, <2>3, OneAtMost
  <2> QED BY <2>2, <2>4 DEF AloneInv
<1>3. CASE Next /\ OneAtATime'
  <2>1. ASSUME NEW r \in Requests, Start(r) \/ Step(r) \/ Abort(r) PROVE AloneInv'
    BY <1>2, <1>3, <2>1, RequestsApart
  <2>2. ASSUME NEW m \in Methods, PatchMethodType(m) \/ DeleteMethod(m) PROVE AloneInv'
    BY <1>1, <2>2 DEF PatchMethodType, DeleteMethod
  <2> QED BY <1>3, <2>1, <2>2 DEF Next
<1> QED BY <1>1, <1>3 DEF SerialNext, vars

\* Those who are not under way have nothing left to do; those whose step changes
\* nothing that was read disturb nobody.
LEMMA OthersFresh ==
    ASSUME IInv, SerialInv, NEW r \in Requests, OthersRest(r),
           r \in Busy \/ UNCHANGED <<plans, expenses>>,
           NEW q \in Requests \ {r}
    PROVE  FreshInv(q)'
<1>1. pc'[q] = pc[q] /\ todo'[q] = todo[q] /\ job'[q] = job[q] /\ FreshInv(q)
  BY DEF OthersRest, SerialInv
<1>2. q \in Busy' <=> q \in Busy
  BY <1>1 DEF Busy
<1>3. CASE r \in Busy
  <2>1. q \notin Busy
    BY <1>3 DEF SerialInv, AloneInv
  <2> QED BY <1>1, <1>2, <2>1 DEF FreshInv, Busy, InFlight
<1>4. CASE UNCHANGED <<plans, expenses>>
  <2>1. \A p : Latest(p)' = Latest(p)
    BY <1>4 DEF Latest, RowsOf
  <2> QED BY <1>1, <1>2, <1>4, <2>1 DEF FreshInv, Fresh
<1> QED BY <1>3, <1>4

\* A request that has ended knows nothing.
LEMMA EndIsFresh ==
    ASSUME IInv, NEW r \in Requests, NEW outcome \in Ended, End(r, outcome)
    PROVE  FreshInv(r)'
BY DEF End, FreshInv, IInv, LocalType, Ended

\* At a step that reads and writes no plan, what was read stays true.
LEMMA SameTodoIsFresh ==
    ASSUME IInv, NEW r \in Requests, FreshInv(r), UNCHANGED plans,
           r \in Busy' \/ r \notin Busy,
           todo'[r] = todo[r], pc'[r] \notin {"readSplits", "insertNext", "advance"}
    PROVE  FreshInv(r)'
BY DEF FreshInv, Fresh, Busy

\* What closeCycle reads of its plans is true at that moment, each plan read once.
LEMMA ReadPlansIsFresh ==
    ASSUME IInv, NEW r \in Requests, ReadPlans(r)
    PROVE  FreshInv(r)'
<1>1. /\ todo'[r] = {Read(p) : p \in ActivePlans(body[r].method)}
      /\ pc'[r] = "nextPlan" /\ UNCHANGED plans
  BY DEF ReadPlans, IInv, LocalType, db
<1>2. r \in Busy'
  BY <1>1 DEF Busy, InFlight
<1>3. \A p : Read(p).plan = p /\ Read(p).current = plans[p].current
  BY DEF Read
<1> QED BY <1>1, <1>2, <1>3 DEF FreshInv, Fresh

\* The plan of this turn is no longer left to do, and the row to clone is there.
LEMMA NextPlanIsFresh ==
    ASSUME IInv, NEW r \in Requests, FreshInv(r), NextPlan(r)
    PROVE  FreshInv(r)'
<1>1. pc[r] = "nextPlan" /\ UNCHANGED <<plans, expenses>>
  BY DEF NextPlan, db
<1>2. PICK s \in todo[r] :
         /\ todo' = [todo EXCEPT ![r] = Left(r, s)]
         /\ \/ UNCHANGED <<pc, job>>
            \/ \E e \in Latest(s.plan) :
                   /\ job' = [job EXCEPT ![r] =
                                [plan |-> s, source |-> [e EXCEPT !.splits = << >>]]]
                   /\ pc' = [pc EXCEPT ![r] = "readSplits"]
  BY DEF NextPlan
<1>3. todo'[r] = todo[r] \ {s}
  BY <1>2 DEF Left, IInv, LocalType
<1>4. CASE UNCHANGED <<pc, job>>
  BY <1>1, <1>3, <1>4 DEF FreshInv, Fresh, Busy
<1>5. ASSUME NEW e \in Latest(s.plan),
             job' = [job EXCEPT ![r] =
                       [plan |-> s, source |-> [e EXCEPT !.splits = << >>]]],
             pc' = [pc EXCEPT ![r] = "readSplits"]
      PROVE  FreshInv(r)'
  <2>1. PICK source : source = [e EXCEPT !.splits = << >>]
    OBVIOUS
  <2>2. pc'[r] = "readSplits" /\ job'[r].plan = s /\ job'[r].source = source
    BY <1>5, <2>1 DEF IInv, LocalType
  <2>3. \A p : Latest(p)' = Latest(p)
    BY <1>1 DEF Latest, RowsOf
  <2>4. \E f \in Latest(s.plan) : source = [f EXCEPT !.splits = << >>]
    BY <2>1
  <2>5. (\E f \in Latest(job[r].plan.plan) :
             job[r].source = [f EXCEPT !.splits = << >>])'
    BY <2>2, <2>3, <2>4
  <2>6. r \in Busy'
    BY <2>2 DEF Busy, InFlight
  <2> QED BY <1>1, <1>2, <1>3, <2>2, <2>5, <2>6 DEF FreshInv, Fresh
<1> QED BY <1>2, <1>4, <1>5

\* With its splits the row closeCycle holds is the last one of the plan: nobody deleted
\* it in between, and its id names no other.
LEMMA ReadSplitsIsFresh ==
    ASSUME IInv, UniqueIds, NEW r \in Requests, FreshInv(r), ReadSplits(r)
    PROVE  FreshInv(r)'
<1>1. /\ pc[r] = "readSplits" /\ pc' = [pc EXCEPT ![r] = "insertNext"]
      /\ UNCHANGED <<plans, expenses>> /\ todo' = todo
      /\ job[r] \in Job /\ job'[r] \in Job /\ job'[r].plan = job[r].plan
      /\ Alike(job'[r].source, job[r].source)
      /\ \/ WithId(job[r].source.id) = {}
         \/ \E e \in WithId(job[r].source.id) : job'[r].source.splits = e.splits
  BY SplitsAreRead DEF db
<1>2. PICK e \in Latest(job[r].plan.plan) : job[r].source = [e EXCEPT !.splits = << >>]
  BY <1>1 DEF FreshInv
<1>3. /\ e \in expenses /\ e \in Row /\ e.plan = job[r].plan.plan
      /\ job[r].plan.plan # NoPlan
  BY <1>1 DEF Latest, RowsOf, IInv, TableInv, Job, Snapshot
<1>4. Alike(job[r].source, e)
  BY <1>2, <1>3, EmptySplits
<1>5. WithId(job[r].source.id) = {e}
  BY <1>3, <1>4 DEF WithId, UniqueIds, Alike
<1>6. job'[r].source.splits = e.splits /\ Alike(job'[r].source, e)
  BY <1>1, <1>4, <1>5 DEF Alike
<1>7. job'[r].source = e
  <2>1. job'[r].source \in Row
    BY <1>1 DEF Job
  <2> DEFINE D == Seq([user : Users, amount : Int])
  <2>2. Row = [id : RowId, group : Groups, method : Methods, creator : Users,
               amount : Nat \ {0}, plan : Requests \cup {NoPlan}, number : Nat,
               splits : D]
    BY DEF Row
  <2> HIDE DEF D
  <2> QED BY ONLY <1>3, <1>6, <2>1, <2>2 DEF Alike
<1>8. pc'[r] = "insertNext" /\ r \in Busy'
  BY <1>1 DEF IInv, LocalType, Busy, InFlight
<1>9. \A p : Latest(p)' = Latest(p)
  BY <1>1 DEF Latest, RowsOf
<1>10. (job[r].source \in Latest(job[r].plan.plan))'
  BY <1>1, <1>7, <1>9
<1> QED BY <1>1, <1>8, <1>10 DEF FreshInv, Fresh

\* The insert of an installment changes no plan.
LEMMA InsertNextIsFresh ==
    ASSUME IInv, NEW r \in Requests, FreshInv(r), pc[r] = "insertNext",
           Go(r, "advance"), UNCHANGED plans
    PROVE  FreshInv(r)'
<1>1. pc'[r] = "advance" /\ UNCHANGED <<todo, job>>
  BY DEF Go, IInv, LocalType
<1>2. r \in Busy'
  BY <1>1 DEF Busy, InFlight
<1> QED BY <1>1, <1>2 DEF FreshInv, Fresh

\* An advance sets one plan, from what was read of it, and changes no other table.
LEMMA AdvanceDoes ==
    ASSUME IInv, NEW r \in Requests, Advance(r)
    PROVE  LET s == job[r].plan
           IN  /\ s.plan \in PlanIds /\ s.current \in Nat
               /\ s.current < plans[s.plan].count
               /\ plans'[s.plan].current = s.current + 1
               /\ \A p \in Requests \ {s.plan} : plans'[p] = plans[p]
               /\ pc[r] = "advance" /\ pc'[r] = "nextPlan" /\ todo' = todo
               /\ UNCHANGED <<expenses, issued>>
<1> DEFINE s == job[r].plan
<1>1. /\ pc[r] = "advance" /\ s \in Snapshot /\ StillTrue(s)
  BY DEF Advance, IInv, RequestInv, Job
<1>2. PICK c, d : /\ c = s.current + 1
                  /\ plans' = [plans EXCEPT ![s.plan].current = c,
                                            ![s.plan].completed = d]
  BY DEF Advance, Advanced
<1>3. /\ s.plan \in Requests /\ s.current \in Nat /\ plans[s.plan] \in Plan
      /\ s.current < plans[s.plan].count /\ s.plan \in PlanIds
  BY <1>1 DEF Snapshot, StillTrue, IInv, TableInv, PlanIds
<1>4. /\ pc'[r] = "nextPlan" /\ UNCHANGED <<expenses, issued, todo>>
  BY DEF Advance, IInv, LocalType
<1> HIDE DEF s
<1>5. /\ plans'[s.plan] = [plans[s.plan] EXCEPT !.current = c, !.completed = d]
      /\ \A p \in Requests \ {s.plan} : plans'[p] = plans[p]
  BY <1>2, <1>3 DEF IInv, TableInv
<1>6. [plans[s.plan] EXCEPT !.current = c, !.completed = d].current = c
  BY <1>3, Zenon DEF Plan
<1>7. plans'[s.plan].current = c
  BY <1>5, <1>6, Zenon
<1> QED BY <1>1, <1>2, <1>3, <1>4, <1>5, <1>7 DEF s

\* What is left to do after a plan is advanced is about other plans.
LEMMA AdvanceIsFresh ==
    ASSUME IInv, NEW r \in Requests, FreshInv(r), Advance(r)
    PROVE  FreshInv(r)'
<1> DEFINE s == job[r].plan
<1>1. /\ \A p \in Requests \ {s.plan} : plans'[p] = plans[p]
      /\ pc[r] = "advance" /\ pc'[r] = "nextPlan" /\ todo' = todo
  BY AdvanceDoes
<1>2. \A t \in todo[r] : t.plan \in Requests /\ t.plan # s.plan
  BY <1>1 DEF FreshInv, IInv, LocalType, Snapshot
<1>3. r \in Busy'
  BY <1>1 DEF Busy, InFlight
<1> QED BY <1>1, <1>2, <1>3 DEF FreshInv, Fresh

\* A plan that is inserted was in no list of plans that were read.
LEMMA InsertPlanIsFresh ==
    ASSUME IInv, NEW r \in Requests, FreshInv(r), InsertPlan(r)
    PROVE  FreshInv(r)'
<1>1. CASE End(r, "failed")
  BY <1>1, EndIsFresh DEF Ended
<1>2. ASSUME NEW plan, plans' = [plans EXCEPT ![r] = plan], Go(r, "insertRow")
      PROVE  FreshInv(r)'
  <2>1. plans[r] = NoPlan /\ \A s \in todo[r] : plans[s.plan] # NoPlan
    BY DEF InsertPlan, IInv, RequestInv, StillTrue
  <2>2. \A s \in todo[r] : s.plan # r
    BY <2>1
  <2>3. \A s \in todo[r] : plans'[s.plan] = plans[s.plan]
    BY <1>2, <2>2 DEF IInv, LocalType, TableInv, Snapshot
  <2>4. pc'[r] = "insertRow" /\ todo' = todo
    BY <1>2 DEF Go, IInv, LocalType
  <2>5. r \in Busy'
    BY <2>4 DEF Busy, InFlight
  <2> QED BY <2>3, <2>4, <2>5 DEF FreshInv, Fresh
<1> QED BY <1>1, <1>2 DEF InsertPlan

\* What is read stays true until it is used, as long as requests come one by one.
LEMMA SerialKeeps == IInv /\ UniqueIds /\ SerialInv /\ SerialNext => SerialInv'
<1> SUFFICES ASSUME IInv, UniqueIds, SerialInv, SerialNext PROVE SerialInv'
  OBVIOUS
<1>1. AloneInv'
  BY AloneNext DEF SerialInv
<1>2. CASE UNCHANGED <<plans, expenses, pc, todo, job>>
  <2>1. \A p : Latest(p)' = Latest(p)
    BY <1>2 DEF Latest, RowsOf
  <2> QED BY <1>1, <1>2, <2>1 DEF SerialInv, FreshInv, Fresh, Busy
<1>3. ASSUME NEW r \in Requests, OthersRest(r), FreshInv(r)',
             r \in Busy \/ UNCHANGED <<plans, expenses>>
      PROVE  SerialInv'
  BY <1>1, <1>3, OthersFresh DEF SerialInv
<1>4. ASSUME NEW r \in Requests, Start(r) PROVE SerialInv'
  <2>1. OthersRest(r)
    BY <1>4, RequestsApart
  <2>2. UNCHANGED <<plans, expenses>> /\ r \notin Busy
    BY <1>4 DEF Start, CreateStart, CloseStart, PatchStart, DeleteStart, Accept, Reject,
                db, Busy, InFlight
  <2>3. CASE Reject(r)
    BY <1>3, <2>1, <2>2, <2>3, EndIsFresh DEF Reject, Ended
  <2>4. ASSUME NEW call, NEW step \in Awaiting,
               Accept(r, call, step)
        PROVE  SerialInv'
    <3>1. pc'[r] = step /\ todo' = todo
      BY <2>4 DEF Accept, IInv, LocalType
    <3> QED BY <1>3, <2>1, <2>2, <3>1, SameTodoIsFresh DEF SerialInv, Awaiting
  <2>5. {"insertRow", "insertPlan", "readPlans", "update", "checkMethod", "delete"}
          \subseteq Awaiting
    BY DEF Awaiting, InFlight
  <2>6. Reject(r) \/ \E call, step : /\ step \in Awaiting
                                     /\ Accept(r, call, step)
    BY <1>4, <2>5, Zenon DEF Start, CreateStart, CloseStart, PatchStart, DeleteStart
  <2> QED BY <2>3, <2>4, <2>6
<1>5. ASSUME NEW r \in Requests, Step(r) \/ Abort(r) PROVE SerialInv'
  <2>1. OthersRest(r)
    BY <1>5, RequestsApart
  <2>2. r \in Busy
    BY <1>5 DEF Step, InsertPlan, InsertRow, ReadPlans, NextPlan, ReadSplits, InsertNext,
                Advance, CloseEnd, CheckMethod, Update, Delete, Abort, Busy, InFlight
  <2>3. FreshInv(r)
    BY DEF SerialInv
  <2>4. CASE \E outcome \in Ended : End(r, outcome)
    BY <1>3, <2>1, <2>2, <2>4, EndIsFresh
  <2>5. CASE \/ ReadPlans(r) \/ NextPlan(r) \/ ReadSplits(r) \/ Advance(r)
             \/ InsertPlan(r)
    BY <1>3, <2>1, <2>2, <2>3, <2>5, ReadPlansIsFresh, NextPlanIsFresh,
       ReadSplitsIsFresh, AdvanceIsFresh, InsertPlanIsFresh
  <2>6. CASE InsertNext(r)
    <3>1. CASE Go(r, "advance") /\ UNCHANGED plans
      BY <1>3, <2>1, <2>2, <2>3, <2>6, <3>1, InsertNextIsFresh DEF InsertNext
    <3> QED BY <2>4, <2>6, <3>1 DEF InsertNext, InsertExpense, Ended
  <2>7. CASE CheckMethod(r)
    <3>1. CASE Go(r, "update") /\ UNCHANGED db
      <4>1. pc'[r] = "update" /\ todo' = todo /\ UNCHANGED plans
        BY <3>1 DEF Go, db, IInv, LocalType
      <4>2. r \in Busy'
        BY <4>1 DEF Busy, InFlight
      <4> QED BY <1>3, <2>1, <2>2, <2>3, <4>1, <4>2, SameTodoIsFresh
    <3> QED BY <2>4, <2>7, <3>1 DEF CheckMethod, Reject, Ended
  <2>8. CASE InsertRow(r) \/ CloseEnd(r) \/ Update(r) \/ Delete(r) \/ Abort(r)
    BY <2>4, <2>8 DEF InsertRow, InsertExpense, CloseEnd, Update, Delete, Abort, Reject,
                      Ended
  <2> QED BY <1>5, <2>5, <2>6, <2>7, <2>8 DEF Step
<1>6. ASSUME NEW m \in Methods, PatchMethodType(m) \/ DeleteMethod(m) PROVE SerialInv'
  BY <1>2, <1>6 DEF PatchMethodType, DeleteMethod
<1>7. CASE UNCHANGED vars
  BY <1>2, <1>7 DEF vars
<1> QED BY <1>4, <1>5, <1>6, <1>7 DEF SerialNext, Next

\* Nothing is under way at the start.
LEMMA SerialInit == Init => SerialInv
<1> SUFFICES ASSUME Init PROVE SerialInv
  OBVIOUS
<1>1. Busy = {}
  BY DEF Init, Busy, InFlight
<1>2. IsFiniteSet(Busy)
  BY <1>1, FS_EmptySet
<1> QED BY <1>1, <1>2 DEF Init, SerialInv, AloneInv, FreshInv

\* One request at a time is a special case of any interleaving.
LEMMA SerialIsSpec == SerialSpec => Spec
<1>1. SerialNext => [Next]_vars
  BY DEF SerialNext
<1> QED BY <1>1, PTL DEF SerialSpec, Spec, SerialNext

\* With requests cut short or not.
THEOREM SerialInvariance == SerialSpec => []SerialInv
BY SerialIsSpec, Invariance, IdsAreUnique, SerialInit, SerialKeeps, PTL
   DEF SerialSpec, SerialNext

\* closeCycle writes currentInstallment and completed from what it read before its
\* loop; as long as requests come one by one, it never takes a plan back or reopens it,
\* even if some of them are cut short.
THEOREM PlansOnlyAdvance == SerialSpec => NeverGoesBack
<1> DEFINE Forward == \A p \in PlanIds : /\ plans'[p].current >= plans[p].current
                                         /\ plans[p].completed => plans'[p].completed
<1>1. IInv /\ SerialInv /\ [Next]_vars => [Forward]_vars
  <2> SUFFICES ASSUME IInv, SerialInv, Next PROVE Forward
    OBVIOUS
  <2>1. \A p \in PlanIds : plans[p].current \in Nat /\ plans[p].count \in Nat
    BY DEF PlanIds, IInv, TableInv, Plan
  <2>2. CASE UNCHANGED plans
    BY <2>1, <2>2
  <2>3. ASSUME NEW r \in Requests, InsertPlan(r) PROVE Forward
    <3>1. CASE UNCHANGED plans
      BY <2>2, <3>1
    <3>2. ASSUME NEW plan, plans' = [plans EXCEPT ![r] = plan] PROVE Forward
      <4>1. r \notin PlanIds
        BY <2>3 DEF InsertPlan, IInv, RequestInv, PlanIds
      <4>2. \A p \in PlanIds : plans'[p] = plans[p]
        BY <3>2, <4>1 DEF PlanIds, IInv, TableInv
      <4> QED BY <2>1, <4>2
    <3> QED BY <2>3, <3>1, <3>2 DEF InsertPlan, db
  <2>4. ASSUME NEW r \in Requests, Advance(r) PROVE Forward
    <3> DEFINE s == job[r].plan
    <3>1. /\ s.plan \in PlanIds /\ s.current \in Nat
          /\ s.current < plans[s.plan].count
          /\ plans'[s.plan].current = s.current + 1
          /\ \A p \in Requests \ {s.plan} : plans'[p] = plans[p]
          /\ pc[r] = "advance"
      BY <2>4, AdvanceDoes
    <3>2. plans[s.plan].current = s.current
      BY <3>1 DEF SerialInv, FreshInv, Fresh
    <3>3. ~plans[s.plan].completed
      BY <2>1, <3>1, <3>2 DEF IInv, TableInv, PlanProgress
    <3> HIDE DEF s
    <3>4. \A p \in PlanIds : p # s.plan => plans'[p] = plans[p]
      BY <3>1 DEF PlanIds
    <3> QED BY <2>1, <3>1, <3>2, <3>3, <3>4
  <2>5. ASSUME NEW r \in Requests, Start(r) \/ Abort(r) PROVE UNCHANGED plans
    BY <2>5 DEF Start, CreateStart, CloseStart, PatchStart, DeleteStart, Abort, Accept,
                Reject, db
  <2>6. ASSUME NEW r \in Requests, Step(r) PROVE UNCHANGED plans \/ InsertPlan(r) \/ Advance(r)
    BY <2>6 DEF Step, InsertRow, ReadPlans, NextPlan, ReadSplits, InsertNext, CloseEnd,
                CheckMethod, Update, Delete, Reject, InsertExpense, db
  <2>7. ASSUME NEW m \in Methods, PatchMethodType(m) \/ DeleteMethod(m)
        PROVE  UNCHANGED plans
    BY <2>7 DEF PatchMethodType, DeleteMethod
  <2> HIDE DEF Forward
  <2> QED BY <2>2, <2>3, <2>4, <2>5, <2>6, <2>7 DEF Next
<1> QED BY <1>1, SerialIsSpec, Invariance, SerialInvariance, PTL DEF Spec, NeverGoesBack

-----------------------------------------------------------------------------
(* None cut short: each number is charged once, in turn.                   *)

\* Steps that insert no charge and change no plan.
LEMMA QuietCharged ==
    ASSUME ChargedInv, NEW r \in Requests, OthersRest(r),
           pc[r] # "advance", pc'[r] \in Early => pc[r] \in Early,
           UNCHANGED <<plans, issued>>
    PROVE  ChargedInv'
<1>1. /\ \A p : IssuedOf(p)' = IssuedOf(p)
      /\ \A p, n : ChargedUpTo(p, n)' <=> ChargedUpTo(p, n)
      /\ PlanIds' = PlanIds
  BY DEF IssuedOf, ChargedUpTo, PlanIds
<1>2. \A p \in Requests : pc'[p] \in Early => pc[p] \in Early
  BY DEF OthersRest
<1>3. \A q \in Requests : pc[q] = "advance" => pc'[q] = "advance" /\ job'[q] = job[q]
  BY DEF OthersRest
<1> QED BY <1>1, <1>2, <1>3 DEF ChargedInv

\* A new plan has no charges.
LEMMA InsertPlanCharged ==
    ASSUME IInv, ChargedInv, NEW r \in Requests, InsertPlan(r), OthersRest(r)
    PROVE  ChargedInv'
<1>1. pc[r] = "insertPlan"
  BY DEF InsertPlan
<1>2. CASE End(r, "failed") /\ UNCHANGED db
  <2>1. pc'[r] \notin Early
    BY <1>2 DEF End, IInv, LocalType, Early
  <2> QED BY <1>1, <1>2, <2>1, QuietCharged DEF db
<1>3. ASSUME NEW plan, plans' = [plans EXCEPT ![r] = plan], Go(r, "insertRow"),
             UNCHANGED issued
      PROVE  ChargedInv'
  <2>1. pc'[r] = "insertRow"
    BY <1>3 DEF Go, IInv, LocalType
  <2>2. /\ \A p : IssuedOf(p)' = IssuedOf(p)
        /\ \A p, n : ChargedUpTo(p, n)' <=> ChargedUpTo(p, n)
    BY <1>3 DEF IssuedOf, ChargedUpTo
  <2>3. \A p \in Requests : pc'[p] \in Early => pc[p] \in Early
    BY <1>1 DEF OthersRest, Early
  <2>4. \A q \in Requests : pc[q] = "advance" => pc'[q] = "advance" /\ job'[q] = job[q]
    BY <1>1 DEF OthersRest
  <2>5. \A p \in PlanIds' : p = r \/ (p \in PlanIds /\ plans'[p] = plans[p])
    BY <1>3 DEF PlanIds, IInv, TableInv
  <2>6. IssuedOf(r) = {}
    BY <1>1 DEF ChargedInv, Early
  <2> QED BY <2>2, <2>3, <2>4, <2>5, <2>6 DEF ChargedInv
<1> QED BY <1>2, <1>3 DEF InsertPlan

\* One more charge, of the number that comes next.
LEMMA ChargeOne ==
    ASSUME issued \subseteq Charge, NEW c \in Charge, NEW n \in Nat, c.number = n + 1,
           issued' = issued \cup {c}, ChargedUpTo(c.plan, n)
    PROVE  /\ ChargedUpTo(c.plan, n + 1)'
           /\ IssuedOf(c.plan)' = IssuedOf(c.plan) \cup {c} /\ c \notin IssuedOf(c.plan)
           /\ \A p : p # c.plan => /\ IssuedOf(p)' = IssuedOf(p)
                                   /\ \A m : ChargedUpTo(p, m)' <=> ChargedUpTo(p, m)
<1>1. IssuedOf(c.plan)' = IssuedOf(c.plan) \cup {c}
  BY DEF IssuedOf
<1>2. \A p : p # c.plan => IssuedOf(p)' = IssuedOf(p)
  BY DEF IssuedOf
<1>3. {i.number : i \in IssuedOf(c.plan)} = 1..n
  BY DEF ChargedUpTo
<1>4. \A i \in IssuedOf(c.plan) : i.number \in 1..n
  BY <1>3
<1>5. \A i \in IssuedOf(c.plan) : i.number # c.number
  BY <1>4
<1>6. {i.number : i \in IssuedOf(c.plan) \cup {c}} = (1..n) \cup {n + 1}
  BY <1>3
<1>7. (1..n) \cup {n + 1} = 1..(n + 1)
  OBVIOUS
<1>8. \A i, j \in IssuedOf(c.plan) \cup {c} : i.number = j.number => i = j
  BY <1>5 DEF ChargedUpTo
<1>9. ChargedUpTo(c.plan, n + 1)'
  BY <1>1, <1>6, <1>7, <1>8 DEF ChargedUpTo
<1>10. \A p : p # c.plan => \A m : ChargedUpTo(p, m)' <=> ChargedUpTo(p, m)
  BY <1>2 DEF ChargedUpTo
<1> QED BY <1>1, <1>2, <1>5, <1>9, <1>10

\* The first charge of a plan, and each one closeCycle makes, is the one that comes
\* next.
LEMMA FirstIsNext ==
    ASSUME IInv, ChargedInv, NEW r \in Requests, pc[r] = "insertRow",
           plans[r] # NoPlan
    PROVE  /\ r \in PlanIds /\ plans[r].current = 1 /\ ChargedUpTo(r, 0)
<1>1. IssuedOf(r) = {}
  BY DEF ChargedInv, Early
<1>2. r \in PlanIds /\ plans[r].current \in Nat \ {0}
  BY DEF PlanIds, IInv, TableInv, Plan
<1>3. ~(plans[r].current > 1)
  BY <1>1, <1>2 DEF IInv, TableInv, NoGaps, IssuedOf
<1>4. ChargedUpTo(r, 0)
  <2>1. {} = 1..0
    OBVIOUS
  <2> QED BY <1>1, <2>1 DEF ChargedUpTo
<1> QED BY <1>2, <1>3, <1>4

\* A clone comes right after what is charged so far, and before the end of the plan.
LEMMA CloneIsNext ==
    ASSUME IInv, SerialInv, ChargedInv, NEW r \in Requests, pc[r] = "insertNext"
    PROVE  LET s == job[r].plan
           IN  /\ s.plan \in PlanIds /\ s.current \in Nat
               /\ plans[s.plan].current = s.current
               /\ s.current < plans[s.plan].count
               /\ ChargedUpTo(s.plan, s.current)
<1> DEFINE s == job[r].plan
<1>1. /\ s \in Snapshot /\ StillTrue(s) /\ IsCharged(s.plan, s.current)
      /\ Fresh(s)
  BY DEF IInv, RequestInv, Job, SerialInv, FreshInv
<1> HIDE DEF s
<1>2. /\ s.plan \in PlanIds /\ s.current \in Nat /\ plans[s.plan].current = s.current
      /\ s.current < plans[s.plan].count
  BY <1>1 DEF Snapshot, StillTrue, Fresh, PlanIds
<1>3. IssuedOf(s.plan) # {}
  BY <1>1 DEF IsCharged, IssuedOf
<1>4. \A q \in Requests : pc[q] # "advance"
  BY DEF SerialInv, AloneInv, Busy, InFlight
<1>5. ChargedUpTo(s.plan, s.current)
  BY <1>2, <1>3, <1>4 DEF ChargedInv
<1> QED BY <1>2, <1>5 DEF s

\* Once the charge that comes next is inserted, the plan has charged one more, and
\* either is at its first installment or about to be advanced.
LEMMA InsertedCharged ==
    ASSUME IInv, ChargedInv, NEW r \in Requests, OthersRest(r), UNCHANGED plans,
           pc[r] \in {"insertRow", "insertNext"},
           NEW c \in Charge, issued' = issued \cup {c},
           NEW n \in Nat, c.number = n + 1,
           c.plan \in PlanIds, ChargedUpTo(c.plan, n),
           \/ plans[c.plan].current = n + 1 /\ pc'[r] = "done"
           \/ /\ plans[c.plan].current = n
              /\ pc'[r] = "advance" /\ job'[r].plan.plan = c.plan,
           pc'[c.plan] \notin Early
    PROVE  ChargedInv'
<1>2. /\ ChargedUpTo(c.plan, n + 1)'
      /\ \A p : p # c.plan => /\ IssuedOf(p)' = IssuedOf(p)
                              /\ \A m : ChargedUpTo(p, m)' <=> ChargedUpTo(p, m)
  <2>1. issued \subseteq Charge
    BY DEF IInv, TableInv
  <2> QED BY <2>1, ChargeOne
<1>3. \A p \in Requests : pc'[p] \in Early => pc[p] \in Early
  BY DEF OthersRest, Early
<1>4. \A q \in Requests : pc[q] = "advance" => pc'[q] = "advance" /\ job'[q] = job[q]
  BY DEF OthersRest
<1>5. PlanIds' = PlanIds
  BY DEF PlanIds
<1>6. ASSUME NEW p \in Requests, pc'[p] \in Early PROVE IssuedOf(p)' = {}
  BY <1>2, <1>3, <1>6 DEF ChargedInv
<1>7. ASSUME NEW p \in PlanIds
      PROVE  \/ IssuedOf(p)' = {}
             \/ ChargedUpTo(p, plans[p].current)'
             \/ /\ \E q \in Requests : pc'[q] = "advance" /\ job'[q].plan.plan = p
                /\ ChargedUpTo(p, plans[p].current + 1)'
  <2>1. CASE p = c.plan
    BY <1>2, <2>1
  <2>2. CASE p # c.plan
    BY <1>2, <1>4, <2>2 DEF ChargedInv
  <2> QED BY <2>1, <2>2
<1> QED BY <1>5, <1>6, <1>7 DEF ChargedInv

\* The charge of a row that is inserted.
ChargeBy(r, row) ==
    [by |-> r, plan |-> row.plan, number |-> row.number, amount |-> row.amount]

\* What an insert that comes through does, and one that fails.
LEMMA InsertDoes ==
    ASSUME NEW r \in Requests, NEW row, NEW step, InsertExpense(r, row, step)
    PROVE  \/ End(r, "failed") /\ UNCHANGED db
           \/ /\ step /\ UNCHANGED <<methods, plans>>
              /\ expenses' = expenses \cup {row}
              /\ row.plan = NoPlan => issued' = issued
              /\ row.plan # NoPlan => issued' = issued \cup {ChargeBy(r, row)}
BY DEF InsertExpense, ChargeBy

\* A row that names a plan is a charge of that plan.
LEMMA ChargeTyped ==
    ASSUME NEW r \in Requests, NEW row \in Row, row.plan # NoPlan
    PROVE  /\ ChargeBy(r, row) \in Charge
           /\ ChargeBy(r, row).plan = row.plan /\ ChargeBy(r, row).number = row.number
           /\ ChargeBy(r, row).amount = row.amount
BY DEF ChargeBy, Charge, Row

\* A create charges the first installment of the plan it made, or none.
LEMMA InsertRowCharged ==
    ASSUME IInv, ChargedInv, NEW r \in Requests, InsertRow(r), OthersRest(r)
    PROVE  ChargedInv'
<1> DEFINE b == body[r]
           amount == IF b.installments = 0 THEN b.amount ELSE FirstAmount(b)
           divisible == \/ b.group \in DefaultGroups
                        \/ SplitAccepted(b.split, amount, Members[b.group])
<1>0. PICK row : row = NewRow(r)
  OBVIOUS
<1>1. pc[r] = "insertRow"
  BY DEF InsertRow
<1>2. CASE pc'[r] \in Ended /\ UNCHANGED <<plans, issued>>
  BY <1>1, <1>2, QuietCharged DEF Early, Ended
<1>3. ASSUME NEW outcome \in Ended, End(r, outcome), UNCHANGED <<plans, issued>>
      PROVE  ChargedInv'
  <2>1. pc'[r] \in Ended
    BY <1>3 DEF End, IInv, LocalType
  <2> QED BY <1>2, <1>3, <2>1
<1>4. CASE Reject(r)
  BY <1>3, <1>4 DEF Reject, db, Ended
<1>5. CASE divisible /\ InsertExpense(r, row, End(r, "done"))
  <2>1. /\ row \in Row
        /\ row.plan # NoPlan =>
              /\ row.plan = r /\ plans[r] # NoPlan /\ row.number = 1
    BY <1>0, <1>1, <1>5, NewRowIsGood
  <2>2. CASE row.plan = NoPlan \/ UNCHANGED db
    BY <1>3, <1>5, <2>2, InsertDoes DEF Ended, db
  <2>3. CASE /\ row.plan # NoPlan /\ End(r, "done") /\ UNCHANGED plans
             /\ issued' = issued \cup {ChargeBy(r, row)}
    <3>1. r \in PlanIds /\ plans[r].current = 1 /\ ChargedUpTo(r, 0)
      BY <1>1, <2>1, <2>3, FirstIsNext
    <3>2. PICK c \in Charge : /\ c = ChargeBy(r, row) /\ c.plan = r /\ c.number = 1
      BY <2>1, <2>3, ChargeTyped
    <3>3. pc'[r] = "done" /\ pc'[r] \notin Early
      BY <2>3 DEF End, IInv, LocalType, Early
    <3>4. 0 \in Nat /\ c.number = 0 + 1 /\ plans[c.plan].current = 0 + 1
          /\ ChargedUpTo(c.plan, 0) /\ c.plan \in PlanIds
      BY <3>1, <3>2
    <3>5. issued' = issued \cup {c} /\ UNCHANGED plans
      BY <2>3, <3>2
    <3>6. pc'[c.plan] \notin Early
      BY <3>2, <3>3
    <3> QED BY ONLY <1>1, <3>3, <3>4, <3>5, <3>6, InsertedCharged, IInv, ChargedInv,
                    r \in Requests, OthersRest(r)
  <2> QED BY <1>5, <2>2, <2>3, InsertDoes
<1> QED BY <1>0, <1>4, <1>5 DEF InsertRow

\* A clone charges the next installment.
LEMMA InsertNextCharged ==
    ASSUME IInv, SerialInv, ChargedInv, NEW r \in Requests, InsertNext(r), OthersRest(r)
    PROVE  ChargedInv'
<1> DEFINE s == job[r].plan
<1>0. PICK row : row = NextRow(r)
  OBVIOUS
<1>1. pc[r] = "insertNext" /\ InsertExpense(r, row, Go(r, "advance"))
  BY <1>0 DEF InsertNext
<1>2. /\ row \in Row /\ row.plan # NoPlan /\ row.plan = s.plan
      /\ row.number = s.current + 1
  BY <1>0, <1>1, NextRowIsGood
<1>3. /\ s.plan \in PlanIds /\ s.current \in Nat
      /\ plans[s.plan].current = s.current /\ ChargedUpTo(s.plan, s.current)
  BY <1>1, CloneIsNext
<1>4. CASE End(r, "failed") /\ UNCHANGED db
  <2>1. pc'[r] \notin Early
    BY <1>4 DEF End, IInv, LocalType, Early
  <2> QED BY <1>1, <1>4, <2>1, QuietCharged DEF db
<1>5. CASE /\ Go(r, "advance") /\ UNCHANGED plans
           /\ issued' = issued \cup {ChargeBy(r, row)}
  <2>1. PICK c \in Charge : /\ c = ChargeBy(r, row) /\ c.plan = s.plan
                            /\ c.number = s.current + 1
    BY <1>2, ChargeTyped
  <2>2. pc'[r] = "advance" /\ job'[r] = job[r]
    BY <1>5 DEF Go, IInv, LocalType
  <2>3. pc'[s.plan] \notin Early
    <3>1. s.plan \in Requests /\ IsCharged(s.plan, s.current)
      BY <1>1, <1>3 DEF PlanIds, IInv, RequestInv
    <3>2. pc[s.plan] \notin Early
      BY <3>1 DEF ChargedInv, IsCharged, IssuedOf
    <3> QED BY <2>2, <3>1, <3>2 DEF OthersRest, Early
  <2> HIDE DEF s
  <2>4. job'[r].plan.plan = c.plan
    BY <2>1, <2>2 DEF s
  <2>5. issued' = issued \cup {c} /\ UNCHANGED plans
    BY <1>5, <2>1
  <2>6. PICK n \in Nat : n = s.current
    BY <1>3
  <2>7. /\ c.number = n + 1 /\ c.plan \in PlanIds /\ ChargedUpTo(c.plan, n)
        /\ plans[c.plan].current = n /\ pc'[c.plan] \notin Early
    BY <1>3, <2>1, <2>3, <2>6
  <2> QED BY ONLY <1>1, <2>2, <2>4, <2>5, <2>7, InsertedCharged, IInv, ChargedInv,
                  r \in Requests, OthersRest(r)
<1> QED BY <1>1, <1>2, <1>4, <1>5, InsertDoes

\* An advance sets the plan to what it has charged.
LEMMA AdvanceCharged ==
    ASSUME IInv, SerialInv, ChargedInv, NEW r \in Requests, Advance(r), OthersRest(r)
    PROVE  ChargedInv'
<1> DEFINE s == job[r].plan
<1>1. /\ s.plan \in PlanIds /\ s.current \in Nat
      /\ plans'[s.plan].current = s.current + 1
      /\ \A p \in Requests \ {s.plan} : plans'[p] = plans[p]
      /\ pc[r] = "advance" /\ pc'[r] = "nextPlan" /\ UNCHANGED issued
  BY AdvanceDoes
<1>2. /\ plans[s.plan].current = s.current /\ IsCharged(s.plan, s.current + 1)
  BY <1>1 DEF SerialInv, FreshInv, Fresh, IInv, RequestInv
<1> HIDE DEF s
<1>3. ChargedUpTo(s.plan, s.current + 1)
  <2>1. PICK i \in IssuedOf(s.plan) : i.number = s.current + 1
    BY <1>2 DEF IsCharged, IssuedOf
  <2>2. ~ChargedUpTo(s.plan, s.current)
    <3>1. i.number \notin 1..s.current
      BY <1>1, <2>1
    <3> QED BY <3>1 DEF ChargedUpTo
  <2> QED BY <1>1, <1>2, <2>1, <2>2 DEF ChargedInv
<1>4. /\ \A p : IssuedOf(p)' = IssuedOf(p)
      /\ \A p, n : ChargedUpTo(p, n)' <=> ChargedUpTo(p, n)
  BY <1>1 DEF IssuedOf, ChargedUpTo
<1>5. \A p \in Requests : pc'[p] \in Early => pc[p] \in Early
  BY <1>1 DEF OthersRest, Early
<1>6. \A q \in Requests \ {r} : pc'[q] = pc[q] /\ job'[q] = job[q]
  BY DEF OthersRest
<1>7. \A p \in PlanIds' : p # s.plan => p \in PlanIds /\ plans'[p] = plans[p]
  BY <1>1 DEF PlanIds
<1>8. \A p \in PlanIds : p # s.plan => job[r].plan.plan # p
  BY DEF s
<1>9. ASSUME NEW p \in PlanIds'
      PROVE  \/ IssuedOf(p)' = {}
             \/ ChargedUpTo(p, plans'[p].current)
             \/ /\ \E q \in Requests : pc'[q] = "advance" /\ job'[q].plan.plan = p
                /\ ChargedUpTo(p, plans'[p].current + 1)
  <2>1. CASE p = s.plan
    BY <1>1, <1>3, <2>1
  <2>2. CASE p # s.plan
    BY <1>4, <1>6, <1>7, <1>8, <2>2 DEF ChargedInv
  <2> QED BY <2>1, <2>2
<1> QED BY <1>4, <1>5, <1>9 DEF ChargedInv

\* An ended request leaves the charges as they were, unless it is cut off between the
\* insert of a clone and the advance of its plan.
LEMMA EndCharged ==
    ASSUME IInv, ChargedInv, NEW r \in Requests, OthersRest(r), pc[r] # "advance",
           NEW outcome \in Ended, End(r, outcome), UNCHANGED <<plans, issued>>
    PROVE  ChargedInv'
<1>1. pc'[r] \notin Early
  BY DEF End, IInv, LocalType, Early, Ended
<1> QED BY <1>1, QuietCharged

\* Every step of requests none of which is cut short keeps it.
LEMMA ChargedKeeps ==
    ASSUME MayFail = {}, IInv, SerialInv, ChargedInv, SerialNext
    PROVE  ChargedInv'
<1>1. CASE UNCHANGED <<plans, issued, pc, job>>
  BY <1>1 DEF ChargedInv, IssuedOf, ChargedUpTo, PlanIds
<1>2. ASSUME NEW r \in Requests, Start(r) PROVE ChargedInv'
  <2>1. OthersRest(r)
    BY <1>2, RequestsApart
  <2>2. pc[r] = "idle" /\ UNCHANGED <<plans, issued>>
    BY <1>2 DEF Start, CreateStart, CloseStart, PatchStart, DeleteStart, Accept, Reject, db
  <2> QED BY <2>1, <2>2, QuietCharged DEF Early
<1>3. ASSUME NEW r \in Requests, Step(r) PROVE ChargedInv'
  <2>1. OthersRest(r)
    BY <1>3, RequestsApart
  <2>2. CASE InsertPlan(r) \/ InsertRow(r) \/ InsertNext(r) \/ Advance(r)
    BY <2>1, <2>2, InsertPlanCharged, InsertRowCharged, InsertNextCharged, AdvanceCharged
  <2>4. CASE ReadPlans(r) \/ NextPlan(r) \/ ReadSplits(r)
    <3>1. /\ pc[r] \in {"readPlans", "nextPlan", "readSplits"}
          /\ UNCHANGED <<plans, issued>>
          /\ pc'[r] \in {"nextPlan", "readSplits", "insertNext"}
      BY <2>4 DEF ReadPlans, NextPlan, ReadSplits, db, IInv, LocalType
    <3> QED BY <2>1, <3>1, QuietCharged DEF Early
  <2>5. CASE CloseEnd(r) \/ CheckMethod(r) \/ Update(r) \/ Delete(r)
    <3>1. pc[r] # "advance" /\ UNCHANGED <<plans, issued>>
      BY <2>5 DEF CloseEnd, CheckMethod, Update, Delete, Reject, db
    <3>2. CASE Go(r, "update")
      <4>1. pc'[r] = "update"
        BY <3>2 DEF Go, IInv, LocalType
      <4> QED BY <2>1, <3>1, <4>1, QuietCharged DEF Early
    <3>3. CASE \E outcome \in Ended : End(r, outcome)
      BY <2>1, <3>1, <3>3, EndCharged
    <3> QED BY <2>5, <3>2, <3>3 DEF CloseEnd, CheckMethod, Update, Delete, Reject, Ended
  <2> QED BY <1>3, <2>2, <2>4, <2>5 DEF Step
<1>4. ASSUME NEW m \in Methods, PatchMethodType(m) \/ DeleteMethod(m) PROVE ChargedInv'
  BY <1>1, <1>4 DEF PatchMethodType, DeleteMethod
<1>5. CASE UNCHANGED vars
  BY <1>1, <1>5 DEF vars
<1> QED BY <1>2, <1>3, <1>4, <1>5 DEF SerialNext, Next

\* What was charged of a plan up to a number is that many charges.
LEMMA ChargedCount ==
    ASSUME NEW p, NEW n \in Nat, ChargedUpTo(p, n)
    PROVE  IsFiniteSet(IssuedOf(p)) /\ Cardinality(IssuedOf(p)) = n
<1> DEFINE f == [k \in 1..n |-> CHOOSE i \in IssuedOf(p) : i.number = k]
<1>1. \A k \in 1..n : \E i \in IssuedOf(p) : i.number = k
  BY DEF ChargedUpTo
<1>2. \A k \in 1..n : f[k] \in IssuedOf(p) /\ f[k].number = k
  BY <1>1
<1>3. \A i \in IssuedOf(p) : i.number \in 1..n /\ f[i.number] = i
  <2>1. \A i \in IssuedOf(p) : i.number \in 1..n
    BY DEF ChargedUpTo
  <2>2. \A i, j \in IssuedOf(p) : i.number = j.number => i = j
    BY DEF ChargedUpTo
  <2> HIDE DEF f
  <2> QED BY <1>2, <2>1, <2>2
<1>4. f \in [1..n -> IssuedOf(p)]
  BY <1>2
<1> HIDE DEF f
<1>5. f \in Injection(1..n, IssuedOf(p)) /\ f \in Surjection(1..n, IssuedOf(p))
  BY <1>2, <1>3, <1>4 DEF Injection, IsInjective, Surjection
<1>6. ExistsBijection(1..n, IssuedOf(p))
  BY <1>5 DEF ExistsBijection, Bijection
<1> QED BY <1>6, FS_CountingElements, FS_NatBijection

\* At the start there are no plans and no charges.
LEMMA ChargedInit == Init => ChargedInv
BY DEF Init, ChargedInv, PlanIds, IssuedOf

\* Each installment of a plan is charged once, in turn, and the plan is behind its
\* charges only while it is being advanced.
LEMMA ChargedInvariance == ASSUME MayFail = {} PROVE SerialSpec => []ChargedInv
<1>1. IInv /\ SerialInv /\ ChargedInv /\ SerialNext => ChargedInv'
  BY ChargedKeeps
<1> QED BY <1>1, ChargedInit, SerialIsSpec, Invariance, SerialInvariance, PTL
        DEF SerialSpec, SerialNext

\* Between requests that come one by one and are not cut short, a plan has charged
\* exactly the installments up to its current one, each of them once.
THEOREM PlansAreSettled == ASSUME MayFail = {} PROVE SerialSpec => []Settled
<1>1. IInv /\ ChargedInv => Settled
  <2> SUFFICES ASSUME IInv, ChargedInv, \A r \in Requests : pc[r] \notin InFlight,
                      NEW p \in PlanIds, IssuedOf(p) # {}
               PROVE  /\ {i.number : i \in IssuedOf(p)} = 1..plans[p].current
                      /\ Cardinality(IssuedOf(p)) = plans[p].current
    BY DEF Settled
  <2>1. plans[p].current \in Nat
    BY DEF PlanIds, IInv, TableInv, Plan
  <2>2. \A r \in Requests : pc[r] # "advance"
    BY DEF InFlight
  <2>3. ChargedUpTo(p, plans[p].current)
    BY <2>2 DEF ChargedInv
  <2> QED BY <2>1, <2>3, ChargedCount DEF ChargedUpTo
<1> QED BY <1>1, ChargedInvariance, SerialIsSpec, Invariance, PTL

-----------------------------------------------------------------------------
(* Rounding does not drift, whether requests are cut short or not.         *)

\* What a row of a plan is a charge of, and so how much it is.
LEMMA RowIsCharged ==
    ASSUME IInv, OneBehind, NEW e \in expenses, e.plan # NoPlan
    PROVE  /\ e.plan \in PlanIds
           /\ e.number \in 1..plans[e.plan].count
           /\ e.number <= plans[e.plan].current + 1
           /\ e.amount = InstallmentAmount(plans[e.plan].total, plans[e.plan].count,
                                           e.number)
<1>1. PICK i \in issued : i.plan = e.plan /\ i.number = e.number /\ i.amount = e.amount
  BY DEF IInv, TableInv, RowsAsCharged
<1>2. e.plan \in Requests
  BY DEF IInv, TableInv, Row
<1> QED BY <1>1, <1>2 DEF IInv, TableInv, ChargesMatchPlan, OneBehind, PlanIds

\* Rows that were divided alike before, with their amounts, still are.
LEMMA DescendantsAgree ==
    ASSUME SameDivision,
           \A e \in expenses' : e.plan # NoPlan =>
               \E f \in expenses : /\ f.plan = e.plan /\ f.amount = e.amount
                                   /\ f.splits = e.splits
    PROVE  SameDivision'
BY DEF SameDivision

\* Steps that charge nothing and change no plan.
LEMMA QuietDivision ==
    ASSUME DivisionInv, UNCHANGED <<plans, issued>>,
           \A e \in expenses' : e.plan # NoPlan =>
               \E f \in expenses : /\ f.plan = e.plan /\ f.amount = e.amount
                                   /\ f.splits = e.splits
    PROVE  DivisionInv'
BY DescendantsAgree DEF DivisionInv, OneBehind

\* A patch leaves the amount and the splits of an installment as they were.
LEMMA UpdateDivision ==
    ASSUME IInv, DivisionInv, NEW r \in Requests, Update(r)
    PROVE  DivisionInv'
<1> DEFINE target == WithId(body[r].target)
<1>1. CASE expenses' = expenses /\ UNCHANGED <<plans, issued>>
  BY <1>1, QuietDivision
<1>2. CASE /\ expenses' = (expenses \ target) \cup {Patched(e, body[r]) : e \in target}
           /\ UNCHANGED <<plans, issued>>
  <2>1. body[r].amount # 0 => body[r].target.plan = NoPlan
    BY DEF Update, IInv, RequestInv
  <2>2. ASSUME NEW e \in target
        PROVE  /\ Patched(e, body[r]).plan = e.plan
               /\ Patched(e, body[r]).splits = e.splits
               /\ e.plan # NoPlan => Patched(e, body[r]).amount = e.amount
    <3>1. e \in Row /\ e.id.plan = e.plan /\ e.id = body[r].target
      BY DEF WithId, IInv, TableInv
    <3>2. body[r].amount = 0 => Patched(e, body[r]).amount = e.amount
      <4> DEFINE D == Seq([user : Users, amount : Int])
      <4>1. Row = [id : RowId, group : Groups, method : Methods, creator : Users,
                   amount : Nat \ {0}, plan : Requests \cup {NoPlan}, number : Nat,
                   splits : D]
        BY DEF Row
      <4> HIDE DEF D
      <4> QED BY <3>1, <4>1 DEF Patched
    <3> QED BY <2>1, <3>1, <3>2, RowsPatched
  <2>3. \A e \in expenses' : e \in expenses \/ \E f \in target : e = Patched(f, body[r])
    BY <1>2
  <2>4. target \subseteq expenses
    BY DEF WithId
  <2> QED BY <1>2, <2>2, <2>3, <2>4, QuietDivision
<1> QED BY <1>1, <1>2 DEF Update, Reject, db

\* One more charge, with its row.
LEMMA ChargeDivision ==
    ASSUME DivisionInv, UNCHANGED plans, NEW r \in Requests, NEW row \in Row,
           row.plan # NoPlan, expenses' = expenses \cup {row},
           issued' = issued \cup {ChargeBy(r, row)},
           row.number <= plans[row.plan].current + 1,
           \A e \in expenses : e.plan = row.plan /\ e.amount = row.amount =>
               e.splits = row.splits
    PROVE  DivisionInv'
<1>1. OneBehind'
  BY ChargeTyped DEF DivisionInv, OneBehind
<1>2. SameDivision'
  BY DEF DivisionInv, SameDivision
<1> QED BY <1>1, <1>2 DEF DivisionInv

\* An expense without installments is nobody's equal.
LEMMA WholeDivision ==
    ASSUME DivisionInv, UNCHANGED plans, NEW row, row.plan = NoPlan,
           expenses' = expenses \cup {row}, issued' = issued
    PROVE  DivisionInv'
BY QuietDivision

\* The first installment of a purchase is its only row.
LEMMA InsertRowDivision ==
    ASSUME IInv, PartiesInv, DivisionInv, NEW r \in Requests, InsertRow(r)
    PROVE  DivisionInv'
<1> DEFINE b == body[r]
           amount == IF b.installments = 0 THEN b.amount ELSE FirstAmount(b)
           divisible == \/ b.group \in DefaultGroups
                        \/ SplitAccepted(b.split, amount, Members[b.group])
<1>0. PICK row : row = NewRow(r)
  OBVIOUS
<1>1. pc[r] = "insertRow"
  BY DEF InsertRow
<1>2. CASE UNCHANGED db
  BY <1>2, QuietDivision DEF db
<1>3. CASE divisible /\ InsertExpense(r, row, End(r, "done"))
  <2>1. /\ row \in Row
        /\ row.plan # NoPlan =>
              /\ row.plan = r /\ plans[r] # NoPlan /\ row.number = 1
    BY <1>0, <1>1, <1>3, NewRowIsGood
  <2>2. CASE row.plan # NoPlan /\ ~UNCHANGED db
    <3>1. \A e \in expenses : e.plan # r
      BY <1>1, <2>1, <2>2 DEF PartiesInv, KnownInv, Known, RowInv, Begun, Early
    <3>2. row.number <= plans[row.plan].current + 1
      BY <2>1, <2>2 DEF IInv, TableInv, Plan
    <3> QED BY <1>3, <2>1, <2>2, <3>1, <3>2, InsertDoes, ChargeDivision
  <2> QED BY <1>2, <1>3, <2>2, InsertDoes, WholeDivision
<1> QED BY <1>0, <1>2, <1>3 DEF InsertRow, Reject

\* If an installment of the plan is like the next one, so is the last row there is.
LEMMA LikeTheLatest ==
    ASSUME NEW total, NEW count \in Nat, NEW n \in 1..count,
           NEW k \in 1..n, NEW m \in 1..k,
           InstallmentAmount(total, count, m) = InstallmentAmount(total, count, n)
    PROVE  InstallmentAmount(total, count, k) = InstallmentAmount(total, count, n)
<1>1. CASE k = n
  BY <1>1
<1>2. CASE k < n
  BY <1>2 DEF InstallmentAmount
<1> QED BY <1>1, <1>2

\* A clone is divided like the rows it is equal to, because the row it is cloned from
\* is one of them.
LEMMA InsertNextDivision ==
    ASSUME IInv, SplitsInv, SerialInv, DivisionInv, NEW r \in Requests, InsertNext(r)
    PROVE  DivisionInv'
<1> DEFINE s == job[r].plan
           source == job[r].source
<1>0. PICK row : row = NextRow(r)
  OBVIOUS
<1>1. pc[r] = "insertNext" /\ InsertExpense(r, row, Go(r, "advance"))
  BY <1>0 DEF InsertNext
<1>2. CASE UNCHANGED db
  BY <1>2, QuietDivision DEF db
<1>3. /\ row \in Row /\ row.plan # NoPlan /\ row.plan = s.plan
      /\ row.number = s.current + 1
      /\ plans[s.plan] # NoPlan /\ row.number \in 1..plans[s.plan].count
      /\ row.amount = InstallmentAmount(plans[s.plan].total, plans[s.plan].count,
                                        row.number)
  BY <1>0, <1>1, NextRowIsGood
<1>4. /\ plans[s.plan].current = s.current /\ source \in Latest(s.plan)
  BY <1>1 DEF SerialInv, FreshInv, Fresh
<1>5. row.splits = ScaleSplits(source.splits, source.amount, row.amount)
  BY <1>0 DEF NextRow
<1> HIDE DEF s, source
<1>6. /\ source \in expenses /\ source \in Row /\ source.plan = s.plan
      /\ \A e \in expenses : e.plan = s.plan => e.number <= source.number
  BY <1>4 DEF Latest, RowsOf, IInv, TableInv
<1>7. ASSUME NEW e \in expenses, e.plan = row.plan, e.amount = row.amount
      PROVE  e.splits = row.splits
  <2>1. source.amount = row.amount
    <3>1. /\ e.number \in 1..plans[s.plan].count
          /\ source.number \in 1..plans[s.plan].count
          /\ source.number <= row.number
          /\ e.amount = InstallmentAmount(plans[s.plan].total, plans[s.plan].count,
                                          e.number)
          /\ source.amount = InstallmentAmount(plans[s.plan].total, plans[s.plan].count,
                                               source.number)
      BY <1>3, <1>4, <1>6, <1>7, RowIsCharged DEF DivisionInv
    <3>2. plans[s.plan].count \in Nat
      BY <1>3, <1>6, RowIsCharged DEF IInv, TableInv, Plan, DivisionInv, PlanIds
    <3>3. source.number \in 1..row.number /\ e.number \in 1..source.number
      BY <1>3, <1>6, <1>7, <3>1, <3>2
    <3> QED BY <1>3, <1>7, <3>1, <3>2, <3>3, LikeTheLatest
  <2>2. e.splits = source.splits
    BY <1>3, <1>6, <1>7, <2>1 DEF DivisionInv, SameDivision
  <2>3. /\ source.splits \in DivisionAmong(Users) /\ source.amount \in Nat \ {0}
        /\ source.splits = << >> \/ SplitSum(source.splits) = source.amount
    BY <1>3, <1>4, <1>6 DEF SplitsInv, Divided, Whole, DivisionAmong, Row
  <2>4. row.splits = source.splits
    BY <1>5, <2>1, <2>3, ScaledToItself
  <2> QED BY <2>2, <2>4
<1>8. row.number <= plans[row.plan].current + 1
  BY <1>3, <1>4 DEF IInv, TableInv, Plan
<1> QED BY <1>1, <1>2, <1>3, <1>7, <1>8, InsertDoes, ChargeDivision

\* An advance takes a plan forward only.
LEMMA AdvanceDivision ==
    ASSUME IInv, SerialInv, DivisionInv, NEW r \in Requests, Advance(r)
    PROVE  DivisionInv'
<1> DEFINE s == job[r].plan
<1>1. /\ s.plan \in PlanIds /\ s.current \in Nat
      /\ plans'[s.plan].current = s.current + 1
      /\ \A p \in Requests \ {s.plan} : plans'[p] = plans[p]
      /\ pc[r] = "advance" /\ UNCHANGED <<expenses, issued>>
  BY AdvanceDoes
<1>2. plans[s.plan].current = s.current
  BY <1>1 DEF SerialInv, FreshInv, Fresh
<1> HIDE DEF s
<1>3. \A i \in issued : i.plan \in Requests /\ i.number \in Nat
  BY DEF IInv, TableInv, Charge
<1>4. OneBehind'
  BY <1>1, <1>2, <1>3 DEF DivisionInv, OneBehind
<1> QED BY <1>1, <1>4 DEF DivisionInv, SameDivision

\* A new plan has no charges.
LEMMA InsertPlanDivision ==
    ASSUME IInv, DivisionInv, NEW r \in Requests, InsertPlan(r)
    PROVE  DivisionInv'
<1>1. CASE UNCHANGED db
  BY <1>1, QuietDivision DEF db
<1>2. ASSUME NEW plan, plans' = [plans EXCEPT ![r] = plan], UNCHANGED <<expenses, issued>>
      PROVE  DivisionInv'
  <2>1. plans[r] = NoPlan
    BY DEF InsertPlan, IInv, RequestInv
  <2>2. \A i \in issued : i.plan \in Requests /\ i.plan # r
    BY <2>1 DEF IInv, TableInv, ChargesMatchPlan, Charge
  <2>3. \A i \in issued : plans'[i.plan] = plans[i.plan]
    BY <1>2, <2>2 DEF IInv, TableInv
  <2> QED BY <1>2, <2>3 DEF DivisionInv, OneBehind, SameDivision
<1> QED BY <1>1, <1>2 DEF InsertPlan

\* Every step keeps it.
LEMMA DivisionKeeps ==
    ASSUME IInv, SerialInv, PartiesInv, SplitsInv, DivisionInv, SerialNext
    PROVE  DivisionInv'
<1>1. ASSUME UNCHANGED <<plans, issued>>, expenses' \subseteq expenses PROVE DivisionInv'
  BY <1>1, QuietDivision
<1>2. ASSUME NEW r \in Requests, Start(r) \/ Abort(r) PROVE DivisionInv'
  BY <1>1, <1>2 DEF Start, CreateStart, CloseStart, PatchStart, DeleteStart, Abort,
                    Accept, Reject, db
<1>3. ASSUME NEW r \in Requests, Step(r) PROVE DivisionInv'
  <2>1. CASE InsertPlan(r) \/ InsertRow(r) \/ InsertNext(r) \/ Advance(r) \/ Update(r)
    BY <2>1, InsertPlanDivision, InsertRowDivision, InsertNextDivision, AdvanceDivision,
       UpdateDivision
  <2>2. CASE \/ ReadPlans(r) \/ NextPlan(r) \/ ReadSplits(r) \/ CloseEnd(r)
             \/ CheckMethod(r) \/ Delete(r)
    BY <1>1, <2>2 DEF ReadPlans, NextPlan, ReadSplits, CloseEnd, CheckMethod,
                      Delete, Reject, db
  <2> QED BY <1>3, <2>1, <2>2 DEF Step
<1>4. ASSUME NEW m \in Methods, PatchMethodType(m) \/ DeleteMethod(m) PROVE DivisionInv'
  BY <1>1, <1>4 DEF PatchMethodType, DeleteMethod
<1>5. CASE UNCHANGED vars
  BY <1>1, <1>5 DEF vars
<1> QED BY <1>2, <1>3, <1>4, <1>5 DEF SerialNext, Next

\* Equal installments of a purchase are divided alike, however many clones lie between
\* them: rounding does not drift, even if requests are cut short.
THEOREM InstallmentsDividedAlike == SerialSpec => []SameDivision
<1>1. Init => DivisionInv
  BY DEF Init, DivisionInv, OneBehind, SameDivision
<1>2. IInv /\ SerialInv /\ PartiesInv /\ SplitsInv /\ DivisionInv /\ SerialNext
         => DivisionInv'
  BY DivisionKeeps
<1>3. DivisionInv => SameDivision
  BY DEF DivisionInv
<1> QED BY <1>1, <1>2, <1>3, SerialIsSpec, Invariance, PartiesInvariance,
           SplitsInvariance, SerialInvariance, PTL DEF SerialSpec, SerialNext

-----------------------------------------------------------------------------
(* What was charged so far: a sum of equal amounts, but for the last.      *)

\* The sum over every subset of S, one element taken away after the other, as the fold
\* in Charged takes them.
SumRec(S, f) ==
    [s \in SUBSET S |->
        IF s = {} THEN 0
        ELSE LET x == CHOOSE x \in s : TRUE IN x.amount + f[s \ {x}]]
SumOver(S) == CHOOSE f : f = SumRec(S, f)

\* Both take the elements away in the same order.
LEMMA ChargedIsSum == \A p : Charged(p) = SumOver(IssuedOf(p))[IssuedOf(p)]
BY DEF Charged, MapThenSumSet, MapThenFoldSet, SumOver, SumRec

\* When all amounts are c, but that of y is d more, so is the sum.
LEMMA SumOfAlike ==
    ASSUME NEW S, IsFiniteSet(S), NEW c \in Int, NEW d \in Int, NEW y,
           \A i \in S : i.amount = IF i = y THEN c + d ELSE c
    PROVE  SumOver(S)[S] = c * Cardinality(S) + (IF y \in S THEN d ELSE 0)
<1> DEFINE Sum(s) == c * Cardinality(s) + (IF y \in s THEN d ELSE 0)
           g == [s \in SUBSET S |-> Sum(s)]
           f == SumOver(S)
<1>1. \A s \in SUBSET S : IsFiniteSet(s) /\ Cardinality(s) \in Nat
  BY FS_Subset, FS_CardinalityType
<1>2. Sum({}) = 0
  BY FS_EmptySet
<1>3. ASSUME NEW s \in SUBSET S, NEW x \in s
      PROVE  /\ Cardinality(s \ {x}) = Cardinality(s) - 1
             /\ Sum(s) = x.amount + Sum(s \ {x})
  <2>1. Cardinality(s \ {x}) = Cardinality(s) - 1
    BY <1>1, FS_RemoveElement
  <2>2. \A k \in Int : c * (k - 1) = c * k - c /\ c * k \in Int
    OBVIOUS
  <2>3. Cardinality(s) \in Int
    BY <1>1
  <2>4. Sum(s \ {x}) = c * Cardinality(s) - c + (IF y \in s \ {x} THEN d ELSE 0)
    BY <2>1, <2>2, <2>3
  <2>5. x.amount = IF x = y THEN c + d ELSE c
    OBVIOUS
  <2>6. CASE x = y
    <3>1. y \in s /\ y \notin s \ {x}
      BY <2>6
    <3> QED BY <2>1, <2>2, <2>3, <2>4, <2>5, <2>6, <3>1
  <2>7. CASE x # y
    <3>1. y \in s <=> y \in s \ {x}
      BY <2>7
    <3> QED BY <2>1, <2>2, <2>3, <2>4, <2>5, <2>7, <3>1
  <2> QED BY <2>6, <2>7
<1> HIDE DEF Sum
<1>4. g = SumRec(S, g)
  <2>1. ASSUME NEW s \in SUBSET S, s # {}
        PROVE  g[s] = LET x == CHOOSE x \in s : TRUE IN x.amount + g[s \ {x}]
    <3>1. PICK x : x = CHOOSE z \in s : TRUE
      OBVIOUS
    <3>2. x \in s
      BY <2>1, <3>1
    <3>3. g[s] = Sum(s) /\ g[s \ {x}] = Sum(s \ {x})
      OBVIOUS
    <3>4. g[s] = x.amount + g[s \ {x}]
      BY <1>3, <3>2, <3>3
    <3> QED BY <3>1, <3>4
  <2> QED BY <1>2, <2>1 DEF SumRec
<1> HIDE DEF g
<1>5. f = SumRec(S, f)
  BY <1>4 DEF SumOver
<1> HIDE DEF f
<1>6. f[{}] = 0 /\ \A s \in SUBSET S : s # {} => \E x \in s : f[s] = x.amount + f[s \ {x}]
  <2>1. f[{}] = 0
    BY <1>5 DEF SumRec
  <2>2. ASSUME NEW s \in SUBSET S, s # {} PROVE \E x \in s : f[s] = x.amount + f[s \ {x}]
    <3>1. PICK x : x = CHOOSE z \in s : TRUE
      OBVIOUS
    <3>2. x \in s
      BY <2>2, <3>1
    <3>3. SumRec(S, f)[s] = x.amount + f[s \ {x}]
      BY <2>2, <3>1 DEF SumRec
    <3> QED BY <1>5, <3>2, <3>3
  <2> QED BY <2>1, <2>2
<1> DEFINE T == {k \in Nat : \A s \in SUBSET S : Cardinality(s) = k => f[s] = Sum(s)}
<1>7. 0 \in T
  BY <1>1, <1>2, <1>6, FS_EmptySet
<1>8. ASSUME NEW k \in T PROVE k + 1 \in T
  <2>1. k \in Nat /\ \A s \in SUBSET S : Cardinality(s) = k => f[s] = Sum(s)
    OBVIOUS
  <2> HIDE DEF T
  <2>2. ASSUME NEW s \in SUBSET S, Cardinality(s) = k + 1 PROVE f[s] = Sum(s)
    <3>1. Cardinality(s) # 0
      BY <2>1, <2>2
    <3>2. s # {}
      BY <3>1, FS_EmptySet
    <3>3. PICK x \in s : f[s] = x.amount + f[s \ {x}]
      BY <1>6, <3>2
    <3>4. Cardinality(s \ {x}) = k /\ s \ {x} \in SUBSET S
      <4>1. Cardinality(s \ {x}) = (k + 1) - 1
        BY <1>3, <2>2
      <4>2. (k + 1) - 1 = k
        BY <2>1
      <4> QED BY <4>1, <4>2
    <3>5. f[s \ {x}] = Sum(s \ {x})
      BY <2>1, <3>4
    <3>6. Sum(s) = x.amount + Sum(s \ {x})
      BY <1>3
    <3> QED BY <3>3, <3>5, <3>6
  <2>3. k + 1 \in Nat
    BY <2>1
  <2> QED BY <2>2, <2>3 DEF T
<1>9. T = Nat
  <2> HIDE DEF T
  <2> QED BY <1>7, <1>8, SetInduction DEF T
<1>10. f[S] = Sum(S)
  BY <1>1, <1>9
<1> QED BY <1>10 DEF f, Sum

\* When the installments up to a number are charged, what they add up to: the base
\* installment as often, or the total once the last one is among them.
ChargesAddUp ==
    \A p \in PlanIds, n \in Nat :
        n <= plans[p].count /\ ChargedUpTo(p, n) =>
            /\ Cardinality(IssuedOf(p)) = n
            /\ Charged(p) = IF n < plans[p].count
                            THEN BaseInstallment(plans[p].total, plans[p].count) * n
                            ELSE plans[p].total

\* Every charge is what computeInstallmentAmount says.
LEMMA ChargedSoFar == IInv => ChargesAddUp
<1> SUFFICES ASSUME IInv, NEW p \in PlanIds, NEW n \in Nat,
                    n <= plans[p].count, ChargedUpTo(p, n)
             PROVE  /\ Cardinality(IssuedOf(p)) = n
                    /\ Charged(p) = IF n < plans[p].count
                                    THEN BaseInstallment(plans[p].total, plans[p].count) * n
                                    ELSE plans[p].total
  BY DEF ChargesAddUp
<1> DEFINE S == IssuedOf(p)
           total == plans[p].total
           count == plans[p].count
           base == BaseInstallment(total, count)
<1>1. total \in Nat /\ count \in Nat \ {0}
  BY DEF PlanIds, IInv, TableInv, Plan
<1>2. base \in Nat
  BY <1>1, BaseBounds
<1>3. \A i \in S : /\ i.number \in 1..n
                   /\ i.amount = InstallmentAmount(total, count, i.number)
  <2>1. \A i \in S : i.number \in {j.number : j \in S}
    OBVIOUS
  <2>2. \A i \in S : i \in issued /\ i.plan = p
    BY DEF IssuedOf
  <2> QED BY <2>1, <2>2 DEF ChargedUpTo, IInv, TableInv, ChargesMatchPlan
<1>4. IsFiniteSet(S) /\ Cardinality(S) = n
  BY ChargedCount
<1>5. Charged(p) = SumOver(S)[S]
  BY ChargedIsSum
<1>6. \A i, j \in S : i.number = j.number => i = j
  BY DEF ChargedUpTo
<1>7. {i.number : i \in S} = 1..n
  BY DEF ChargedUpTo
<1> HIDE DEF S, total, count, base
<1>8. \A k \in 1..n : InstallmentAmount(total, count, k) =
                         IF k < count THEN base ELSE total - base * (count - 1)
  BY DEF InstallmentAmount, base
<1>9. CASE n < count
  <2>1. PICK y : y \notin S
    <3>1. \A i \in S : i \in Charge
      BY DEF S, IssuedOf, IInv, TableInv
    <3>2. [c \in {0} |-> 0] \notin Charge
      BY DEF Charge
    <3> QED BY <3>1, <3>2
  <2>2. \A i \in S : i.amount = base
    BY <1>1, <1>3, <1>8, <1>9
  <2>3. \A i \in S : i.amount = IF i = y THEN base + 0 ELSE base
    BY <2>1, <2>2
  <2>4. SumOver(S)[S] = base * Cardinality(S) + (IF y \in S THEN 0 ELSE 0)
    <3>1. base \in Int /\ 0 \in Int
      BY <1>2
    <3> QED BY ONLY <1>4, <2>3, <3>1, SumOfAlike, Zenon
  <2>5. base * n \in Nat
    BY <1>2
  <2> QED BY <1>4, <1>5, <1>9, <2>4, <2>5 DEF count, total, S, base
<1>10. CASE n = count
  <2>1. PICK y \in S : y.number = count
    <3>1. count \in 1..n
      BY <1>1, <1>10
    <3> QED BY <1>7, <3>1
  <2> DEFINE last == total - base * (count - 1)
             d == last - base
  <2>2. last \in Int /\ d \in Int /\ base + d = last
    <3>1. base * (count - 1) \in Int
      BY <1>1, <1>2
    <3> QED BY <1>1, <1>2, <3>1
  <2>3. \A i \in S : i.amount = IF i = y THEN base + d ELSE base
    <3>1. \A i \in S : i # y => i.number < count
      BY <1>1, <1>3, <1>6, <1>10, <2>1
    <3>2. y.number = count /\ ~(count < count)
      BY <1>1, <2>1
    <3> QED BY <1>3, <1>8, <2>1, <2>2, <3>1, <3>2
  <2> HIDE DEF last
  <2>4. SumOver(S)[S] = base * Cardinality(S) + d
    <3> HIDE DEF d
    <3>1. base \in Int /\ d \in Int
      BY <1>2, <2>2
    <3>2. SumOver(S)[S] = base * Cardinality(S) + (IF y \in S THEN d ELSE 0)
      BY ONLY <1>4, <2>3, <3>1, SumOfAlike, Zenon
    <3> QED BY <2>1, <3>2
  <2>5. base * (count - 1) = base * count - base /\ base * count \in Int
    BY <1>1, <1>2
  <2>6. base * Cardinality(S) + d = total
    BY <1>1, <1>2, <1>4, <1>10, <2>5 DEF last
  <2> QED BY <1>1, <1>4, <1>5, <1>10, <2>4, <2>6 DEF count, total, S
<1> QED BY <1>1, <1>9, <1>10 DEF count

\* What one more installment takes of what is left.
LEMMA NextCharge ==
    ASSUME NEW total \in Nat, NEW count \in Nat \ {0}, count <= total,
           NEW n \in Nat, n < count
    PROVE  LET base == BaseInstallment(total, count)
               before == total - base * n
               after == IF n + 1 < count THEN total - base * (n + 1) ELSE 0
           IN  /\ before \in Nat /\ after \in Nat /\ before - after >= 1
               /\ after >= (count - n) - 1
               /\ n + 1 = count => after = 0
<1> DEFINE base == BaseInstallment(total, count)
<1>1. base \in Nat /\ base * count <= total /\ total < base * count + count
  BY BaseBounds
<1> HIDE DEF base
<1>2. base >= 1
  <2>1. base = 0 => base * count = 0
    OBVIOUS
  <2> QED BY <1>1, <2>1
<1>3. PICK k \in Nat : n + 1 + k = count
  <2>1. count - (n + 1) \in Nat /\ n + 1 + (count - (n + 1)) = count
    OBVIOUS
  <2> QED BY <2>1
<1>4. /\ base * (n + 1) = base * n + base
      /\ base * count = base * n + base + base * k
      /\ base * n \in Nat /\ base * k >= k /\ base * k \in Nat
  <2>1. base * (n + 1) = base * n + base /\ base * n \in Nat /\ base * k \in Nat
    BY <1>1
  <2>2. base * (n + 1 + k) = base * n + base + base * k
    BY <1>1
  <2>3. base * k >= k
    <3>1. PICK b \in Nat : base = b + 1
      <4>1. base - 1 \in Nat /\ base = (base - 1) + 1
        BY <1>1, <1>2
      <4> QED BY <4>1
    <3>2. (b + 1) * k = b * k + k /\ b * k \in Nat
      OBVIOUS
    <3> QED BY <3>1, <3>2
  <2> QED BY <1>3, <2>1, <2>2, <2>3
<1> DEFINE before == total - base * n
           after == IF n + 1 < count THEN total - base * (n + 1) ELSE 0
           x == base * n
           y == base * k
<1>5. x \in Nat /\ y \in Nat /\ y >= k /\ total >= x + base + y
      /\ base * (n + 1) = x + base
  BY <1>1, <1>4
<1> HIDE DEF x, y
<1>6. before = total - x /\ (n + 1 < count => after = total - (x + base))
      /\ (n + 1 = count => after = 0)
  BY <1>5 DEF x
<1> HIDE DEF before, after
<1>7. /\ before \in Nat /\ after \in Nat /\ before - after >= 1
      /\ after >= (count - n) - 1
      /\ n + 1 = count => after = 0
  <2>1. CASE n + 1 < count
    BY <1>1, <1>2, <1>3, <1>5, <1>6, <2>1
  <2>2. CASE n + 1 = count
    BY <1>1, <1>2, <1>3, <1>5, <1>6, <2>2
  <2> QED BY <1>3, <2>1, <2>2
<1> QED BY <1>7, Zenon DEF base, before, after

-----------------------------------------------------------------------------
(* Every statement is a step of the ledger, or a stutter.                  *)

\* What is owed of a purchase depends on its plan and on its charges, no matter what
\* else there is.
LEMMA ChargedSame ==
    \A p : IssuedOf(p)' = IssuedOf(p) => Charged(p)' = Charged(p)
<1>1. (\A p : Charged(p) = SumOver(IssuedOf(p))[IssuedOf(p)])'
  BY ChargedIsSum, PTL
<1> QED BY <1>1, ChargedIsSum

\* Steps that make no plan, change no total and no count, and charge nothing.
LEMMA QuietLedger ==
    ASSUME UNCHANGED issued, PlanIds' = PlanIds,
           \A p \in PlanIds : /\ plans'[p].total = plans[p].total
                              /\ plans'[p].count = plans[p].count
    PROVE  UNCHANGED Purchases!vars
<1>1. \A p : IssuedOf(p)' = IssuedOf(p)
  BY DEF IssuedOf
<1>2. \A p : Charged(p)' = Charged(p)
  BY <1>1, ChargedSame
<1>3. Owed' = Owed
  BY <1>2 DEF Owed
<1>4. Remaining' = Remaining
  BY <1>1 DEF Remaining
<1> QED BY <1>3, <1>4 DEF Purchases!vars

\* The insert of a plan opens the purchase, with the amount and the number of
\* installments that were sent.
LEMMA InsertPlanLedger ==
    ASSUME IInv, IInv', ChargedInv, NEW r \in Requests, InsertPlan(r), ~UNCHANGED db
    PROVE  Purchases!Open(r)
<1> DEFINE b == body[r]
<1>1. /\ plans[r] = NoPlan /\ b \in CreateBodies /\ b.installments # 0
      /\ b.installments <= b.amount /\ pc[r] = "insertPlan"
  BY DEF InsertPlan, IInv, RequestInv
<1>2. PICK plan : /\ plans' = [plans EXCEPT ![r] = plan] /\ UNCHANGED issued
                  /\ plan.total = b.amount /\ plan.count = b.installments
                  /\ plan # NoPlan
  <2>1. PICK plan : plan = [method |-> b.method, total |-> b.amount,
                            count |-> b.installments, current |-> 1,
                            completed |-> FALSE]
    OBVIOUS
  <2>2. plans' = [plans EXCEPT ![r] = plan] /\ UNCHANGED issued
    BY <2>1 DEF InsertPlan, db
  <2>3. plan.total = b.amount /\ plan.count = b.installments
    BY <2>1
  <2>4. plan \in Plan
    <3>1. /\ b.method \in Methods /\ b.amount \in Nat \ {0}
          /\ b.installments \in Nat \ {0, 1}
      BY <1>1 DEF CreateBody
    <3> QED BY <2>1, <3>1 DEF Plan
  <2> QED BY <2>2, <2>3, <2>4
<1> HIDE DEF b
<1>3. /\ plans'[r] = plan /\ \A p \in Requests \ {r} : plans'[p] = plans[p]
      /\ PlanIds' = PlanIds \cup {r} /\ r \notin PlanIds
  BY <1>1, <1>2 DEF PlanIds, IInv, TableInv
<1>4. \A p : IssuedOf(p)' = IssuedOf(p)
  BY <1>2 DEF IssuedOf
<1>5. \A p : Charged(p)' = Charged(p)
  BY <1>4, ChargedSame
<1>6. Charged(r) = 0 /\ Cardinality(IssuedOf(r)) = 0
  <2>1. IssuedOf(r) = {}
    BY <1>1 DEF ChargedInv, Early
  <2>2. SumOver({})[{}] = 0 * Cardinality({}) + (IF r \in {} THEN 0 ELSE 0)
    BY ONLY FS_EmptySet, SumOfAlike, 0 \in Int
  <2>3. SumOver({})[{}] = 0 /\ Cardinality({}) = 0
    BY <2>2, FS_EmptySet
  <2>4. Charged(r) = SumOver(IssuedOf(r))[IssuedOf(r)]
    BY ChargedIsSum
  <2> QED BY <2>1, <2>3, <2>4, Zenon
<1>7. b.amount \in Nat /\ b.installments \in Nat
  BY <1>1 DEF CreateBody
<1>8. Owed' = [Owed EXCEPT ![r] = b.amount]
  <2>1. Owed'[r] = b.amount
    BY <1>2, <1>3, <1>5, <1>6, <1>7 DEF Owed
  <2>2. \A p \in Requests \ {r} : Owed'[p] = Owed[p]
    BY <1>3, <1>5 DEF Owed
  <2>3. Owed = [p \in Requests |-> Owed[p]] /\ Owed' = [p \in Requests |-> Owed'[p]]
    BY DEF Owed
  <2> QED BY <2>1, <2>2, <2>3, Zenon
<1>9. Remaining' = [Remaining EXCEPT ![r] = b.installments]
  <2>1. Remaining'[r] = b.installments
    BY <1>2, <1>3, <1>4, <1>6, <1>7 DEF Remaining
  <2>2. \A p \in Requests \ {r} : Remaining'[p] = Remaining[p]
    BY <1>3, <1>4 DEF Remaining
  <2>3. /\ Remaining = [p \in Requests |-> Remaining[p]]
        /\ Remaining' = [p \in Requests |-> Remaining'[p]]
    BY DEF Remaining
  <2> QED BY <2>1, <2>2, <2>3, Zenon
<1> QED BY <1>1, <1>3, <1>8, <1>9 DEF Purchases!Open

\* The insert of the installment that comes next charges the purchase.
LEMMA ChargeLedger ==
    ASSUME IInv, IInv', NEW p \in PlanIds, NEW n \in Nat, n < plans[p].count,
           ChargedUpTo(p, n), ChargedUpTo(p, n + 1)', UNCHANGED plans,
           \A q : q # p => IssuedOf(q)' = IssuedOf(q)
    PROVE  Purchases!Charge(p)
<1> DEFINE total == plans[p].total
           count == plans[p].count
           base == BaseInstallment(total, count)
           before == total - base * n
           after == IF n + 1 < count THEN total - base * (n + 1) ELSE 0
<1>1. /\ total \in Nat /\ count \in Nat \ {0} /\ count <= total
      /\ p \in Requests /\ PlanIds' = PlanIds
  BY DEF PlanIds, IInv, TableInv, Plan
<1>2. /\ before \in Nat /\ after \in Nat /\ before - after >= 1
      /\ after >= (count - n) - 1 /\ (n + 1 = count => after = 0)
  <2> HIDE DEF total, count
  <2> QED BY <1>1, NextCharge DEF count
<1>3. Owed[p] = before /\ Remaining[p] = count - n
  <2>1. Charged(p) = base * n /\ Cardinality(IssuedOf(p)) = n
    BY <1>1, ChargedSoFar DEF ChargesAddUp
  <2> QED BY <1>1, <2>1 DEF Owed, Remaining
<1>4. Owed'[p] = after /\ Remaining'[p] = count - (n + 1)
  <2>1. (IInv => ChargesAddUp)'
    BY ChargedSoFar, PTL
  <2>2. /\ Charged(p)' = IF n + 1 < count THEN base * (n + 1) ELSE total
        /\ Cardinality(IssuedOf(p))' = n + 1
    BY <1>1, <2>1 DEF ChargesAddUp
  <2> QED BY <1>1, <2>2 DEF Owed, Remaining
<1> HIDE DEF total, count, base, before, after
<1>5. \A q \in Requests \ {p} : Owed'[q] = Owed[q] /\ Remaining'[q] = Remaining[q]
  <2>1. \A q : q # p => Charged(q)' = Charged(q)
    BY ChargedSame
  <2> QED BY <1>1, <2>1 DEF Owed, Remaining
<1>6. /\ Owed = [q \in Requests |-> Owed[q]] /\ Owed' = [q \in Requests |-> Owed'[q]]
      /\ Remaining = [q \in Requests |-> Remaining[q]]
      /\ Remaining' = [q \in Requests |-> Remaining'[q]]
  BY DEF Owed, Remaining
<1>7. PICK amount : amount = before - after
  OBVIOUS
<1>8. /\ amount \in 1..Owed[p] /\ Owed[p] - amount = after
      /\ after >= Remaining[p] - 1 /\ Remaining[p] > 0
      /\ Remaining[p] = 1 => amount = Owed[p]
      /\ Remaining'[p] = Remaining[p] - 1
  <2>1. PICK x, y, u, v : x = Owed[p] /\ y = Remaining[p] /\ u = after /\ v = Remaining'[p]
    OBVIOUS
  <2>2. /\ x \in Nat /\ u \in Nat /\ x - u >= 1 /\ u >= (count - n) - 1
        /\ (n + 1 = count => u = 0) /\ y = count - n /\ v = count - (n + 1)
        /\ amount = x - u /\ count \in Nat /\ n < count
    BY <1>1, <1>2, <1>3, <1>4, <1>7, <2>1 DEF count
  <2>3. /\ amount \in 1..x /\ x - amount = u /\ u >= y - 1 /\ y > 0
        /\ (y = 1 => amount = x) /\ v = y - 1
    BY <2>2
  <2> QED BY <2>1, <2>3
<1>9. Owed' = [Owed EXCEPT ![p] = @ - amount]
  BY <1>1, <1>4, <1>5, <1>6, <1>8, Zenon
<1>10. Remaining' = [Remaining EXCEPT ![p] = @ - 1]
  BY <1>1, <1>5, <1>6, <1>8, Zenon
<1> QED BY <1>1, <1>8, <1>9, <1>10 DEF Purchases!Charge

\* Steps on other tables change nothing of the ledger.
LEMMA OtherTablesLedger == UNCHANGED <<plans, issued>> => UNCHANGED Purchases!vars
BY QuietLedger DEF PlanIds

\* Once the insert of a plan is through, the insert of its first installment is a charge
\* of the purchase.
LEMMA InsertRowLedger ==
    ASSUME IInv, IInv', ChargedInv, NEW r \in Requests, InsertRow(r)
    PROVE  UNCHANGED Purchases!vars \/ \E p \in Requests : Purchases!Charge(p)
<1> DEFINE b == body[r]
           amount == IF b.installments = 0 THEN b.amount ELSE FirstAmount(b)
           divisible == \/ b.group \in DefaultGroups
                        \/ SplitAccepted(b.split, amount, Members[b.group])
<1>0. PICK row : row = NewRow(r)
  OBVIOUS
<1>1. pc[r] = "insertRow"
  BY DEF InsertRow
<1>2. CASE UNCHANGED <<plans, issued>>
  BY <1>2, OtherTablesLedger
<1>3. CASE divisible /\ InsertExpense(r, row, End(r, "done"))
  <2>1. /\ row \in Row
        /\ row.plan # NoPlan =>
              /\ row.plan = r /\ plans[r] # NoPlan /\ row.number = 1
    BY <1>0, <1>1, <1>3, NewRowIsGood
  <2>2. CASE /\ row.plan # NoPlan /\ UNCHANGED plans
             /\ issued' = issued \cup {ChargeBy(r, row)}
    <3>1. r \in PlanIds /\ ChargedUpTo(r, 0)
      BY <1>1, <2>1, <2>2, FirstIsNext
    <3>2. PICK c \in Charge : /\ c = ChargeBy(r, row) /\ c.plan = r /\ c.number = 1
      BY <2>1, <2>2, ChargeTyped
    <3>3. c.number = 0 + 1 /\ 0 \in Nat /\ ChargedUpTo(c.plan, 0) /\ issued \subseteq Charge
      BY <3>1, <3>2 DEF IInv, TableInv
    <3>4. /\ ChargedUpTo(c.plan, 0 + 1)'
          /\ \A q : q # c.plan => IssuedOf(q)' = IssuedOf(q)
      BY ONLY <2>2, <3>2, <3>3, ChargeOne
    <3>5. 0 < plans[r].count
      BY <3>1 DEF PlanIds, IInv, TableInv, Plan
    <3> QED BY <2>2, <3>1, <3>2, <3>3, <3>4, <3>5, ChargeLedger
  <2> QED BY <1>2, <1>3, <2>2, InsertDoes DEF db
<1> QED BY <1>0, <1>2, <1>3 DEF InsertRow, Reject, db

\* The insert of a clone is a charge of the purchase.
LEMMA InsertNextLedger ==
    ASSUME IInv, IInv', SerialInv, ChargedInv, NEW r \in Requests, InsertNext(r)
    PROVE  UNCHANGED Purchases!vars \/ \E p \in Requests : Purchases!Charge(p)
<1> DEFINE s == job[r].plan
<1>0. PICK row : row = NextRow(r)
  OBVIOUS
<1>1. pc[r] = "insertNext" /\ InsertExpense(r, row, Go(r, "advance"))
  BY <1>0 DEF InsertNext
<1>2. /\ row \in Row /\ row.plan # NoPlan /\ row.plan = s.plan
      /\ row.number = s.current + 1
  BY <1>0, <1>1, NextRowIsGood
<1>3. /\ s.plan \in PlanIds /\ s.current \in Nat /\ s.current < plans[s.plan].count
      /\ ChargedUpTo(s.plan, s.current)
  BY <1>1, CloneIsNext
<1> HIDE DEF s
<1>4. CASE UNCHANGED <<plans, issued>>
  BY <1>4, OtherTablesLedger
<1>5. CASE UNCHANGED plans /\ issued' = issued \cup {ChargeBy(r, row)}
  <2>1. PICK c \in Charge : /\ c = ChargeBy(r, row) /\ c.plan = s.plan
                            /\ c.number = s.current + 1
    BY <1>2, ChargeTyped
  <2>2. PICK n \in Nat : n = s.current
    BY <1>3
  <2>3. /\ c.number = n + 1 /\ ChargedUpTo(c.plan, n) /\ issued \subseteq Charge
        /\ issued' = issued \cup {c} /\ c.plan \in PlanIds /\ n < plans[c.plan].count
    BY <1>3, <1>5, <2>1, <2>2 DEF IInv, TableInv
  <2>4. /\ ChargedUpTo(c.plan, n + 1)'
        /\ \A q : q # c.plan => IssuedOf(q)' = IssuedOf(q)
    BY ONLY <2>3, ChargeOne
  <2>5. Purchases!Charge(c.plan)
    BY <1>5, <2>3, <2>4, ChargeLedger
  <2> QED BY <2>3, <2>5 DEF PlanIds
<1> QED BY <1>1, <1>2, <1>4, <1>5, InsertDoes DEF db

\* An advance changes neither what was bought nor what was charged.
LEMMA AdvanceLedger ==
    ASSUME IInv, NEW r \in Requests, Advance(r)
    PROVE  UNCHANGED Purchases!vars
<1>1. PICK p, c, d : /\ p = job[r].plan.plan
                     /\ c = job[r].plan.current + 1 /\ d \in BOOLEAN
                     /\ plans' = [plans EXCEPT ![p].current = c, ![p].completed = d]
  <2>1. \A x, y : IsLast(x, y) \in BOOLEAN
    BY DEF IsLast
  <2> QED BY <2>1, Zenon DEF Advance, Advanced
<1>2. UNCHANGED issued /\ pc[r] = "advance"
  BY DEF Advance
<1>3. job[r].plan \in Snapshot /\ StillTrue(job[r].plan)
  BY <1>2 DEF IInv, RequestInv, Job
<1>4. p \in PlanIds /\ plans[p] \in Plan
  BY <1>1, <1>3 DEF StillTrue, Snapshot, PlanIds, IInv, TableInv
<1>5. /\ plans'[p] = [plans[p] EXCEPT !.current = c, !.completed = d]
      /\ \A q \in Requests \ {p} : plans'[q] = plans[q]
  BY <1>1, <1>4 DEF PlanIds, IInv, TableInv
<1>6. /\ [plans[p] EXCEPT !.current = c, !.completed = d].total = plans[p].total
      /\ [plans[p] EXCEPT !.current = c, !.completed = d].count = plans[p].count
  BY <1>4, Zenon DEF Plan
<1>7. plans'[p].total = plans[p].total /\ plans'[p].count = plans[p].count
  BY <1>5, <1>6, Zenon
<1>8. plans'[p] # NoPlan
  <2>1. c \in Nat \ {0}
    BY <1>1, <1>3 DEF Snapshot
  <2>2. [plans[p] EXCEPT !.current = c, !.completed = d] \in Plan
    BY <1>1, <1>4, <2>1 DEF Plan
  <2> QED BY <1>5, <2>2
<1>9. PlanIds' = PlanIds
  BY <1>4, <1>5, <1>8 DEF PlanIds
<1>10. \A q \in PlanIds : q # p => plans'[q] = plans[q]
  BY <1>5 DEF PlanIds
<1> QED BY <1>2, <1>7, <1>9, <1>10, QuietLedger

\* What each step of requests none of which is cut short is to the ledger.
LEMMA LedgerStep ==
    ASSUME IInv, IInv', SerialInv, ChargedInv, SerialNext
    PROVE  [Purchases!Next]_(Purchases!vars)
<1>1. ASSUME UNCHANGED <<plans, issued>> PROVE UNCHANGED Purchases!vars
  BY <1>1, OtherTablesLedger
<1>2. ASSUME NEW r \in Requests, Start(r) \/ Abort(r) PROVE UNCHANGED Purchases!vars
  BY <1>1, <1>2 DEF Start, CreateStart, CloseStart, PatchStart, DeleteStart, Abort,
                    Accept, Reject, db
<1>3. ASSUME NEW r \in Requests, Step(r) PROVE [Purchases!Next]_(Purchases!vars)
  <2>1. CASE InsertPlan(r)
    <3>1. CASE UNCHANGED db
      BY <1>1, <3>1 DEF db
    <3>2. CASE ~UNCHANGED db
      BY <2>1, <3>2, InsertPlanLedger DEF Purchases!Next
    <3> QED BY <3>1, <3>2
  <2>2. CASE InsertRow(r) \/ InsertNext(r)
    BY <2>2, InsertRowLedger, InsertNextLedger DEF Purchases!Next
  <2>3. CASE Advance(r)
    BY <2>3, AdvanceLedger
  <2>4. CASE \/ ReadPlans(r) \/ NextPlan(r) \/ ReadSplits(r) \/ CloseEnd(r)
             \/ CheckMethod(r) \/ Update(r) \/ Delete(r)
    BY <1>1, <2>4 DEF ReadPlans, NextPlan, ReadSplits, CloseEnd, CheckMethod, Update,
                      Delete, Reject, db
  <2> QED BY <1>3, <2>1, <2>2, <2>3, <2>4 DEF Step
<1>4. ASSUME NEW m \in Methods, PatchMethodType(m) \/ DeleteMethod(m)
      PROVE  UNCHANGED Purchases!vars
  BY <1>1, <1>4 DEF PatchMethodType, DeleteMethod
<1>5. CASE UNCHANGED vars
  BY <1>1, <1>5 DEF vars
<1> QED BY <1>2, <1>3, <1>4, <1>5 DEF SerialNext, Next

\* Whatever was bought is charged in as many installments as were asked for, each of a
\* cent or more, and together they are the amount that was sent: the tables of a client
\* whose requests come one by one and are not cut short keep the promise of Ledger.
THEOREM ExpensesKeepLedger == ASSUME MayFail = {} PROVE SerialSpec => KeepsLedger
<1>1. Init => Purchases!Init
  <2> SUFFICES ASSUME Init PROVE Purchases!Init
    OBVIOUS
  <2>1. PlanIds = {}
    BY DEF Init, PlanIds
  <2>2. Owed = [p \in Requests |-> 0] /\ Remaining = [p \in Requests |-> 0]
    BY <2>1 DEF Owed, Remaining
  <2> QED BY <2>1, <2>2 DEF Purchases!Init
<1>2. IInv /\ IInv' /\ SerialInv /\ ChargedInv /\ SerialNext
         => [Purchases!Next]_(Purchases!vars)
  BY LedgerStep
<1> QED BY <1>1, <1>2, ChargedInvariance, SerialIsSpec, Invariance, SerialInvariance, PTL
        DEF SerialSpec, SerialNext, KeepsLedger, Purchases!Spec
=============================================================================
