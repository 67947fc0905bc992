---------------------------- MODULE AccessProofs ----------------------------
(***************************************************************************)
(* What the guards promise, for any number of requests, users and tokens.  *)
(*                                                                         *)
(* The guard of a key makes no group, so that everybody a handler runs for *)
(* has one rests on where keys come from: only a request that was let in   *)
(* with a JWT, past the point where its user has a Personal group, makes   *)
(* one.  So the invariant is about every key and every request from the    *)
(* sign-in on, and not only about the ones that a handler runs for.        *)
(***************************************************************************)
EXTENDS Access, TLAPS

USE AccessConstants

\* A user that can be acted for.
SignedIn(u) == u \in UserIds /\ HasDefaultGroup(u)

\* A key belongs to such a user, and the request that made it is over.
KeysInv == \A k \in KeyIds : pc[k] = "done" /\ SignedIn(keys[k].owner)

\* What a guard has made sure of when it gets to each of its steps.
RequestInv(r) ==
    /\ pc[r] = "findKey" => call[r].key \in KeyIds
    /\ pc[r] = "findKey" /\ before[r] => call[r].key \in Revoked
    /\ pc[r] \in InFlight \ {"findKey"} /\ call[r].by = "key" =>
          call[r].key \in KeyIds /\ ~before[r]
    /\ pc[r] \in {"hasDefault", "createPersonal"} => UserOf(r) \in UserIds
    /\ pc[r] \in {"touch", "findUser"} \cup HandlerSteps => SignedIn(UserOf(r))
    /\ pc[r] \in {"upsert", "hasDefault"} /\ before[r] => HasDefaultGroup(UserOf(r))
    /\ pc[r] = "createPersonal" => ~before[r]
    /\ pc[r] = "revoke" => OwnsKey(UserOf(r), call[r].target)

Inv == TypeOK /\ KeysInv /\ \A r \in Requests : RequestInv(r)

\* Nothing is ever deleted, and a key neither changes hands nor is valid again.
Grows ==
    /\ UserIds \subseteq UserIds' /\ groups \subseteq groups' /\ KeyIds \subseteq KeyIds'
    /\ Revoked \subseteq Revoked'
    /\ \A k \in KeyIds : keys'[k].owner = keys[k].owner

TablesTyped ==
    /\ users \in [Users -> Emails \cup {NoEmail}]
    /\ groups \subseteq Group
    /\ keys \in [Requests -> Key \cup {NoKey}]

-----------------------------------------------------------------------------

\* Who a request acts for is one of the users.
LEMMA UserTyped ==
    ASSUME TypeOK, NEW r \in Requests, pc[r] \in InFlight \ {"findKey"}
    PROVE  UserOf(r) \in Users
<1>1. call[r] \in JwtCall \/ call[r] \in KeyCall
  BY DEF TypeOK
<1>2. CASE call[r] \in JwtCall
  BY <1>2 DEF JwtCall, UserOf, Profile
<1>3. CASE call[r] \in KeyCall
  <2>1. call[r].by = "key" /\ call[r].read \in Key
    BY <1>3 DEF KeyCall, TypeOK
  <2> QED BY <2>1 DEF UserOf, Key
<1> QED BY <1>1, <1>2, <1>3

\* Who can be acted for can be from then on.
LEMMA SignedInForGood ==
    ASSUME Grows, NEW u
    PROVE  /\ u \in UserIds => u \in UserIds'
           /\ HasDefaultGroup(u) => HasDefaultGroup(u)'
           /\ SignedIn(u) => SignedIn(u)'
BY DEF Grows, HasDefaultGroup, SignedIn

\* A request that does not move still knows what it knew.
LEMMA OthersKeep ==
    ASSUME Inv, Grows, NEW q \in Requests,
           pc'[q] = pc[q], call'[q] = call[q], before'[q] = before[q]
    PROVE  RequestInv(q)'
<1>1. RequestInv(q) /\ UserOf(q)' = UserOf(q)
  BY DEF Inv, UserOf
<1>2. /\ Revoked \subseteq Revoked'
      /\ \A k \in KeyIds : k \in KeyIds' /\ keys'[k].owner = keys[k].owner
  BY DEF Grows
<1>3. PICK u : u = UserOf(q)
  OBVIOUS
<1>4. /\ u \in UserIds => u \in UserIds'
      /\ HasDefaultGroup(u) => HasDefaultGroup(u)'
      /\ SignedIn(u) => SignedIn(u)'
  BY SignedInForGood
<1>5. /\ UserOf(q) \in UserIds => UserOf(q)' \in UserIds'
      /\ HasDefaultGroup(UserOf(q)) => HasDefaultGroup(UserOf(q))'
      /\ SignedIn(UserOf(q)) => SignedIn(UserOf(q))'
  BY <1>1, <1>3, <1>4 DEF SignedIn, HasDefaultGroup
<1>6. /\ OwnsKey(UserOf(q), call[q].target) => OwnsKey(UserOf(q), call[q].target)'
      /\ call[q].key \in KeyIds => call'[q].key \in KeyIds'
      /\ call[q].key \in Revoked => call'[q].key \in Revoked'
  BY <1>1, <1>2 DEF OwnsKey
<1> QED BY <1>1, <1>5, <1>6 DEF RequestInv

\* The keys, and what the requests other than r know, survive a step of r.
LEMMA StepKeeps ==
    ASSUME Inv, Grows, NEW r \in Requests, pc[r] # "done",
           \A q \in Requests \ {r} :
               pc'[q] = pc[q] /\ call'[q] = call[q] /\ before'[q] = before[q],
           \A k \in KeyIds' \ KeyIds :
               k = r /\ pc'[r] = "done" /\ SignedIn(keys[r].owner)',
           RequestInv(r)'
    PROVE  KeysInv' /\ \A q \in Requests : RequestInv(q)'
<1>1. ASSUME NEW k \in KeyIds' PROVE pc'[k] = "done" /\ SignedIn(keys[k].owner)'
  <2>1. CASE k \in KeyIds
    <3>1. PICK u : u = keys[k].owner
      OBVIOUS
    <3>2. pc[k] = "done" /\ SignedIn(u) /\ k \in Requests /\ keys'[k].owner = u
      BY <2>1, <3>1 DEF Inv, KeysInv, KeyIds, Grows
    <3>3. SignedIn(u)'
      BY <3>2, SignedInForGood
    <3>4. SignedIn(keys[k].owner)'
      BY <3>2, <3>3 DEF SignedIn, HasDefaultGroup
    <3> QED BY <3>2, <3>4
  <2> QED BY <1>1, <2>1
<1> QED BY <1>1, OthersKeep DEF KeysInv

\* A request that goes on to a step for which it has what it takes.
LEMMA GoKeeps ==
    ASSUME Inv, Grows, TablesTyped', KeyIds' = KeyIds,
           NEW r \in Requests, pc[r] \in InFlight \ {"findKey"},
           NEW step \in InFlight \ {"findKey"}, Go(r, step),
           step \in {"upsert", "hasDefault", "createPersonal", "revoke"} =>
               call[r] \in JwtCall,
           step \in {"touch", "findUser"} => call[r] \in KeyCall,
           RequestInv(r)'
    PROVE  Inv'
<1>1. /\ pc' \in [Requests -> InFlight \cup Ended \cup {"idle"}] /\ pc'[r] = step
      /\ call' = call /\ before' = before
      /\ \A q \in Requests \ {r} : pc'[q] = pc[q]
  BY DEF Inv, TypeOK, Go
<1>2. TypeOK'
  BY <1>1 DEF Inv, TypeOK, TablesTyped
<1>3. pc[r] # "done"
  BY DEF InFlight, GuardSteps, HandlerSteps
<1> QED BY <1>1, <1>2, <1>3, StepKeeps DEF Inv

\* A request that ends, and may have made a key.
LEMMA EndKeeps ==
    ASSUME Inv, Grows, TablesTyped',
           NEW r \in Requests, pc[r] # "done", NEW outcome \in Ended, End(r, outcome),
           \A k \in KeyIds' \ KeyIds :
               k = r /\ outcome = "done" /\ SignedIn(keys[r].owner)'
    PROVE  Inv'
<1>1. /\ pc' \in [Requests -> InFlight \cup Ended \cup {"idle"}] /\ pc'[r] = outcome
      /\ call' \in [Requests -> JwtCall \cup KeyCall \cup {NoCall}]
      /\ before' \in [Requests -> BOOLEAN]
      /\ \A q \in Requests \ {r} :
            pc'[q] = pc[q] /\ call'[q] = call[q] /\ before'[q] = before[q]
      /\ outcome \notin InFlight
  BY DEF Inv, TypeOK, End, Ended, InFlight, GuardSteps, HandlerSteps
<1>2. TypeOK'
  BY <1>1 DEF Inv, TypeOK, TablesTyped, InFlight, GuardSteps, HandlerSteps
<1>3. RequestInv(r)'
  BY <1>1 DEF RequestInv, InFlight, GuardSteps, HandlerSteps
<1> QED BY <1>1, <1>2, <1>3, StepKeeps DEF Inv

\* A request that begins with a token, or a key.
LEMMA ArriveKeeps ==
    ASSUME Inv, UNCHANGED tables, NEW r \in Requests, pc[r] = "idle",
           NEW step \in {"upsert", "findKey"}, NEW c, NEW b \in BOOLEAN,
           pc' = [pc EXCEPT ![r] = step], call' = [call EXCEPT ![r] = c],
           before' = [before EXCEPT ![r] = b],
           c \in (IF step = "upsert" THEN JwtCall ELSE KeyCall),
           RequestInv(r)'
    PROVE  Inv'
<1>1. /\ pc' \in [Requests -> InFlight \cup Ended \cup {"idle"}] /\ pc'[r] = step
      /\ call' \in [Requests -> JwtCall \cup KeyCall \cup {NoCall}] /\ call'[r] = c
      /\ before' \in [Requests -> BOOLEAN]
      /\ \A q \in Requests \ {r} :
            pc'[q] = pc[q] /\ call'[q] = call[q] /\ before'[q] = before[q]
  BY DEF Inv, TypeOK, InFlight, GuardSteps
<1>2. TypeOK'
  <2>1. step = "upsert" => c \notin KeyCall
    BY DEF JwtCall, KeyCall
  <2> QED BY <1>1, <2>1 DEF Inv, TypeOK, tables
<1>3. Grows /\ KeyIds' = KeyIds
  BY DEF Grows, tables, UserIds, KeyIds, Revoked
<1> QED BY <1>1, <1>2, <1>3, StepKeeps DEF Inv

\* A step that leaves the tables alone takes nothing away.
LEMMA SameTables ==
    ASSUME TypeOK, UNCHANGED tables
    PROVE  /\ Grows /\ TablesTyped' /\ KeyIds' = KeyIds /\ UserIds' = UserIds
           /\ \A u : HasDefaultGroup(u)' <=> HasDefaultGroup(u)
BY DEF Grows, tables, UserIds, KeyIds, TypeOK, TablesTyped, HasDefaultGroup, Revoked

-----------------------------------------------------------------------------
(* What the steps do, one lemma for each that writes or lets a request on. *)

\* Signing in takes an email that nobody else has.
LEMMA UpsertDoes ==
    ASSUME Inv, NEW r \in Requests, Upsert(r), pc'[r] # "rejected"
    PROVE  /\ pc[r] = "upsert" /\ call[r] \in JwtCall /\ UNCHANGED <<groups, keys>>
           /\ Go(r, "hasDefault") /\ call[r].profile \in Profile
           /\ \A v \in Users \ {call[r].profile.sub} : users[v] # call[r].profile.email
           /\ users' = [users EXCEPT ![call[r].profile.sub] = call[r].profile.email]
<1>1. /\ pc[r] = "upsert" /\ call[r] \in JwtCall
      /\ End(r, "rejected") => pc'[r] = "rejected"
  BY DEF Upsert, Inv, TypeOK, End
<1> QED BY <1>1 DEF Upsert, Reject, JwtCall

\* The key is the one that was read, and keeps its owner and its revocation.
LEMMA TouchDoes ==
    ASSUME Inv, NEW r \in Requests, Touch(r)
    PROVE  /\ pc[r] = "touch" /\ call[r] \in KeyCall /\ call[r].key \in KeyIds
           /\ Go(r, "findUser") /\ UNCHANGED <<users, groups>>
           /\ \E key \in Key : /\ keys' = [keys EXCEPT ![call[r].key] = key]
                               /\ key.owner = keys[call[r].key].owner
                               /\ key.revoked = keys[call[r].key].revoked
<1>1. pc[r] = "touch" /\ call[r] \in KeyCall /\ RequestInv(r)
  BY DEF Touch, Inv, TypeOK
<1>2. call[r].by = "key"
  BY <1>1 DEF KeyCall
<1>3. PICK k : k = call[r].key
  OBVIOUS
<1>4. k \in KeyIds /\ keys[k] \in Key
  BY <1>1, <1>2, <1>3 DEF RequestInv, InFlight, GuardSteps, KeyIds, Inv, TypeOK
<1>5. PICK key : key = [keys[k] EXCEPT !.touched = TRUE]
  OBVIOUS
<1>6. key \in Key /\ key.owner = keys[k].owner /\ key.revoked = keys[k].revoked
  BY <1>4, <1>5 DEF Key
<1> QED BY <1>1, <1>3, <1>4, <1>5, <1>6 DEF Touch, Touched

\* A key is made for whoever is signed in, by a request that ends with it.
LEMMA CreateKeyDoes ==
    ASSUME Inv, NEW r \in Requests, CreateKey(r)
    PROVE  /\ pc[r] = "handle" /\ r \notin KeyIds /\ SignedIn(UserOf(r))
           /\ End(r, "done") /\ UNCHANGED <<users, groups>>
           /\ \E key \in Key : /\ keys' = [keys EXCEPT ![r] = key]
                               /\ key.owner = UserOf(r) /\ ~key.revoked
<1>1. pc[r] = "handle" /\ RequestInv(r) /\ r \notin KeyIds
  BY DEF CreateKey, Inv, KeysInv
<1>2. SignedIn(UserOf(r)) /\ UserOf(r) \in Users
  BY <1>1, UserTyped DEF RequestInv, HandlerSteps, InFlight, Inv
<1>3. PICK key : key = [owner |-> UserOf(r), revoked |-> FALSE, touched |-> FALSE]
  OBVIOUS
<1>4. key \in Key /\ key.owner = UserOf(r) /\ ~key.revoked
  BY <1>2, <1>3 DEF Key
<1> QED BY <1>1, <1>2, <1>3, <1>4 DEF CreateKey

\* A key is revoked for its owner, who has it still.
LEMMA RevokeDoes ==
    ASSUME Inv, NEW r \in Requests, Revoke(r)
    PROVE  /\ pc[r] = "revoke" /\ OwnsKey(UserOf(r), call[r].target)
           /\ End(r, "done") /\ UNCHANGED <<users, groups>>
           /\ \E key \in Key : /\ keys' = [keys EXCEPT ![call[r].target] = key]
                               /\ key.owner = keys[call[r].target].owner /\ key.revoked
<1>1. pc[r] = "revoke" /\ OwnsKey(UserOf(r), call[r].target)
  BY DEF Revoke, Inv, RequestInv
<1>2. PICK k : k = call[r].target
  OBVIOUS
<1>3. PICK key : key = [keys[k] EXCEPT !.revoked = TRUE]
  OBVIOUS
<1>4. keys[k] \in Key /\ keys \in [Requests -> Key \cup {NoKey}] /\ k \in Requests
  BY <1>1, <1>2 DEF OwnsKey, KeyIds, Inv, TypeOK
<1>5. key \in Key /\ key.owner = keys[k].owner /\ key.revoked
  BY <1>3, <1>4 DEF Key
<1> QED BY <1>1, <1>2, <1>3, <1>5 DEF Revoke

\* Writing a key whose owner stays takes nothing away.
LEMMA WriteKeyGrows ==
    ASSUME TypeOK, UNCHANGED <<users, groups>>, NEW k \in KeyIds, NEW key \in Key,
           keys' = [keys EXCEPT ![k] = key], key.owner = keys[k].owner,
           keys[k].revoked => key.revoked
    PROVE  Grows /\ TablesTyped' /\ KeyIds' = KeyIds
<1>1. k \in Requests /\ keys'[k] = key /\ key # NoKey
      /\ \A j \in Requests \ {k} : keys'[j] = keys[j]
  BY DEF TypeOK, KeyIds
<1> QED BY <1>1 DEF Grows, TablesTyped, TypeOK, KeyIds, UserIds, Revoked

\* So does another group.
LEMMA NewGroupGrows ==
    ASSUME TypeOK, UNCHANGED <<users, keys>>, NEW g \in Group, groups' = groups \cup {g}
    PROVE  Grows /\ TablesTyped' /\ KeyIds' = KeyIds /\ UserIds' = UserIds
BY DEF Grows, TablesTyped, TypeOK, KeyIds, UserIds, Revoked

-----------------------------------------------------------------------------
(* The inductive invariant.                                                *)

\* A JWT is verified already: its request goes on to the upsert of its user.
LEMMA ArriveWithJwtKeeps ==
    ASSUME Inv, NEW r \in Requests, ArriveWithJwt(r)
    PROVE  Inv'
<1>1. PICK p \in Profiles, op \in Operation, k \in Requests :
          /\ call' = [call EXCEPT ![r] = [by |-> "jwt", profile |-> p,
                                          operation |-> op, target |-> k]]
          /\ before' = [before EXCEPT ![r] =
                           \E g \in groups : g.owner = p.sub /\ g.isDefault]
  BY DEF ArriveWithJwt
<1>2. PICK c : c = [by |-> "jwt", profile |-> p, operation |-> op, target |-> k]
  OBVIOUS
<1>3. PICK b \in BOOLEAN : b = \E g \in groups : g.owner = p.sub /\ g.isDefault
  OBVIOUS
<1>4. c \in JwtCall /\ c.by = "jwt" /\ c.profile = p
  BY <1>2 DEF JwtCall
<1>5. /\ pc[r] = "idle" /\ UNCHANGED tables /\ pc' = [pc EXCEPT ![r] = "upsert"]
      /\ call' = [call EXCEPT ![r] = c] /\ before' = [before EXCEPT ![r] = b]
  BY <1>1, <1>2, <1>3 DEF ArriveWithJwt
<1>6. pc'[r] = "upsert" /\ call'[r] = c /\ before'[r] = b
  BY <1>5 DEF Inv, TypeOK
<1>7. UserOf(r)' = p.sub /\ (before'[r] => HasDefaultGroup(UserOf(r))')
  BY <1>3, <1>4, <1>5, <1>6 DEF UserOf, HasDefaultGroup, tables
<1>8. RequestInv(r)'
  BY <1>4, <1>6, <1>7 DEF RequestInv, HandlerSteps
<1> QED BY <1>4, <1>5, <1>8, ArriveKeeps

\* A key that was sent is one that somebody made, and stays revoked if it was.
LEMMA ArriveWithKeyKeeps ==
    ASSUME Inv, NEW r \in Requests, ArriveWithKey(r)
    PROVE  Inv'
<1>1. PICK k \in Requests, op \in Operation :
          IF TakesKeys(op) /\ k \in KeyIds
          THEN /\ call' = [call EXCEPT ![r] = [by |-> "key", key |-> k,
                                               read |-> NoKey, operation |-> op]]
               /\ pc' = [pc EXCEPT ![r] = "findKey"]
               /\ before' = [before EXCEPT ![r] = k \in Revoked]
               /\ UNCHANGED tables
          ELSE Reject(r)
  BY DEF ArriveWithKey
<1>2. pc[r] = "idle" /\ pc[r] # "done" /\ "rejected" \in Ended
  BY DEF ArriveWithKey, Ended
<1>3. CASE ~(TakesKeys(op) /\ k \in KeyIds)
  BY <1>1, <1>2, <1>3, SameTables, EndKeeps DEF Reject, Inv
<1>4. CASE TakesKeys(op) /\ k \in KeyIds
  <2>1. PICK c : c = [by |-> "key", key |-> k, read |-> NoKey, operation |-> op]
    OBVIOUS
  <2>2. PICK b \in BOOLEAN : b = (k \in Revoked)
    <3>1. (k \in Revoked) = TRUE \/ (k \in Revoked) = FALSE
      OBVIOUS
    <3> QED BY <3>1
  <2>3. op \in Operation \ KeyOperation
    BY <1>4 DEF TakesKeys
  <2>4. c \in KeyCall /\ c.by = "key" /\ c.key = k
    BY <2>1, <2>3 DEF KeyCall
  <2>5. /\ UNCHANGED tables /\ pc' = [pc EXCEPT ![r] = "findKey"]
        /\ call' = [call EXCEPT ![r] = c] /\ before' = [before EXCEPT ![r] = b]
    BY <1>1, <1>4, <2>1, <2>2, Zenon
  <2>6. pc'[r] = "findKey" /\ call'[r] = c /\ before'[r] = b
    BY <2>5 DEF Inv, TypeOK
  <2>7. k \in KeyIds' /\ (b => k \in Revoked')
    BY <1>4, <2>2, <2>5 DEF Revoked, KeyIds, tables
  <2>8. RequestInv(r)'
    BY <2>4, <2>6, <2>7 DEF RequestInv, HandlerSteps
  <2> QED BY <1>2, <2>4, <2>5, <2>8, ArriveKeeps
<1> QED BY <1>3, <1>4

\* The lookup lets a request on only with a key that is not revoked, so it was not
\* when the request came either.
LEMMA FindKeyKeeps ==
    ASSUME Inv, NEW r \in Requests, FindKey(r)
    PROVE  Inv'
<1>1. PICK k : k = call[r].key
  OBVIOUS
<1>2. pc[r] = "findKey" /\ call[r] \in KeyCall /\ RequestInv(r) /\ "rejected" \in Ended
  BY DEF FindKey, Inv, TypeOK, Ended
<1>3. CASE ~Accepts(k)
  BY <1>1, <1>2, <1>3, SameTables, EndKeeps DEF FindKey, Reject, Inv
<1>4. CASE Accepts(k)
  <2>1. PICK c : c = [call[r] EXCEPT !.read = keys[k]]
    OBVIOUS
  <2>2. k \in KeyIds /\ ~keys[k].revoked /\ keys[k] \in Key /\ ~before[r]
    BY <1>1, <1>2, <1>4 DEF Accepts, KeyIds, Inv, TypeOK, RequestInv, Revoked
  <2>3. c \in KeyCall /\ c.by = "key" /\ c.key = k /\ c.read = keys[k]
    BY <1>1, <1>2, <2>1, <2>2 DEF KeyCall
  <2>4. /\ UNCHANGED <<tables, before>> /\ pc' = [pc EXCEPT ![r] = "touch"]
        /\ call' = [call EXCEPT ![r] = c]
    BY <1>1, <1>4, <2>1 DEF FindKey
  <2>5. /\ pc'[r] = "touch" /\ call'[r] = c /\ before'[r] = FALSE
        /\ pc' \in [Requests -> InFlight \cup Ended \cup {"idle"}]
        /\ call' \in [Requests -> JwtCall \cup KeyCall \cup {NoCall}]
        /\ \A q \in Requests \ {r} : pc'[q] = pc[q] /\ call'[q] = call[q]
    BY <2>2, <2>3, <2>4 DEF Inv, TypeOK, InFlight, GuardSteps
  <2>6. TypeOK'
    BY <2>2, <2>3, <2>4, <2>5 DEF Inv, TypeOK, tables
  <2>7. UserOf(r)' = keys[k].owner /\ SignedIn(keys[k].owner)
    BY <2>2, <2>3, <2>5 DEF UserOf, Inv, KeysInv
  <2>8. SignedIn(UserOf(r))' /\ k \in KeyIds'
    BY <2>2, <2>4, <2>7 DEF SignedIn, HasDefaultGroup, UserIds, KeyIds, tables
  <2>9. RequestInv(r)'
    BY <2>3, <2>5, <2>8 DEF RequestInv, HandlerSteps
  <2>10. Grows /\ KeyIds' = KeyIds /\ UNCHANGED before
    BY <2>4, SameTables DEF Inv, tables
  <2> QED BY <1>2, <2>5, <2>6, <2>9, <2>10, StepKeeps DEF Inv
<1> QED BY <1>3, <1>4

\* The upsert writes one user, and the user it writes has signed in from then on.
LEMMA UpsertKeeps ==
    ASSUME Inv, NEW r \in Requests, Upsert(r)
    PROVE  Inv'
<1>1. CASE pc'[r] = "rejected"
  <2>1. Reject(r) /\ pc[r] # "done" /\ "rejected" \in Ended
    BY <1>1 DEF Upsert, Go, Inv, TypeOK, Ended
  <2> QED BY <2>1, SameTables, EndKeeps DEF Reject, Inv
<1>2. CASE pc'[r] # "rejected"
  <2>1. PICK u, e : u = call[r].profile.sub /\ e = call[r].profile.email
    OBVIOUS
  <2>2. /\ pc[r] = "upsert" /\ call[r] \in JwtCall /\ UNCHANGED <<groups, keys>>
        /\ Go(r, "hasDefault") /\ u \in Users /\ e \in Emails
        /\ users' = [users EXCEPT ![u] = e] /\ RequestInv(r)
    BY <1>2, <2>1, UpsertDoes DEF Profile, Inv
  <2>3. /\ users' \in [Users -> Emails \cup {NoEmail}] /\ u \in UserIds'
        /\ UserIds \subseteq UserIds'
    BY <2>2 DEF Inv, TypeOK, UserIds
  <2>4. Grows /\ TablesTyped' /\ KeyIds' = KeyIds
    BY <2>2, <2>3 DEF Grows, TablesTyped, Inv, TypeOK, KeyIds, Revoked
  <2>5. UserOf(r) = u /\ UserOf(r)' = u /\ pc'[r] = "hasDefault" /\ call[r].by = "jwt"
        /\ call' = call /\ before' = before
    BY <2>1, <2>2 DEF UserOf, Go, JwtCall, Inv, TypeOK
  <2>6. before[r] => HasDefaultGroup(UserOf(r))'
    BY <2>2, <2>5 DEF RequestInv, HasDefaultGroup
  <2>7. RequestInv(r)'
    BY <2>3, <2>5, <2>6 DEF RequestInv, HandlerSteps
  <2> QED BY <2>2, <2>4, <2>7, GoKeeps DEF InFlight, GuardSteps
<1> QED BY <1>1, <1>2

\* Whoever finds no Personal group is about to make one, and had none before.
LEMMA CheckPersonalKeeps ==
    ASSUME Inv, NEW r \in Requests, CheckPersonal(r)
    PROVE  Inv'
<1>1. PICK u : u = UserOf(r)
  OBVIOUS
<1>2. PICK step : step = IF HasDefaultGroup(u) THEN "handle" ELSE "createPersonal"
  OBVIOUS
<1>3. /\ pc[r] = "hasDefault" /\ call[r] \in JwtCall /\ RequestInv(r)
      /\ Go(r, step) /\ UNCHANGED tables
  BY <1>1, <1>2 DEF CheckPersonal, Inv, TypeOK
<1>4. /\ Grows /\ TablesTyped' /\ KeyIds' = KeyIds /\ UserIds' = UserIds
      /\ HasDefaultGroup(u)' <=> HasDefaultGroup(u)
  BY <1>3, SameTables DEF Inv
<1>5. /\ pc'[r] = step /\ call' = call /\ before' = before /\ UserOf(r)' = u
      /\ call[r].by = "jwt"
  BY <1>1, <1>3 DEF Go, UserOf, JwtCall, Inv, TypeOK
<1>6. u \in UserIds /\ (before[r] => HasDefaultGroup(u))
  BY <1>1, <1>3 DEF RequestInv
<1>7. /\ step = "createPersonal" => UserOf(r)' \in UserIds' /\ ~before'[r]
      /\ step = "handle" => SignedIn(UserOf(r))'
  <2>1. UserOf(r)' \in UserIds'
    BY <1>4, <1>5, <1>6
  <2>2. HasDefaultGroup(u) => HasDefaultGroup(UserOf(r))'
    BY <1>3, <1>5 DEF HasDefaultGroup, tables
  <2> QED BY <1>2, <1>5, <1>6, <2>1, <2>2 DEF SignedIn
<1>8. RequestInv(r)'
  BY <1>2, <1>5, <1>7 DEF RequestInv, HandlerSteps
<1> QED BY <1>2, <1>3, <1>4, <1>8, GoKeeps DEF InFlight, GuardSteps, HandlerSteps

\* The Personal group is made with its owner, and the request is let in.
LEMMA CreatePersonalKeeps ==
    ASSUME Inv, NEW r \in Requests, CreatePersonal(r)
    PROVE  Inv'
<1>1. PICK g : g = [id |-> r, owner |-> UserOf(r), isDefault |-> TRUE]
  OBVIOUS
<1>2. /\ pc[r] = "createPersonal" /\ call[r] \in JwtCall /\ RequestInv(r)
      /\ Go(r, "handle") /\ UNCHANGED <<users, keys>> /\ groups' = groups \cup {g}
  BY <1>1 DEF CreatePersonal, Inv, TypeOK
<1>3. UserOf(r) \in Users /\ g \in Group /\ g.owner = UserOf(r) /\ g.isDefault
  BY <1>1, <1>2, UserTyped DEF Group, Inv, InFlight, GuardSteps
<1>4. Grows /\ TablesTyped' /\ KeyIds' = KeyIds /\ UserIds' = UserIds
  BY <1>2, <1>3, NewGroupGrows DEF Inv
<1>5. /\ pc'[r] = "handle" /\ call' = call /\ before' = before /\ UserOf(r)' = UserOf(r)
      /\ call[r].by = "jwt"
  BY <1>2 DEF Go, UserOf, JwtCall, Inv, TypeOK
<1>6. SignedIn(UserOf(r))'
  BY <1>2, <1>3, <1>4, <1>5 DEF RequestInv, SignedIn, HasDefaultGroup
<1>7. RequestInv(r)'
  BY <1>5, <1>6 DEF RequestInv, HandlerSteps
<1> QED BY <1>2, <1>4, <1>7, GoKeeps DEF InFlight, GuardSteps, HandlerSteps

\* The record of the use of a key changes nothing else of it.
LEMMA TouchKeeps ==
    ASSUME Inv, NEW r \in Requests, Touch(r)
    PROVE  Inv'
<1>1. /\ pc[r] = "touch" /\ call[r] \in KeyCall /\ call[r].key \in KeyIds
      /\ Go(r, "findUser") /\ UNCHANGED <<users, groups>> /\ RequestInv(r)
  BY TouchDoes DEF Inv
<1>2. Grows /\ TablesTyped' /\ KeyIds' = KeyIds
  BY TouchDoes, WriteKeyGrows DEF Inv
<1>3. pc'[r] = "findUser" /\ call' = call /\ before' = before /\ UserOf(r)' = UserOf(r)
  BY <1>1 DEF Go, UserOf, Inv, TypeOK
<1>4. SignedIn(UserOf(r))' /\ call'[r].by = "key" /\ call'[r].key \in KeyIds' /\ ~before'[r]
  BY <1>1, <1>2, <1>3 DEF RequestInv, SignedIn, HasDefaultGroup, UserIds, KeyCall,
                          InFlight, GuardSteps
<1>5. RequestInv(r)'
  BY <1>3, <1>4 DEF RequestInv, HandlerSteps
<1> QED BY <1>1, <1>2, <1>5, GoKeeps DEF InFlight, GuardSteps

\* A request that goes on to its handler, or to the write in it, without a write.
LEMMA PassKeeps ==
    ASSUME Inv, UNCHANGED tables, NEW r \in Requests,
           pc[r] \in {"findUser", "handle"}, NEW step \in HandlerSteps, Go(r, step),
           step = "revoke" => call[r] \in JwtCall /\ OwnsKey(UserOf(r), call[r].target)
    PROVE  Inv'
<1>1. Grows /\ TablesTyped' /\ KeyIds' = KeyIds /\ UserIds' = UserIds
  BY SameTables DEF Inv
<1>2. /\ pc'[r] = step /\ call' = call /\ before' = before /\ UserOf(r)' = UserOf(r)
      /\ RequestInv(r)
  BY DEF Go, UserOf, Inv, TypeOK
<1>3. /\ SignedIn(UserOf(r))' /\ (OwnsKey(UserOf(r), call[r].target) => OwnsKey(UserOf(r), call[r].target)')
      /\ call'[r].by = "key" => call'[r].key \in KeyIds' /\ ~before'[r]
  BY <1>1, <1>2 DEF RequestInv, SignedIn, HasDefaultGroup, UserIds, InFlight, GuardSteps,
                    HandlerSteps, OwnsKey, tables
<1>4. RequestInv(r)'
  BY <1>2, <1>3 DEF RequestInv, HandlerSteps
<1> QED BY <1>1, <1>2, <1>4, GoKeeps DEF InFlight, GuardSteps, HandlerSteps

\* A request that ends without a write.
LEMMA QuietEndKeeps ==
    ASSUME Inv, UNCHANGED tables, NEW r \in Requests, pc[r] # "done",
           NEW outcome \in Ended, End(r, outcome)
    PROVE  Inv'
BY SameTables, EndKeeps DEF Inv

\* To find a user changes nothing.
LEMMA FindUserKeeps ==
    ASSUME Inv, NEW r \in Requests, FindUser(r)
    PROVE  Inv'
BY PassKeeps, QuietEndKeeps DEF FindUser, Reject, HandlerSteps, Ended

\* What is read of a key before it is revoked says who owns it.
LEMMA DeleteKeyKeeps ==
    ASSUME Inv, NEW r \in Requests, DeleteKey(r)
    PROVE  Inv'
<1>1. pc[r] = "handle" /\ call[r] \in JwtCall
  BY DEF DeleteKey, Inv, TypeOK, InFlight, HandlerSteps, KeyCall, KeyOperation
<1>2. CASE OwnsKey(UserOf(r), call[r].target) /\ ~keys[call[r].target].revoked
  <2>1. Go(r, "revoke") /\ UNCHANGED tables
    BY <1>2 DEF DeleteKey
  <2> QED BY <1>1, <1>2, <2>1, PassKeeps DEF HandlerSteps
<1>3. CASE ~(OwnsKey(UserOf(r), call[r].target) /\ ~keys[call[r].target].revoked)
  <2>1. (End(r, "done") \/ End(r, "rejected")) /\ UNCHANGED tables
    BY <1>3 DEF DeleteKey, Reject
  <2> QED BY <1>1, <2>1, QuietEndKeeps DEF Ended
<1> QED BY <1>2, <1>3

\* What handlers write: a group, a key, or the revocation of one.
LEMMA WriteKeeps ==
    ASSUME Inv, NEW r \in Requests, CreateGroup(r) \/ CreateKey(r) \/ Revoke(r)
    PROVE  Inv'
<1>1. CASE CreateGroup(r)
  <2>1. PICK g : g = [id |-> r, owner |-> UserOf(r), isDefault |-> FALSE]
    OBVIOUS
  <2>2. /\ pc[r] = "handle" /\ End(r, "done") /\ UNCHANGED <<users, keys>>
        /\ groups' = groups \cup {g}
    BY <1>1, <2>1 DEF CreateGroup
  <2>3. g \in Group
    BY <2>1, <2>2, UserTyped DEF Group, Inv, InFlight, HandlerSteps
  <2> QED BY <2>2, <2>3, NewGroupGrows, EndKeeps DEF Inv, Ended
<1>2. CASE CreateKey(r)
  <2>1. /\ pc[r] = "handle" /\ r \notin KeyIds /\ SignedIn(UserOf(r))
        /\ End(r, "done") /\ UNCHANGED <<users, groups>>
    BY <1>2, CreateKeyDoes
  <2>2. PICK key \in Key : /\ keys' = [keys EXCEPT ![r] = key]
                           /\ key.owner = UserOf(r) /\ ~key.revoked
    BY <1>2, CreateKeyDoes
  <2>3. keys'[r] = key /\ \A k \in Requests \ {r} : keys'[k] = keys[k]
    BY <2>2 DEF Inv, TypeOK
  <2>4. Grows /\ TablesTyped' /\ KeyIds' = KeyIds \cup {r}
    BY <2>1, <2>2, <2>3 DEF Grows, TablesTyped, Inv, TypeOK, KeyIds, UserIds, Revoked
  <2>5. SignedIn(keys[r].owner)'
    BY <2>1, <2>2, <2>3 DEF SignedIn, HasDefaultGroup, UserIds
  <2> QED BY <2>1, <2>4, <2>5, EndKeeps DEF Ended
<1>3. CASE Revoke(r)
  <2>1. /\ pc[r] = "revoke" /\ call[r].target \in KeyIds
        /\ End(r, "done") /\ UNCHANGED <<users, groups>>
    BY <1>3, RevokeDoes DEF OwnsKey
  <2>2. Grows /\ TablesTyped' /\ KeyIds' = KeyIds
    BY <1>3, <2>1, RevokeDoes, WriteKeyGrows DEF Inv
  <2> QED BY <2>1, <2>2, EndKeeps DEF Ended
<1> QED BY <1>1, <1>2, <1>3

\* Nobody knows anything at the start, and there is nothing yet.
LEMMA InvInit == Init => Inv
<1> SUFFICES ASSUME Init PROVE Inv
  OBVIOUS
<1>1. KeyIds = {} /\ \A r \in Requests : pc[r] = "idle"
  BY DEF Init, KeyIds
<1> QED
  BY <1>1 DEF Init, Inv, TypeOK, KeysInv, RequestInv, InFlight, GuardSteps, HandlerSteps

\* Every step keeps the invariant.
LEMMA InvNext == Inv /\ [Next]_vars => Inv'
<1> SUFFICES ASSUME Inv, [Next]_vars PROVE Inv'
  OBVIOUS
<1>1. ASSUME NEW r \in Requests, ReadOnly(r) \/ Abort(r) PROVE Inv'
  BY <1>1, QuietEndKeeps DEF ReadOnly, Abort, Ended, InFlight, GuardSteps, HandlerSteps
<1>2. CASE UNCHANGED vars
  BY <1>2 DEF vars, Inv, TypeOK, KeysInv, RequestInv, UserIds, KeyIds, SignedIn,
              HasDefaultGroup, UserOf, OwnsKey, Revoked
<1> QED BY <1>1, <1>2, ArriveWithJwtKeeps, ArriveWithKeyKeeps, UpsertKeeps,
           CheckPersonalKeeps, CreatePersonalKeeps, FindKeyKeeps, TouchKeeps, FindUserKeeps,
           DeleteKeyKeeps, WriteKeeps DEF Next

\* Whoever a request acts for past the sign-in exists, and has a Personal group from
\* the point on where its guard has seen to it; and so has the owner of every key.
THEOREM Invariance == Spec => []Inv
BY InvInit, InvNext, PTL DEF Spec

\* Access keeps its tables and requests of the right kind.
THEOREM TypeCorrect == Spec => []TypeOK
<1>1. Inv => TypeOK
  BY DEF Inv
<1> QED BY <1>1, Invariance, PTL

-----------------------------------------------------------------------------
(* What the guards promise.                                                *)

\* A handler runs only for a user that exists and has a Personal group, whatever was
\* cut short when it first signed in, and also when it comes with a key.
THEOREM AdmittedArePersonal == Spec => []AdmittedHavePersonal
<1>1. Inv => AdmittedHavePersonal
  BY DEF Inv, RequestInv, SignedIn, HasDefaultGroup, AdmittedHavePersonal
<1> QED BY <1>1, Invariance, PTL

\* A user that had a Personal group before a request came is not given another by it.
THEOREM NoPersonalLater == Spec => []NoLaterPersonal
<1>1. Inv => NoLaterPersonal
  BY DEF Inv, RequestInv, NoLaterPersonal
<1> QED BY <1>1, Invariance, PTL

\* A key that was revoked before a request came lets no handler run for it: it still is
\* when the guard looks it up, whatever other requests have written to its row.
THEOREM RevokedStayOut == Spec => []RevokedNotAdmitted
<1>1. Inv => RevokedNotAdmitted
  BY DEF Inv, RequestInv, RevokedNotAdmitted, InFlight, HandlerSteps
<1> QED BY <1>1, Invariance, PTL

\* A step leaves the keys as they are, or writes one of three: the one it shows, which
\* stays as revoked as it was, a new one, or the one its user revokes.
LEMMA KeySteps ==
    ASSUME Inv, [Next]_vars
    PROVE  \/ keys' = keys
           \/ \E r \in Requests : Touch(r) \/ CreateKey(r) \/ Revoke(r)
<1>1. CASE UNCHANGED vars
  BY <1>1 DEF vars
<1>2. ASSUME NEW r \in Requests,
             \/ ArriveWithJwt(r) \/ ArriveWithKey(r) \/ FindKey(r) \/ FindUser(r)
             \/ Upsert(r) \/ CheckPersonal(r) \/ CreatePersonal(r) \/ CreateGroup(r)
             \/ DeleteKey(r) \/ ReadOnly(r) \/ Abort(r)
      PROVE  keys' = keys
  BY <1>2 DEF ArriveWithJwt, ArriveWithKey, FindKey, FindUser, Upsert, CheckPersonal,
              CreatePersonal, CreateGroup, DeleteKey, ReadOnly, Abort, Reject, tables
<1> QED BY <1>1, <1>2 DEF Next

\* Nobody but its owner revokes a key, however long ago the owner was looked at.
THEOREM OnlyOwnersRevoke == Spec => OnlyOwnerRevokes
<1> DEFINE ByOwner(k) == \E r \in Requests : /\ pc[r] = "revoke" /\ call[r].target = k
                                             /\ UserOf(r) = keys[k].owner
<1>1. ASSUME Inv, [Next]_vars, NEW k \in Revoked', k \notin Revoked PROVE ByOwner(k)
  <2>1. /\ keys \in [Requests -> Key \cup {NoKey}] /\ k \in Requests
        /\ keys'[k].revoked /\ keys'[k] # NoKey /\ (keys[k] # NoKey => ~keys[k].revoked)
    BY <1>1 DEF Inv, TypeOK, Revoked, KeyIds
  <2>2. ASSUME NEW r \in Requests, Touch(r) PROVE FALSE
    <3>1. PICK key \in Key : /\ keys' = [keys EXCEPT ![call[r].key] = key]
                             /\ key.revoked = keys[call[r].key].revoked
      BY <1>1, <2>2, TouchDoes
    <3>2. keys[call[r].key] # NoKey
      BY <1>1, <2>2, TouchDoes DEF KeyIds
    <3> QED BY <2>1, <3>1, <3>2
  <2>3. ASSUME NEW r \in Requests, CreateKey(r) PROVE FALSE
    <3>1. PICK key \in Key : keys' = [keys EXCEPT ![r] = key] /\ ~key.revoked
      BY <1>1, <2>3, CreateKeyDoes
    <3> QED BY <2>1, <3>1
  <2>4. ASSUME NEW r \in Requests, Revoke(r) PROVE ByOwner(k)
    <3>1. PICK key \in Key : keys' = [keys EXCEPT ![call[r].target] = key]
      BY <1>1, <2>4, RevokeDoes
    <3>2. call[r].target = k
      BY <2>1, <3>1
    <3>3. pc[r] = "revoke" /\ OwnsKey(UserOf(r), call[r].target)
      BY <1>1, <2>4, RevokeDoes
    <3> QED BY <3>2, <3>3 DEF OwnsKey
  <2> QED BY <1>1, <2>1, <2>2, <2>3, <2>4, KeySteps
<1>2. Inv /\ [Next]_vars => [\A k \in Revoked' \ Revoked : ByOwner(k)]_vars
  BY <1>1
<1> QED BY <1>2, Invariance, PTL DEF Spec, OnlyOwnerRevokes

\* No write to a key undoes that it was revoked.
THEOREM RevokedStaysRevoked == Spec => RevokedForGood
<1>1. ASSUME Inv, [Next]_vars, NEW k \in Revoked PROVE k \in Revoked'
  <2>1. /\ keys \in [Requests -> Key \cup {NoKey}] /\ k \in Requests
        /\ keys[k].revoked /\ keys[k] # NoKey
    BY <1>1 DEF Inv, TypeOK, Revoked, KeyIds
  <2>2. CASE keys' = keys
    BY <2>1, <2>2 DEF Revoked, KeyIds
  <2>3. ASSUME NEW r \in Requests, Touch(r) \/ Revoke(r) \/ CreateKey(r)
        PROVE  keys'[k] # NoKey /\ keys'[k].revoked
    <3>1. CASE Touch(r)
      <4>1. PICK key \in Key : /\ keys' = [keys EXCEPT ![call[r].key] = key]
                               /\ key.revoked = keys[call[r].key].revoked
        BY <1>1, <3>1, TouchDoes
      <4> QED BY <2>1, <4>1
    <3>2. CASE CreateKey(r)
      <4>1. PICK key \in Key : keys' = [keys EXCEPT ![r] = key] /\ r \notin KeyIds
        BY <1>1, <3>2, CreateKeyDoes
      <4> QED BY <2>1, <4>1 DEF KeyIds
    <3>3. CASE Revoke(r)
      <4>1. PICK key \in Key : keys' = [keys EXCEPT ![call[r].target] = key] /\ key.revoked
        BY <1>1, <3>3, RevokeDoes
      <4> QED BY <2>1, <4>1
    <3> QED BY <2>3, <3>1, <3>2, <3>3
  <2> QED BY <1>1, <2>1, <2>2, <2>3, KeySteps DEF Revoked, KeyIds
<1>2. Inv /\ [Next]_vars => [Revoked \subseteq Revoked']_vars
  BY <1>1
<1> QED BY <1>2, Invariance, PTL DEF Spec, RevokedForGood

\* A user's email changes only to what its own token says, and to one nobody else has.
THEOREM EmailsByOwner == Spec => EmailOnlyByOwner
<1> DEFINE Own(u) ==
        /\ \A v \in Users \ {u} : users'[v] # users'[u]
        /\ \E r \in Requests : /\ pc[r] = "upsert"
                               /\ call[r].profile = [sub |-> u, email |-> users'[u]]
<1>1. ASSUME Inv, [Next]_vars, NEW u \in Users, users'[u] # users[u] PROVE Own(u)
  <2>1. PICK r \in Requests : Upsert(r) /\ pc'[r] # "rejected"
    <3>1. ASSUME NEW r \in Requests,
                 \/ ArriveWithJwt(r) \/ ArriveWithKey(r) \/ FindKey(r) \/ FindUser(r) \/ Touch(r)
                 \/ CheckPersonal(r) \/ CreatePersonal(r) \/ CreateGroup(r)
                 \/ CreateKey(r) \/ Revoke(r) \/ DeleteKey(r) \/ ReadOnly(r) \/ Abort(r)
          PROVE  users' = users
      BY <3>1 DEF ArriveWithJwt, ArriveWithKey, FindKey, FindUser, Touch, CheckPersonal,
                  CreatePersonal, CreateGroup, CreateKey, Revoke, DeleteKey, ReadOnly,
                  Abort, Reject, tables
    <3>2. ASSUME NEW r \in Requests, Upsert(r), pc'[r] = "rejected" PROVE users' = users
      BY <1>1, <3>2 DEF Upsert, Reject, Go, tables, Inv, TypeOK
    <3>3. CASE UNCHANGED vars
      BY <1>1, <3>3 DEF vars
    <3> QED BY <1>1, <3>1, <3>2, <3>3 DEF Next
  <2>2. PICK p : p = call[r].profile
    OBVIOUS
  <2>3. /\ pc[r] = "upsert" /\ p \in Profile
        /\ \A v \in Users \ {p.sub} : users[v] # p.email
        /\ users' = [users EXCEPT ![p.sub] = p.email]
    BY <1>1, <2>1, <2>2, UpsertDoes
  <2>4. p.sub = u /\ users'[u] = p.email /\ \A v \in Users \ {u} : users'[v] = users[v]
    BY <1>1, <2>3 DEF Inv, TypeOK, Profile
  <2>5. p = [sub |-> u, email |-> users'[u]]
    BY <2>3, <2>4 DEF Profile
  <2> QED BY <2>2, <2>3, <2>4, <2>5
<1>2. Inv /\ [Next]_vars =>
         [\A u \in Users : users'[u] # users[u] => Own(u)]_vars
  BY <1>1
<1> QED BY <1>2, Invariance, PTL DEF Spec, EmailOnlyByOwner
=============================================================================
