------------------------------- MODULE Access -------------------------------
(***************************************************************************)
(* Who gets in: the guards, which turn a bearer token into a user, with    *)
(* UsersService, the "Personal" groups of GroupsService and the API keys   *)
(* of ApiKeysService behind them.                                          *)
(*                                                                         *)
(* A request carries a JWT of Keycloak, verified before it comes here      *)
(* (SigningKeys is how), or an API key.  The guard writes too: signing in  *)
(* makes the user and its Personal group, and a key records when it was    *)
(* used.  Each await of the guard and of the handler behind it is a point  *)
(* where other requests run or where this one may be cut short.  Users,    *)
(* groups and memberships are never deleted and a key is only revoked.     *)
(***************************************************************************)
EXTENDS Naturals

CONSTANTS
    Requests,            \* each one is one HTTP request, used at most once
    MayFail,             \* the requests an error or a crash may cut short
    Users,               \* the `sub` of each user
    Emails,
    Profiles,            \* [sub, email]: what the tokens that are sent say
    NoEmail, NoKey, NoCall     \* null

VARIABLES
    users,               \* users: the email of each one that exists
    groups,              \* groups and their one member, the owner
    keys,                \* api_keys; a key's id is the request that made it
    pc,                  \* where each request is
    call,                \* what it was sent, and what its guard read
    before               \* history: before a request came, its key was revoked, or
                         \* its user had a Personal group

vars == <<users, groups, keys, pc, call, before>>

-----------------------------------------------------------------------------

Profile == [sub : Users, email : Emails]
Group == [id : Requests, owner : Users, isDefault : BOOLEAN]
Key == [owner : Users, revoked : BOOLEAN, touched : BOOLEAN]

\* What the handlers that write do; every other one is "read".
Operation == {"read", "createGroup", "createKey", "deleteKey"}
KeyOperation == {"createKey", "deleteKey"}

\* `key` is the key the guard is shown, `read` the row it found for it and
\* `target` the key a deleteKey is about.
JwtCall == [by : {"jwt"}, profile : Profile, operation : Operation, target : Requests]
KeyCall == [by : {"key"}, key : Requests, read : Key \cup {NoKey},
            operation : Operation \ KeyOperation]

GuardSteps == {"hasDefault", "createPersonal", "findKey", "touch", "findUser"}
HandlerSteps == {"handle", "revoke"}
InFlight == {"upsert"} \cup GuardSteps \cup HandlerSteps
Ended == {"done", "rejected", "failed"}

ASSUME AccessConstants ==
    /\ MayFail \subseteq Requests
    /\ Profiles \subseteq Profile
    /\ NoEmail \notin Emails
    /\ NoKey \notin Key

Init ==
    /\ users = [u \in Users |-> NoEmail]
    /\ groups = {}
    /\ keys = [r \in Requests |-> NoKey]
    /\ pc = [r \in Requests |-> "idle"]
    /\ call = [r \in Requests |-> NoCall]
    /\ before = [r \in Requests |-> FALSE]

-----------------------------------------------------------------------------

UserIds == {u \in Users : users[u] # NoEmail}
KeyIds == {k \in Requests : keys[k] # NoKey}
Revoked == {k \in KeyIds : keys[k].revoked}

\* Mistake: the flag is read the wrong way round.
HasOtherGroup(u) == \E g \in groups : g.owner = u /\ ~g.isDefault
HasDefaultGroup(u) == \E g \in groups : g.owner = u /\ g.isDefault

\* The user a request acts for, once its guard has read who that is.
UserOf(r) == IF call[r].by = "jwt" THEN call[r].profile.sub ELSE call[r].read.owner

tables == <<users, groups, keys>>

Go(r, step) ==
    /\ pc' = [pc EXCEPT ![r] = step]
    /\ UNCHANGED <<call, before>>

End(r, outcome) ==
    /\ pc' = [pc EXCEPT ![r] = outcome]
    /\ call' = [call EXCEPT ![r] = NoCall]
    /\ before' = [before EXCEPT ![r] = FALSE]

Reject(r) == End(r, "rejected") /\ UNCHANGED tables

-----------------------------------------------------------------------------
(* KeycloakAuthGuard, and UsersService.findOrCreateFromToken.              *)

ArriveWithJwt(r) ==
    /\ pc[r] = "idle"
    /\ \E p \in Profiles, op \in Operation, k \in Requests :
          /\ call' = [call EXCEPT ![r] = [by |-> "jwt", profile |-> p,
                                          operation |-> op, target |-> k]]
          /\ before' = [before EXCEPT ![r] =
                           \E g \in groups : g.owner = p.sub /\ g.isDefault]
    /\ pc' = [pc EXCEPT ![r] = "upsert"]
    /\ UNCHANGED tables

\* Mistake: only the request that inserts the user makes its Personal group.
UpsertNew(r) ==
    /\ pc[r] = "upsert"
    /\ LET p == call[r].profile
       IN  /\ \A u \in Users \ {p.sub} : users[u] # p.email
           /\ users' = [users EXCEPT ![p.sub] = p.email]
           /\ Go(r, IF p.sub \in UserIds THEN "handle" ELSE "hasDefault")
           /\ UNCHANGED <<groups, keys>>
\* Mistake: the email is not unique.
UpsertShared(r) ==
    /\ pc[r] = "upsert"
    /\ users' = [users EXCEPT ![call[r].profile.sub] = call[r].profile.email]
    /\ Go(r, "hasDefault")
    /\ UNCHANGED <<groups, keys>>
\* INSERT ... ON CONFLICT (id) DO UPDATE: an email that another user has is P2002,
\* answered with a 409.
Upsert(r) ==
    /\ pc[r] = "upsert"
    /\ LET p == call[r].profile
           taken == \E u \in Users \ {p.sub} : users[u] = p.email
       IN  \/ taken /\ Reject(r)
           \/ /\ ~taken
              /\ users' = [users EXCEPT ![p.sub] = p.email]
              /\ Go(r, "hasDefault")
              /\ UNCHANGED <<groups, keys>>

CheckPersonal(r) ==
    /\ pc[r] = "hasDefault"
    /\ Go(r, IF HasDefaultGroup(UserOf(r)) THEN "handle" ELSE "createPersonal")
    /\ UNCHANGED tables

CreatePersonal(r) ==
    /\ pc[r] = "createPersonal"
    /\ groups' = groups \cup {[id |-> r, owner |-> UserOf(r), isDefault |-> TRUE]}
    /\ Go(r, "handle")
    /\ UNCHANGED <<users, keys>>

-----------------------------------------------------------------------------
(* AuthGuard and ApiKeyAuthGuard.                                          *)

\* Mistake: the endpoints of API keys stand behind AuthGuard as well.
AnyTakesKeys(op) == TRUE
\* They stand behind KeycloakAuthGuard alone, which refuses a key.
TakesKeys(op) == op \notin KeyOperation

\* Mistake: a key that exists is valid.
AcceptsAny(k) == k \in KeyIds
Accepts(k) == k \in KeyIds /\ ~keys[k].revoked

\* A key that is not in the table when it is sent was made up, and is refused.
ArriveWithKey(r) ==
    /\ pc[r] = "idle"
    /\ \E k \in Requests, op \in Operation :
          IF TakesKeys(op) /\ k \in KeyIds
          THEN /\ call' = [call EXCEPT ![r] = [by |-> "key", key |-> k,
                                               read |-> NoKey, operation |-> op]]
               /\ pc' = [pc EXCEPT ![r] = "findKey"]
               /\ before' = [before EXCEPT ![r] = k \in Revoked]
               /\ UNCHANGED tables
          ELSE Reject(r)

FindKey(r) ==
    /\ pc[r] = "findKey"
    /\ IF Accepts(call[r].key)
       THEN /\ call' = [call EXCEPT ![r].read = keys[call[r].key]]
            /\ pc' = [pc EXCEPT ![r] = "touch"]
            /\ UNCHANGED <<tables, before>>
       ELSE Reject(r)

\* Mistake: the row that was read is saved, where only lastUsedAt is to be set.
SaveTouched(k, read) == [read EXCEPT !.touched = TRUE]
Touched(k, read) == [keys[k] EXCEPT !.touched = TRUE]

Touch(r) ==
    /\ pc[r] = "touch"
    /\ keys' = [keys EXCEPT ![call[r].key] = Touched(call[r].key, call[r].read)]
    /\ Go(r, "findUser")
    /\ UNCHANGED <<users, groups>>

FindUser(r) ==
    /\ pc[r] = "findUser"
    /\ IF UserOf(r) \in UserIds
       THEN Go(r, "handle") /\ UNCHANGED tables
       ELSE Reject(r)

-----------------------------------------------------------------------------
(* What the handlers write: POST /groups, POST and DELETE /api-keys.       *)

CreateGroup(r) ==
    /\ pc[r] = "handle"
    /\ call[r].operation = "createGroup"
    /\ groups' = groups \cup {[id |-> r, owner |-> UserOf(r), isDefault |-> FALSE]}
    /\ End(r, "done")
    /\ UNCHANGED <<users, keys>>

CreateKey(r) ==
    /\ pc[r] = "handle"
    /\ call[r].operation = "createKey"
    /\ keys' = [keys EXCEPT ![r] = [owner |-> UserOf(r), revoked |-> FALSE,
                                    touched |-> FALSE]]
    /\ End(r, "done")
    /\ UNCHANGED <<users, groups>>

\* Mistake: whoever knows the id of a key may revoke it.
OwnsAnyKey(u, k) == k \in KeyIds
OwnsKey(u, k) == k \in KeyIds /\ keys[k].owner = u

\* To revoke a key twice is no error.
DeleteKey(r) ==
    /\ pc[r] = "handle"
    /\ call[r].operation = "deleteKey"
    /\ LET k == call[r].target
       IN  \/ ~OwnsKey(UserOf(r), k) /\ Reject(r)
           \/ /\ OwnsKey(UserOf(r), k)
              /\ IF keys[k].revoked THEN End(r, "done") ELSE Go(r, "revoke")
              /\ UNCHANGED tables

Revoke(r) ==
    /\ pc[r] = "revoke"
    /\ keys' = [keys EXCEPT ![call[r].target].revoked = TRUE]
    /\ End(r, "done")
    /\ UNCHANGED <<users, groups>>

ReadOnly(r) ==
    /\ pc[r] = "handle"
    /\ call[r].operation = "read"
    /\ End(r, "done")
    /\ UNCHANGED tables

Abort(r) ==
    /\ pc[r] \in InFlight
    /\ End(r, "failed")
    /\ UNCHANGED tables

-----------------------------------------------------------------------------

Next ==
    \/ \E r \in Requests :
          \/ ArriveWithJwt(r) \/ Upsert(r) \/ CheckPersonal(r) \/ CreatePersonal(r)
          \/ ArriveWithKey(r) \/ FindKey(r) \/ Touch(r) \/ FindUser(r)
          \/ CreateGroup(r) \/ CreateKey(r) \/ DeleteKey(r) \/ Revoke(r) \/ ReadOnly(r)
    \/ \E r \in MayFail : Abort(r)

Spec == Init /\ [][Next]_vars

-----------------------------------------------------------------------------

\* The tables and what the requests know are of the right kind.
TypeOK ==
    /\ users \in [Users -> Emails \cup {NoEmail}]
    /\ groups \subseteq Group
    /\ keys \in [Requests -> Key \cup {NoKey}]
    /\ pc \in [Requests -> InFlight \cup Ended \cup {"idle"}]
    /\ call \in [Requests -> JwtCall \cup KeyCall \cup {NoCall}]
    /\ before \in [Requests -> BOOLEAN]
    /\ \A r \in Requests :
          /\ pc[r] \in InFlight => call[r] \in JwtCall \cup KeyCall
          /\ pc[r] \in {"upsert", "hasDefault", "createPersonal", "revoke"} =>
                call[r] \in JwtCall
          /\ pc[r] \in {"findKey", "touch", "findUser"} => call[r] \in KeyCall
          /\ pc[r] \in InFlight \ {"findKey"} /\ call[r] \in KeyCall =>
                call[r].read \in Key

\* Whoever a handler runs for exists and has a Personal group, also when the
\* request that first signed the user in was cut short before it made one, and
\* also when it comes with a key, whose guard makes no group.
AdmittedHavePersonal ==
    \A r \in Requests : pc[r] \in HandlerSteps =>
        /\ UserOf(r) \in UserIds
        /\ \E g \in groups : g.owner = UserOf(r) /\ g.isDefault

\* A key that was revoked before a request came lets no handler run for it, although
\* the guard looks the key up an await later and other requests that were let in
\* before it was revoked still write to its row.
RevokedNotAdmitted ==
    \A r \in Requests : pc[r] \in HandlerSteps /\ call[r].by = "key" =>
        ~before[r]

\* No write to a key, the record of its use included, undoes that it was revoked.
RevokedForGood == [][Revoked \subseteq Revoked']_vars

\* The owner of a key is looked at an await before the write, and still nobody
\* else revokes it.
OnlyOwnerRevokes ==
    [][\A k \in Revoked' \ Revoked :
          \E r \in Requests : /\ pc[r] = "revoke" /\ call[r].target = k
                              /\ UserOf(r) = keys[k].owner]_vars

\* Every sign-in writes the email of its token, however old that is; still no two
\* users ever share one, and a user's email changes only to what one of its own
\* tokens says, not when somebody else claims it.
EmailOnlyByOwner ==
    [][\A u \in Users : users'[u] # users[u] =>
          /\ \A v \in Users \ {u} : users'[v] # users'[u]
          /\ \E r \in Requests : /\ pc[r] = "upsert"
                                 /\ call[r].profile = [sub |-> u, email |-> users'[u]]]_vars

\* Two requests of a user that overlap may both make a Personal group, but once it
\* has one no request that comes later makes another, whatever was cut short before.
NoLaterPersonal ==
    \A r \in Requests : pc[r] = "createPersonal" =>
        ~before[r]

\* "Crea el grupo "Personal" del usuario si todavía no lo tiene. Idempotente.":
\* no user has two of them.
OnePersonalGroup ==
    \A g, h \in groups : g.isDefault /\ h.isDefault /\ g.owner = h.owner => g = h
=============================================================================
