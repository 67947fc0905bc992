--------------------------- MODULE ExchangeProofs ---------------------------
(***************************************************************************)
(* What Exchange promises, for any number of requests, keys and tokens and *)
(* however often the keys are rotated.                                     *)
(*                                                                         *)
(* The first part is about the caches of signing keys that the requests    *)
(* share.  Nothing is known of a cache itself, which any request drops and *)
(* any answer fills; what carries the proof is that a request that may     *)
(* still fetch goes on, and that the answer to its last fetch is as old as *)
(* the request at most (GuardInv).  The second part follows a request from *)
(* the guard of its route to the handler (ExchangeInv).                    *)
(***************************************************************************)
EXTENDS Exchange, TLAPS

USE ExchangeAssumption DEF Guard!KeysConstants

-----------------------------------------------------------------------------
(* KeycloakAuthGuard.                                                      *)

\* What a request has spent and may still spend, and what it found.
GuardOwes(r) ==
    /\ pc[r] = "idle" => ~retried[r] /\ fetches[r] = 0
    /\ fetches[r] <= 2 /\ (~retried[r] => fetches[r] <= 1)
    /\ steady[r] => /\ token[r] \in Tokens /\ token[r].kid \in published
                    /\ pc[r] = "answered" => \/ answer[r] = NoKeys
                                             \/ token[r].kid \in answer[r]
    /\ steady[r] /\ token[r].genuine /\ ~expired[r] =>
          pc[r] \notin {"unknownKey", "invalidToken"}
    /\ pc[r] = "verified" =>
          token[r] \in Tokens /\ token[r].genuine /\ ~expired[r]

\* The two instances of the guard.
Guards == {"AuthGuard", "KeycloakAuthGuard"}

GuardInv == Guard!TypeOK /\ \A r \in Requests : GuardOwes(r)

\* The variables hold functions of the right kind: Guard!TypeOK without what it says
\* of each request.
GuardTyped ==
    /\ published \subseteq Keys
    /\ rotations \in 0..MaxRotations
    /\ cache \in [Guards -> Guard!JwkSet \cup {NoCache}]
    /\ pc \in [Requests -> Guard!Waiting \cup Guard!Ended \cup {"idle", "left"}]
    /\ at \in [Requests -> Guards \cup {NoGuard}]
    /\ token \in [Requests -> Tokens \cup {NoToken}]
    /\ expired \in [Requests -> BOOLEAN]
    /\ retried \in [Requests -> BOOLEAN]
    /\ answer \in [Requests -> Guard!JwkSet \cup {NoAnswer}]
    /\ fetches \in [Requests -> 0..Guard!FetchBound]
    /\ steady \in [Requests -> BOOLEAN]

AtFetch(r) ==
    /\ pc[r] \in Guard!Waiting =>
          at[r] \in Guards /\ token[r] \in Tokens /\ token[r].kid # NoKid
    /\ pc[r] = "answered" => answer[r] # NoAnswer

\* What the guard knows of a request, and of the keys, is as it was.
Unmoved(q) ==
    /\ pc'[q] = pc[q] /\ at'[q] = at[q] /\ token'[q] = token[q]
    /\ expired'[q] = expired[q] /\ retried'[q] = retried[q]
    /\ answer'[q] = answer[q] /\ fetches'[q] = fetches[q]
    /\ steady'[q] = steady[q]

\* A step of one request keeps the invariant if it does for that request.
LEMMA OneMoves ==
    ASSUME GuardInv, NEW r \in Requests, GuardTyped', UNCHANGED published,
           \A q \in Requests \ {r} : Unmoved(q), AtFetch(r)', GuardOwes(r)'
    PROVE  GuardInv'
<1>1. ASSUME NEW q \in Requests \ {r} PROVE AtFetch(q)' /\ GuardOwes(q)'
  <2>1. AtFetch(q) /\ GuardOwes(q) /\ Unmoved(q)
    BY DEF GuardInv, Guard!TypeOK, AtFetch, Guards
  <2> QED BY <2>1 DEF AtFetch, GuardOwes, Unmoved
<1>2. \A q \in Requests : AtFetch(q)' /\ GuardOwes(q)'
  BY <1>1
<1> QED BY <1>2 DEF GuardInv, Guard!TypeOK, GuardTyped, Guards, AtFetch

\* The four ways a key is looked up; in what is left after it.
LEMMA LookUpDoes ==
    ASSUME GuardInv, NEW r \in Requests, NEW g \in Guards, NEW t, NEW tooOld,
           NEW found \in Guard!JwkSet, Guard!LookUp(r, g, t, tooOld, found)
    PROVE  /\ cache' \in [Guards -> Guard!JwkSet \cup {NoCache}]
           /\ pc' \in [Requests -> Guard!Waiting \cup Guard!Ended \cup {"idle", "left"}]
           /\ retried' \in [Requests -> BOOLEAN]
           /\ fetches' \in [Requests -> 0..Guard!FetchBound]
           /\ \A q \in Requests \ {r} : /\ pc'[q] = pc[q] /\ retried'[q] = retried[q]
                                        /\ fetches'[q] = fetches[q]
           /\ \/ /\ found = NoKeys /\ pc'[r] = "noKeys"
                 /\ retried'[r] = retried[r] /\ fetches'[r] = fetches[r]
              \/ /\ found # NoKeys /\ t.kid \in found
                 /\ \/ pc'[r] = "verified" /\ t.genuine /\ ~tooOld
                    \/ pc'[r] = "invalidToken" /\ ~(t.genuine /\ ~tooOld)
                 /\ retried'[r] = retried[r] /\ fetches'[r] = fetches[r]
              \/ /\ found # NoKeys /\ t.kid \notin found /\ ~retried[r] /\ retried'[r]
                 /\ pc'[r] = "fetching" /\ fetches'[r] = fetches[r] + 1
              \/ /\ found # NoKeys /\ t.kid \notin found /\ retried[r]
                 /\ pc'[r] = "unknownKey"
                 /\ retried'[r] = retried[r] /\ fetches'[r] = fetches[r]
<1> USE DEF Guard!LookUp, Guard!MayRetry, Guard!Verifies, Guard!Fetch, Guard!Waiting,
            Guard!Ended, Guard!FetchBound
<1>1. /\ pc \in [Requests -> Guard!Waiting \cup Guard!Ended \cup {"idle", "left"}]
      /\ retried \in [Requests -> BOOLEAN] /\ fetches \in [Requests -> 0..3]
      /\ ~retried[r] => fetches[r] <= 1
  BY DEF GuardInv, Guard!TypeOK, GuardOwes
<1>2. cache' \in [Guards -> Guard!JwkSet \cup {NoCache}]
  <2>1. cache \in [Guards -> Guard!JwkSet \cup {NoCache}]
    BY DEF GuardInv, Guard!TypeOK, Guards
  <2>2. PICK keys \in Guard!JwkSet \cup {NoCache} : cache' = [cache EXCEPT ![g] = keys]
    BY DEF Guard!Store
  <2> QED BY <2>1, <2>2
<1>3. CASE found = NoKeys
  BY <1>1, <1>2, <1>3
<1>4. CASE found # NoKeys /\ t.kid \in found
  <2>1. PICK step \in {"verified", "invalidToken"} :
            /\ pc' = [pc EXCEPT ![r] = step]
            /\ step = "verified" <=> (t.genuine /\ ~tooOld)
    BY <1>4
  <2>2. UNCHANGED <<retried, fetches>>
    BY <1>4
  <2> QED BY <1>1, <1>2, <1>4, <2>1, <2>2
<1>5. CASE found # NoKeys /\ t.kid \notin found /\ ~retried[r]
  <2>1. /\ pc' = [pc EXCEPT ![r] = "fetching"]
        /\ retried' = [retried EXCEPT ![r] = TRUE]
        /\ fetches' = [fetches EXCEPT ![r] = fetches[r] + 1]
    BY <1>1, <1>5
  <2>2. fetches[r] + 1 \in 0..3
    BY <1>1, <1>5
  <2> QED BY <1>1, <1>2, <1>5, <2>1, <2>2
<1>6. CASE found # NoKeys /\ t.kid \notin found /\ retried[r]
  BY <1>1, <1>2, <1>6
<1> QED BY <1>3, <1>4, <1>5, <1>6

\* A request that comes finds its key in the cache, or waits for a fetch.
LEMMA ArriveKeeps ==
    ASSUME GuardInv, NEW r \in Requests, NEW g \in Guards, NEW t \in Tokens,
           Guard!Arrive(r, g, t)
    PROVE  GuardInv'
<1>1. GuardTyped /\ GuardOwes(r) /\ pc[r] = "idle"
  BY DEF GuardInv, Guard!TypeOK, GuardTyped, Guards, Guard!Arrive
<1>2. t.kid \in Keys \cup {NoKid} /\ t.genuine \in BOOLEAN
  BY DEF Guard!Token
<1>3. /\ token' = [token EXCEPT ![r] = t] /\ UNCHANGED <<published, rotations, answer>>
      /\ at' = [at EXCEPT ![r] = g]
      /\ steady' = [steady EXCEPT ![r] = t.kid \in published]
  BY DEF Guard!Arrive, Guard!keycloak
<1>4. PICK tooOld \in {FALSE, t.genuine} :
          /\ expired' = [expired EXCEPT ![r] = tooOld]
          /\ \/ /\ t.kid = NoKid
                /\ pc' = [pc EXCEPT ![r] = "invalidToken"]
                /\ UNCHANGED <<cache, retried, fetches>>
             \/ /\ t.kid # NoKid /\ cache[g] # NoCache
                /\ Guard!LookUp(r, g, t, tooOld, cache[g])
             \/ /\ t.kid # NoKid /\ cache[g] = NoCache
                /\ Guard!Fetch(r)
                /\ UNCHANGED <<cache, retried>>
  BY DEF Guard!Arrive
<1>5. /\ token' \in [Requests -> Tokens \cup {NoToken}] /\ token'[r] = t
      /\ at' \in [Requests -> Guards \cup {NoGuard}] /\ at'[r] = g
      /\ steady' \in [Requests -> BOOLEAN] /\ (steady'[r] <=> t.kid \in published)
      /\ expired' \in [Requests -> BOOLEAN] /\ expired'[r] = tooOld
      /\ answer' = answer /\ published' = published /\ rotations' = rotations
      /\ \A q \in Requests \ {r} : /\ token'[q] = token[q] /\ steady'[q] = steady[q]
                                   /\ expired'[q] = expired[q] /\ at'[q] = at[q]
  <2>1. PICK known \in BOOLEAN : known = (t.kid \in published)
    <3>1. (t.kid \in published) = TRUE \/ (t.kid \in published) = FALSE
      OBVIOUS
    <3> QED BY <3>1, Zenon
  <2>2. steady' = [steady EXCEPT ![r] = known]
    BY <1>3, <2>1
  <2>3. steady' \in [Requests -> BOOLEAN] /\ (steady'[r] <=> t.kid \in published)
        /\ \A q \in Requests \ {r} : steady'[q] = steady[q]
    BY <1>1, <2>1, <2>2 DEF GuardTyped
  <2>4. expired' = [expired EXCEPT ![r] = tooOld] /\ tooOld \in BOOLEAN
    BY <1>2, <1>4
  <2>5. /\ expired' \in [Requests -> BOOLEAN] /\ expired'[r] = tooOld
        /\ \A q \in Requests \ {r} : expired'[q] = expired[q]
    BY <1>1, <2>4 DEF GuardTyped
  <2>6. /\ token' \in [Requests -> Tokens \cup {NoToken}] /\ token'[r] = t
        /\ at' \in [Requests -> Guards \cup {NoGuard}] /\ at'[r] = g
        /\ \A q \in Requests \ {r} : token'[q] = token[q] /\ at'[q] = at[q]
    BY <1>1, <1>3 DEF GuardTyped
  <2> QED BY <1>3, <2>3, <2>5, <2>6
<1>6. CASE t.kid = NoKid
  <2>1. pc' = [pc EXCEPT ![r] = "invalidToken"] /\ UNCHANGED <<cache, retried, fetches>>
    BY <1>4, <1>6
  <2>2. GuardTyped' /\ \A q \in Requests \ {r} : Unmoved(q)
    BY <1>1, <1>5, <2>1 DEF GuardTyped, Unmoved, Guard!Ended
  <2>3. pc'[r] = "invalidToken" /\ ~steady'[r]
    BY <1>1, <1>5, <1>6, <2>1 DEF GuardTyped
  <2>4. AtFetch(r)' /\ GuardOwes(r)'
    BY <1>1, <2>1, <2>3 DEF AtFetch, GuardOwes, Guard!Waiting
  <2> QED BY <1>5, <2>2, <2>4, OneMoves
<1>7. CASE t.kid # NoKid /\ cache[g] # NoCache
  <2>1. cache[g] \in Guard!JwkSet /\ Guard!LookUp(r, g, t, tooOld, cache[g])
    BY <1>1, <1>4, <1>7 DEF GuardTyped
  <2>2. GuardTyped' /\ \A q \in Requests \ {r} : Unmoved(q)
    BY <1>1, <1>5, <2>1, LookUpDoes DEF GuardTyped, Unmoved
  <2>3. \/ pc'[r] = "verified" /\ t.genuine /\ ~tooOld /\ ~retried'[r] /\ fetches'[r] = 0
        \/ pc'[r] = "invalidToken" /\ ~(t.genuine /\ ~tooOld)
              /\ ~retried'[r] /\ fetches'[r] = 0
        \/ pc'[r] = "fetching" /\ retried'[r] /\ fetches'[r] = 1
        \/ pc'[r] = "noKeys" /\ ~retried'[r] /\ fetches'[r] = 0
    <3>1. ~retried[r] /\ fetches[r] = 0
      BY <1>1 DEF GuardOwes
    <3> QED BY <2>1, <3>1, LookUpDoes
  <2>4. AtFetch(r)' /\ GuardOwes(r)'
    BY <1>2, <1>5, <1>7, <2>3 DEF AtFetch, GuardOwes, Guard!Waiting
  <2> QED BY <1>5, <2>2, <2>4, OneMoves
<1>8. CASE t.kid # NoKid /\ cache[g] = NoCache
  <2>1. Guard!Fetch(r) /\ UNCHANGED <<cache, retried>>
    BY <1>4, <1>8
  <2>2. /\ pc' = [pc EXCEPT ![r] = "fetching"]
        /\ fetches' = [fetches EXCEPT ![r] = 1]
    <3>1. fetches[r] = 0
      BY <1>1 DEF GuardOwes
    <3> QED BY <2>1, <3>1 DEF Guard!Fetch, Guard!FetchBound
  <2>3. GuardTyped' /\ \A q \in Requests \ {r} : Unmoved(q)
    BY <1>1, <1>5, <2>1, <2>2 DEF GuardTyped, Unmoved, Guard!Waiting, Guard!FetchBound
  <2>4. pc'[r] = "fetching" /\ fetches'[r] = 1 /\ ~retried'[r]
    BY <1>1, <2>1, <2>2 DEF GuardTyped, GuardOwes
  <2>5. AtFetch(r)' /\ GuardOwes(r)'
    BY <1>2, <1>5, <1>8, <2>4 DEF AtFetch, GuardOwes, Guard!Waiting
  <2> QED BY <1>5, <2>3, <2>5, OneMoves
<1> QED BY <1>6, <1>7, <1>8

\* An answer is what is published at that moment, or names no keys.
LEMMA AnswerKeeps ==
    ASSUME GuardInv, NEW r \in Requests, Guard!Answer(r)
    PROVE  GuardInv'
<1>1. GuardTyped /\ GuardOwes(r) /\ AtFetch(r) /\ pc[r] = "fetching"
  BY DEF GuardInv, Guard!TypeOK, GuardTyped, Guards, AtFetch, Guard!Answer
<1>2. PICK keys \in {published, NoKeys} : answer' = [answer EXCEPT ![r] = keys]
  BY DEF Guard!Answer
<1>3. /\ pc' = [pc EXCEPT ![r] = "answered"]
      /\ UNCHANGED <<published, rotations, cache, at, token, expired, retried, fetches,
                     steady>>
  BY DEF Guard!Answer, Guard!keycloak
<1>4. keys \in Guard!JwkSet /\ keys # NoAnswer
  BY <1>1 DEF GuardTyped, Guard!JwkSet
<1>5. /\ GuardTyped' /\ \A q \in Requests \ {r} : Unmoved(q)
      /\ pc'[r] = "answered" /\ answer'[r] = keys
  BY <1>1, <1>2, <1>3, <1>4 DEF GuardTyped, Unmoved, Guard!Waiting
<1>6. AtFetch(r)' /\ GuardOwes(r)'
  BY <1>1, <1>2, <1>3, <1>4, <1>5 DEF AtFetch, GuardOwes, GuardTyped, Guard!Waiting
<1> QED BY <1>3, <1>5, <1>6, OneMoves

\* Once the cache is refreshed, the request looks its key up again.
LEMMA RefreshedKeeps ==
    ASSUME GuardInv, NEW r \in Requests, Guard!Refreshed(r)
    PROVE  GuardInv'
<1>1. GuardTyped /\ GuardOwes(r) /\ AtFetch(r) /\ pc[r] = "answered"
  BY DEF GuardInv, Guard!TypeOK, GuardTyped, Guards, AtFetch, Guard!Refreshed
<1>2. PICK g, t, tooOld, found : /\ g = at[r] /\ t = token[r] /\ tooOld = expired[r]
                                 /\ found = answer[r]
  OBVIOUS
<1>3. /\ Guard!LookUp(r, g, t, tooOld, found) /\ answer' = [answer EXCEPT ![r] = NoAnswer]
      /\ UNCHANGED <<published, rotations, at, token, expired, steady>>
  BY <1>2 DEF Guard!Refreshed, Guard!keycloak
<1>4. /\ g \in Guards /\ t \in Tokens /\ t.kid # NoKid /\ tooOld \in BOOLEAN
      /\ found \in Guard!JwkSet
  BY <1>1, <1>2 DEF GuardTyped, AtFetch, Guard!Waiting
<1>5. GuardTyped' /\ \A q \in Requests \ {r} : Unmoved(q)
  BY <1>1, <1>3, <1>4, LookUpDoes DEF GuardTyped, Unmoved
<1>6. \/ /\ pc'[r] = "noKeys" /\ retried'[r] = retried[r] /\ fetches'[r] = fetches[r]
      \/ /\ pc'[r] = "verified" /\ t.genuine /\ ~tooOld
         /\ retried'[r] = retried[r] /\ fetches'[r] = fetches[r]
      \/ /\ pc'[r] = "invalidToken" /\ ~(t.genuine /\ ~tooOld)
         /\ retried'[r] = retried[r] /\ fetches'[r] = fetches[r]
      \/ /\ pc'[r] = "fetching" /\ retried'[r] /\ ~retried[r]
         /\ fetches'[r] = fetches[r] + 1
      \/ /\ pc'[r] = "unknownKey" /\ found # NoKeys /\ t.kid \notin found
         /\ retried'[r] = retried[r] /\ fetches'[r] = fetches[r]
  BY <1>3, <1>4, LookUpDoes
<1>7. AtFetch(r)' /\ GuardOwes(r)'
  <2>1. /\ at'[r] = g /\ token'[r] = t /\ expired'[r] = tooOld /\ steady'[r] = steady[r]
        /\ published' = published /\ fetches[r] \in Nat
    BY <1>1, <1>2, <1>3 DEF GuardTyped, Guard!FetchBound
  <2>2. AtFetch(r)'
    BY <1>4, <1>6, <2>1 DEF AtFetch, Guard!Waiting
  <2>3. GuardOwes(r)'
    BY <1>1, <1>2, <1>4, <1>6, <2>1 DEF GuardOwes
  <2> QED BY <2>2, <2>3
<1> QED BY <1>3, <1>5, <1>7, OneMoves

\* A failed fetch ends its own request only.
LEMMA FetchFailsKeeps ==
    ASSUME GuardInv, NEW r \in Requests, Guard!FetchFails(r)
    PROVE  GuardInv'
<1>1. GuardTyped /\ GuardOwes(r) /\ AtFetch(r)
  BY DEF GuardInv, Guard!TypeOK, GuardTyped, Guards, AtFetch
<1>2. PICK outcome \in {"fetchRefused", "fetchFailed"} : pc' = [pc EXCEPT ![r] = outcome]
  BY DEF Guard!FetchFails
<1>3. /\ answer' = [answer EXCEPT ![r] = NoAnswer]
      /\ UNCHANGED <<published, rotations, cache, at, token, expired, retried, fetches,
                     steady>>
  BY DEF Guard!FetchFails, Guard!keycloak
<1>4. GuardTyped' /\ (\A q \in Requests \ {r} : Unmoved(q)) /\ pc'[r] = outcome
  BY <1>1, <1>2, <1>3 DEF GuardTyped, Unmoved, Guard!Ended
<1>5. AtFetch(r)' /\ GuardOwes(r)'
  BY <1>1, <1>3, <1>4 DEF AtFetch, GuardOwes, Guard!Waiting
<1> QED BY <1>3, <1>4, <1>5, OneMoves

\* A request of which the guard keeps nothing owes nothing.
LEMMA ForgottenOwes ==
    ASSUME GuardTyped', NEW r \in Requests, pc'[r] = "left", ~steady'[r], fetches'[r] = 0
    PROVE  AtFetch(r)' /\ GuardOwes(r)'
BY DEF AtFetch, GuardOwes, Guard!Waiting

\* What left the guard owes it nothing.
LEMMA LeaveKeeps ==
    ASSUME GuardInv, NEW r \in Requests, Guard!Leave(r)
    PROVE  GuardInv'
<1>1. GuardTyped
  BY DEF GuardInv, Guard!TypeOK, GuardTyped, Guards
<1>2. /\ pc' = [pc EXCEPT ![r] = "left"] /\ token' = [token EXCEPT ![r] = NoToken]
      /\ at' = [at EXCEPT ![r] = NoGuard]
      /\ expired' = [expired EXCEPT ![r] = FALSE]
      /\ retried' = [retried EXCEPT ![r] = FALSE]
      /\ fetches' = [fetches EXCEPT ![r] = 0] /\ steady' = [steady EXCEPT ![r] = FALSE]
      /\ UNCHANGED <<published, rotations, cache, answer>>
  BY DEF Guard!Leave, Guard!keycloak
<1>3. /\ GuardTyped' /\ \A q \in Requests \ {r} : Unmoved(q)
      /\ pc'[r] = "left" /\ ~steady'[r] /\ fetches'[r] = 0
  BY <1>1, <1>2 DEF GuardTyped, Unmoved, Guard!FetchBound
<1> QED BY <1>2, <1>3, ForgottenOwes, OneMoves

\* Around the requests keys rotate, tokens end and the cache grows old.
LEMMA AroundKeeps ==
    ASSUME GuardInv, Guard!Around
    PROVE  GuardInv'
<1>1. GuardTyped /\ \A r \in Requests : AtFetch(r) /\ GuardOwes(r)
  BY DEF GuardInv, Guard!TypeOK, GuardTyped, Guards, AtFetch
<1>2. ASSUME NEW g \in Guards, Guard!Expire(g) PROVE GuardInv'
  <2>1. /\ cache' = [cache EXCEPT ![g] = NoCache]
        /\ UNCHANGED <<published, rotations, pc, at, token, expired, retried, answer,
                       fetches, steady>>
    BY <1>2 DEF Guard!Expire, Guard!Store, Guard!keycloak, Guard!request
  <2>2. cache' \in [Guards -> Guard!JwkSet \cup {NoCache}]
    BY <1>1, <2>1 DEF GuardTyped
  <2>3. GuardTyped'
    BY <1>1, <2>1, <2>2 DEF GuardTyped
  <2>4. ASSUME NEW r \in Requests PROVE AtFetch(r)' /\ GuardOwes(r)'
    BY <1>1, <2>1 DEF AtFetch, GuardOwes
  <2> QED BY <2>3, <2>4 DEF GuardInv, Guard!TypeOK, GuardTyped, Guards, AtFetch
<1>3. CASE Guard!Rotate
  <2>1. PICK ks \in SUBSET Keys :
            /\ published' = ks
            /\ steady' = [r \in Requests |-> steady[r] /\ token[r].kid \in ks]
    BY <1>3 DEF Guard!Rotate
  <2>2. /\ rotations' = rotations + 1 /\ rotations < MaxRotations
        /\ UNCHANGED <<cache, pc, at, token, expired, retried, answer, fetches>>
    BY <1>3 DEF Guard!Rotate
  <2>3. \A r \in Requests : (steady[r] /\ token[r].kid \in ks) \in BOOLEAN
    BY <1>1 DEF GuardTyped
  <2>4. steady' \in [Requests -> BOOLEAN]
    BY <2>1, <2>3
  <2>5. rotations' \in 0..MaxRotations
    BY <1>1, <2>2 DEF GuardTyped
  <2>6. GuardTyped'
    BY <1>1, <2>1, <2>2, <2>4, <2>5 DEF GuardTyped
  <2>7. ASSUME NEW r \in Requests PROVE AtFetch(r)' /\ GuardOwes(r)'
    <3>1. steady'[r] => steady[r] /\ token[r].kid \in ks
      BY <1>1, <2>1 DEF GuardTyped
    <3> QED BY <1>1, <2>1, <2>2, <3>1 DEF AtFetch, GuardOwes
  <2> QED BY <2>6, <2>7 DEF GuardInv, Guard!TypeOK, GuardTyped, Guards, AtFetch
<1>4. ASSUME NEW r \in Requests, Guard!TokenExpires(r) PROVE GuardInv'
  <2>1. /\ pc[r] \in Guard!Waiting /\ expired' = [expired EXCEPT ![r] = TRUE]
        /\ UNCHANGED <<published, rotations, cache, pc, at, token, retried, answer,
                       fetches, steady>>
    BY <1>4 DEF Guard!TokenExpires, Guard!keycloak
  <2>2. GuardTyped' /\ (\A q \in Requests \ {r} : Unmoved(q)) /\ expired'[r]
    BY <1>1, <2>1 DEF GuardTyped, Unmoved
  <2>3. AtFetch(r)' /\ GuardOwes(r)'
    BY <1>1, <2>1, <2>2 DEF AtFetch, GuardOwes, Guard!Waiting
  <2> QED BY <2>1, <2>2, <2>3, OneMoves
<1> QED BY <1>2, <1>3, <1>4 DEF Guard!Around, Guards

\* A restart drops the caches and whoever is in flight.
LEMMA GuardRestartKeeps ==
    ASSUME GuardInv, Guard!Restart
    PROVE  GuardInv'
<1>1. GuardTyped /\ \A r \in Requests : AtFetch(r) /\ GuardOwes(r)
  BY DEF GuardInv, Guard!TypeOK, GuardTyped, Guards, AtFetch
<1>2. /\ cache' = [g \in Guards |-> NoCache] /\ UNCHANGED <<published, rotations>>
      /\ pc' = [r \in Requests |-> IF pc[r] \in Guard!Waiting THEN "left" ELSE pc[r]]
      /\ at' = [r \in Requests |-> IF pc[r] \in Guard!Waiting THEN NoGuard ELSE at[r]]
      /\ token' = [r \in Requests |-> IF pc[r] \in Guard!Waiting THEN NoToken ELSE token[r]]
      /\ expired' = [r \in Requests |-> IF pc[r] \in Guard!Waiting THEN FALSE ELSE expired[r]]
      /\ retried' = [r \in Requests |-> IF pc[r] \in Guard!Waiting THEN FALSE ELSE retried[r]]
      /\ answer' = [r \in Requests |-> IF pc[r] \in Guard!Waiting THEN NoAnswer ELSE answer[r]]
      /\ fetches' = [r \in Requests |-> IF pc[r] \in Guard!Waiting THEN 0 ELSE fetches[r]]
      /\ steady' = [r \in Requests |-> IF pc[r] \in Guard!Waiting THEN FALSE ELSE steady[r]]
  BY DEF Guard!Restart, Guard!keycloak, Guards
<1>3. GuardTyped'
  <2>1. pc' \in [Requests -> Guard!Waiting \cup Guard!Ended \cup {"idle", "left"}]
    BY <1>1, <1>2 DEF GuardTyped
  <2>2. /\ token' \in [Requests -> Tokens \cup {NoToken}]
        /\ at' \in [Requests -> Guards \cup {NoGuard}]
    BY <1>1, <1>2 DEF GuardTyped
  <2>3. /\ expired' \in [Requests -> BOOLEAN] /\ retried' \in [Requests -> BOOLEAN]
        /\ steady' \in [Requests -> BOOLEAN]
    BY <1>1, <1>2 DEF GuardTyped
  <2>4. answer' \in [Requests -> Guard!JwkSet \cup {NoAnswer}]
    BY <1>1, <1>2 DEF GuardTyped
  <2>5. fetches' \in [Requests -> 0..Guard!FetchBound]
    BY <1>1, <1>2 DEF GuardTyped, Guard!FetchBound
  <2>6. /\ published' \subseteq Keys /\ rotations' \in 0..MaxRotations
        /\ cache' \in [Guards -> Guard!JwkSet \cup {NoCache}]
    BY <1>1, <1>2 DEF GuardTyped
  <2> QED BY <2>1, <2>2, <2>3, <2>4, <2>5, <2>6 DEF GuardTyped
<1>4. ASSUME NEW r \in Requests PROVE AtFetch(r)' /\ GuardOwes(r)'
  <2>1. CASE pc[r] \in Guard!Waiting
    BY <1>2, <1>3, <2>1, ForgottenOwes
  <2>2. CASE pc[r] \notin Guard!Waiting
    <3>1. Unmoved(r)
      BY <1>2, <2>2 DEF Unmoved
    <3> QED BY <1>1, <1>2, <3>1 DEF Unmoved, AtFetch, GuardOwes
  <2> QED BY <2>1, <2>2
<1> QED BY <1>3, <1>4 DEF GuardInv, Guard!TypeOK, GuardTyped, Guards, AtFetch

\* The caches are empty at the start.
LEMMA GuardInit == Guard!Init => GuardInv
<1> SUFFICES ASSUME Guard!Init PROVE GuardInv
  OBVIOUS
<1>1. /\ published = InitialKeys /\ rotations = 0 /\ cache = [g \in Guards |-> NoCache]
      /\ at = [r \in Requests |-> NoGuard]
      /\ pc = [r \in Requests |-> "idle"] /\ token = [r \in Requests |-> NoToken]
      /\ expired = [r \in Requests |-> FALSE] /\ retried = [r \in Requests |-> FALSE]
      /\ answer = [r \in Requests |-> NoAnswer] /\ fetches = [r \in Requests |-> 0]
      /\ steady = [r \in Requests |-> FALSE]
  BY DEF Guard!Init, Guards
<1>2. GuardTyped
  BY <1>1 DEF GuardTyped, Guard!FetchBound
<1>3. ASSUME NEW r \in Requests PROVE AtFetch(r) /\ GuardOwes(r)
  <2>1. pc[r] = "idle" /\ ~retried[r] /\ fetches[r] = 0 /\ ~steady[r]
    BY <1>1
  <2> QED BY <2>1 DEF AtFetch, GuardOwes, Guard!Waiting
<1> QED BY <1>2, <1>3 DEF GuardInv, Guard!TypeOK, GuardTyped, Guards, AtFetch

\* Every step of the guard keeps its invariant.
LEMMA GuardNext == GuardInv /\ [Guard!Next]_(Guard!vars) => GuardInv'
<1> SUFFICES ASSUME GuardInv, [Guard!Next]_(Guard!vars) PROVE GuardInv'
  OBVIOUS
<1>1. CASE UNCHANGED Guard!vars
  <2>1. UNCHANGED <<published, rotations, cache, pc, at, token, expired, retried, answer,
                    fetches, steady>>
    BY <1>1 DEF Guard!vars, Guard!keycloak, Guard!request
  <2>2. Guard!TypeOK'
    BY <2>1 DEF GuardInv, Guard!TypeOK
  <2>3. \A r \in Requests : GuardOwes(r)'
    BY <2>1 DEF GuardInv, GuardOwes
  <2> QED BY <2>2, <2>3 DEF GuardInv
<1>2. CASE Guard!Next
  BY <1>2, ArriveKeeps, AnswerKeeps, RefreshedKeeps, FetchFailsKeeps, LeaveKeeps,
     AroundKeeps, GuardRestartKeeps DEF Guard!Next, Guard!Step, Guards
<1> QED BY <1>1, <1>2

-----------------------------------------------------------------------------
(* The exchange around it.                                                 *)

\* What has been made sure of for a request at each stage.
Passed(r) ==
    /\ pc[r] \in Guard!Waiting => stage[r] = "keycloakGuard"
    /\ stage[r] \in InFlight => call[r] \in Calls
    /\ stage[r] = "sent" => reply[r] \in Reply
    /\ stage[r] = "keycloakGuard" => call[r].by = "jwt" /\ token[r] = call[r].token
    /\ stage[r] = "signIn" => call[r].by = "jwt" /\ call[r].token.genuine
    /\ stage[r] = "keyGuard" => call[r].by = "key" /\ call[r].route # "apiKeys"
    /\ stage[r] \in {"pipe", "handle"} /\ call[r].route # "health" =>
          \/ call[r].by = "key" /\ call[r].route # "apiKeys"
          \/ call[r].by = "jwt" /\ call[r].token.genuine

Stages == InFlight \cup {"idle", "sent", "closed", "lost"}

ExchangeInv ==
    /\ stage \in [Requests -> Stages]
    /\ call \in [Requests -> Calls \cup {NoCall}]
    /\ reply \in [Requests -> Reply \cup {NoReply}]
    /\ \A r \in Requests : Passed(r)

\* A request is where it was, and no fetch of the guard began for it.
Stays(q) ==
    /\ stage'[q] = stage[q] /\ call'[q] = call[q] /\ reply'[q] = reply[q]
    /\ token'[q] = token[q] /\ (pc'[q] \in Guard!Waiting => pc[q] \in Guard!Waiting)

\* A step that moves one request keeps the invariant if it does for that request.
LEMMA OnePasses ==
    ASSUME ExchangeInv, NEW r \in Requests,
           stage' \in [Requests -> Stages],
           call' \in [Requests -> Calls \cup {NoCall}],
           reply' \in [Requests -> Reply \cup {NoReply}],
           \A q \in Requests \ {r} : Stays(q), Passed(r)'
    PROVE  ExchangeInv'
<1>1. ASSUME NEW q \in Requests \ {r} PROVE Passed(q)'
  <2>1. Passed(q) /\ Stays(q)
    BY DEF ExchangeInv
  <2> QED BY <2>1 DEF Passed, Stays
<1> QED BY <1>1 DEF ExchangeInv

\* What a step of the guard leaves alone: the tokens of those that have come, and
\* everything of the others.
LEMMA GuardTouches ==
    ASSUME GuardInv, NEW r \in Requests
    PROVE  /\ \A g \in Guards, t \in Tokens : Guard!Arrive(r, g, t) =>
                 /\ token'[r] = t
                 /\ \A q \in Requests \ {r} : pc'[q] = pc[q] /\ token'[q] = token[q]
           /\ Guard!Step(r) =>
                 /\ token' = token /\ pc[r] \in Guard!Waiting
                 /\ \A q \in Requests \ {r} : pc'[q] = pc[q]
           /\ Guard!Leave(r) =>
                 /\ pc'[r] = "left"
                 /\ \A q \in Requests \ {r} : pc'[q] = pc[q] /\ token'[q] = token[q]
<1>1. /\ pc \in [Requests -> Guard!Waiting \cup Guard!Ended \cup {"idle", "left"}]
      /\ token \in [Requests -> Tokens \cup {NoToken}]
      /\ cache \in [Guards -> Guard!JwkSet \cup {NoCache}]
      /\ answer \in [Requests -> Guard!JwkSet \cup {NoAnswer}]
      /\ pc[r] = "answered" => at[r] \in Guards /\ answer[r] # NoAnswer
  BY DEF GuardInv, Guard!TypeOK, Guard!Waiting, Guards
<1>2. ASSUME NEW g \in Guards, NEW t \in Tokens, Guard!Arrive(r, g, t)
      PROVE  /\ token'[r] = t
             /\ \A q \in Requests \ {r} : pc'[q] = pc[q] /\ token'[q] = token[q]
  <2>1. token' = [token EXCEPT ![r] = t]
    BY <1>2 DEF Guard!Arrive
  <2>2. CASE \E step : pc' = [pc EXCEPT ![r] = step]
    BY <1>1, <2>1, <2>2
  <2>3. CASE \E tooOld : cache[g] # NoCache /\ Guard!LookUp(r, g, t, tooOld, cache[g])
    <3>1. cache[g] \in Guard!JwkSet
      BY <1>1, <2>3
    <3> QED BY <1>1, <2>1, <2>3, <3>1, LookUpDoes
  <2> QED BY <1>2, <2>2, <2>3 DEF Guard!Arrive, Guard!Fetch
<1>3. ASSUME Guard!Step(r)
      PROVE  /\ token' = token /\ pc[r] \in Guard!Waiting
             /\ \A q \in Requests \ {r} : pc'[q] = pc[q]
  <2>1. CASE Guard!Answer(r) \/ Guard!FetchFails(r)
    BY <1>1, <2>1 DEF Guard!Answer, Guard!FetchFails, Guard!Waiting
  <2>2. CASE Guard!Refreshed(r)
    <3>1. PICK g, t, tooOld, found : /\ g = at[r] /\ t = token[r] /\ tooOld = expired[r]
                                     /\ found = answer[r]
      OBVIOUS
    <3>2. Guard!LookUp(r, g, t, tooOld, found) /\ token' = token /\ pc[r] = "answered"
      BY <2>2, <3>1 DEF Guard!Refreshed
    <3>3. g \in Guards /\ found \in Guard!JwkSet
      BY <1>1, <3>1, <3>2
    <3> QED BY <3>2, <3>3, LookUpDoes DEF Guard!Waiting
  <2> QED BY <1>3, <2>1, <2>2 DEF Guard!Step
<1>4. ASSUME Guard!Leave(r)
      PROVE  /\ pc'[r] = "left"
             /\ \A q \in Requests \ {r} : pc'[q] = pc[q] /\ token'[q] = token[q]
  BY <1>1, <1>4 DEF Guard!Leave
<1> QED BY <1>2, <1>3, <1>4

\* Every step is one of the guard, or leaves what the guard knows alone.
LEMMA GuardSteps == [Next]_vars => [Guard!Next]_(Guard!vars)
<1> SUFFICES ASSUME [Next]_vars PROVE [Guard!Next]_(Guard!vars)
  OBVIOUS
<1>1. UNCHANGED tokens => UNCHANGED Guard!vars
  BY DEF tokens, Guard!vars, Guard!keycloak, Guard!request
<1>2. CASE UNCHANGED vars
  BY <1>1, <1>2 DEF vars
<1>3. ASSUME NEW r \in Requests, Receive(r) PROVE [Guard!Next]_(Guard!vars)
  <2>1. \/ UNCHANGED tokens
        \/ \E c \in Calls : /\ c.by = "jwt" /\ GuardOf(c.route) # "none"
                            /\ Guard!Arrive(r, GuardOf(c.route), c.token)
    BY <1>3 DEF Receive
  <2>2. \A c \in Calls : GuardOf(c.route) # "none" => GuardOf(c.route) \in Guards
    BY DEF GuardOf, Route, Guards
  <2> QED BY <1>1, <2>1, <2>2 DEF Guard!Next, Guards
<1>4. ASSUME NEW r \in Requests, Step(r) \/ Close(r) PROVE [Guard!Next]_(Guard!vars)
  <2>1. UNCHANGED tokens \/ Guard!Step(r) \/ Guard!Leave(r)
    BY <1>4 DEF Step, FetchKeys, Verified, Admit, Pipe, Handle, Close
  <2> QED BY <1>1, <2>1 DEF Guard!Next
<1>5. CASE KeysAndTokensAge \/ Restart
  BY <1>5 DEF KeysAndTokensAge, Restart, Guard!Next
<1> QED BY <1>2, <1>3, <1>4, <1>5 DEF Next

\* Exchange runs the guard as SigningKeys says it runs, with whatever goes on around it.
THEOREM GuardIsSigningKeys == Spec => Guard!Spec
<1>1. Init => Guard!Init
  BY DEF Init
<1> QED BY <1>1, GuardSteps, PTL DEF Spec, Guard!Spec

\* Whoever may still fetch the keys goes on, and the answer it acts upon is no older
\* than it is; so a good token gets in, and nobody fetches for ever.
THEOREM GuardInvariance == Spec => []GuardInv
<1>1. Init => GuardInv
  BY GuardInit DEF Init
<1>2. GuardInv /\ [Next]_vars => GuardInv'
  BY GuardSteps, GuardNext
<1> QED BY <1>1, <1>2, PTL DEF Spec

\* A genuine token whose key has been published ever since it came is never refused as
\* a bad one, whoever drops or fills the cache in the meantime.
THEOREM GoodTokensGetIn == Spec => []GoodTokenGetsIn
<1>1. GuardInv => GoodTokenGetsIn
  BY DEF GuardInv, GuardOwes, GoodTokenGetsIn, Guard!GoodTokenGetsIn
<1> QED BY <1>1, GuardInvariance, PTL

\* No request makes a third fetch, however many others drop the cache.
THEOREM NeverThreeFetches == Spec => []TwoFetchesAtMost
<1>1. GuardInv => TwoFetchesAtMost
  BY DEF GuardInv, GuardOwes, TwoFetchesAtMost, Guard!TwoFetchesAtMost
<1> QED BY <1>1, GuardInvariance, PTL

-----------------------------------------------------------------------------

\* Whatever the filter answers is a reply, and the request is through with it.
LEMMA ThrowEnds ==
    ASSUME ExchangeInv, NEW r \in Requests, NEW e \in Thrown, Throw(r, e)
    PROVE  /\ stage' \in [Requests -> Stages] /\ reply' \in [Requests -> Reply \cup {NoReply}]
           /\ stage'[r] = "sent" /\ reply'[r] \in Reply
           /\ \A q \in Requests \ {r} : stage'[q] = stage[q] /\ reply'[q] = reply[q]
<1>1. PICK problem \in Reply : problem = toProblem(e)
  BY DEF Reply
<1> QED BY <1>1 DEF Throw, ExchangeInv, Stages

\* To go on moves one request to a stage there is.
LEMMA GoMoves ==
    ASSUME ExchangeInv, NEW r \in Requests, NEW step \in InFlight, Go(r, step)
    PROVE  /\ stage' \in [Requests -> Stages] /\ reply' \in [Requests -> Reply \cup {NoReply}]
           /\ stage'[r] = step
           /\ \A q \in Requests \ {r} : stage'[q] = stage[q] /\ reply'[q] = reply[q]
BY DEF Go, ExchangeInv, Stages

\* What is thrown before the handler is one of the errors the filter knows.
LEMMA WhatIsThrown ==
    /\ \A e \in Errors : e \in Thrown
    /\ UnknownProperty \in Thrown
    /\ Other("fetchFailed") \in Thrown /\ Other("noKeys") \in Thrown
    /\ Http(400, "invalid value") \in Thrown /\ Http(429, "too many requests") \in Thrown
    /\ \A why \in Guard!Ended : Http(401, why) \in Thrown
    /\ Http(401, "missing_bearer_token") \in Thrown
    /\ Http(401, "invalid_token") \in Thrown
    /\ Http(401, "invalid_api_key") \in Thrown
<1>1. \A e \in Errors : e \in Thrown
  BY DEF Thrown
<1>2. /\ UnknownProperty \in Thrown
      /\ Other("fetchFailed") \in Thrown /\ Other("noKeys") \in Thrown
  BY DEF Thrown
<1>3. Http(400, "invalid value") \in Thrown /\ Http(429, "too many requests") \in Thrown
  BY DEF Thrown
<1> DEFINE reasons == Guard!Ended \cup
                         {"missing_bearer_token", "invalid_token", "invalid_api_key"}
<1>4. \A why \in reasons : Http(401, why) \in Thrown
  <2> HIDE DEF reasons
  <2>1. \A why \in reasons : Http(401, why) \in {Http(401, w) : w \in reasons}
    BY Zenon
  <2>2. {Http(401, w) : w \in reasons} \subseteq Thrown
    BY Zenon DEF Thrown, reasons
  <2> QED BY <2>1, <2>2, Zenon
<1>5. /\ \A why \in Guard!Ended : why \in reasons
      /\ "missing_bearer_token" \in reasons /\ "invalid_token" \in reasons
      /\ "invalid_api_key" \in reasons
  BY Zenon
<1> HIDE DEF reasons
<1>6. /\ \A why \in Guard!Ended : Http(401, why) \in Thrown
      /\ Http(401, "missing_bearer_token") \in Thrown
      /\ Http(401, "invalid_token") \in Thrown
      /\ Http(401, "invalid_api_key") \in Thrown
  BY ONLY <1>4, <1>5
<1> QED BY <1>1, <1>2, <1>3, <1>6, Zenon

\* A request that goes on waits for no key, unless it is at the guard.
LEMMA AtGuardOrNotWaiting ==
    ASSUME ExchangeInv, NEW r \in Requests, stage[r] # "keycloakGuard"
    PROVE  pc[r] \notin Guard!Waiting
BY DEF ExchangeInv, Passed

\* A request that is received goes where the credentials it has are checked.
LEMMA ReceivePasses ==
    ASSUME GuardInv, ExchangeInv, NEW r \in Requests, Receive(r)
    PROVE  ExchangeInv'
<1>1. PICK c \in Calls :
          LET guard == GuardOf(c.route)
          IN  /\ call' = [call EXCEPT ![r] = c]
              /\ \/ Throttled(r) /\ UNCHANGED tokens
                 \/ guard = "none" /\ Go(r, "pipe") /\ UNCHANGED tokens
                 \/ /\ guard # "none" /\ c.by = "none"
                    /\ Throw(r, Http(401, "missing_bearer_token")) /\ UNCHANGED tokens
                 \/ /\ guard = "AuthGuard" /\ c.by = "key"
                    /\ Go(r, "keyGuard") /\ UNCHANGED tokens
                 \/ /\ guard = "KeycloakAuthGuard" /\ c.by = "key"
                    /\ Throw(r, Http(401, "invalid_token")) /\ UNCHANGED tokens
                 \/ /\ guard # "none" /\ c.by = "jwt"
                    /\ Guard!Arrive(r, guard, c.token) /\ Go(r, "keycloakGuard")
  BY DEF Receive
<1>2. /\ c.route \in Route /\ c.by \in Credential /\ (c.by = "jwt" => c.token \in Tokens)
      /\ stage[r] = "idle" /\ pc[r] \notin Guard!Waiting
  BY AtGuardOrNotWaiting DEF Receive
<1>3. /\ GuardOf(c.route) = "none" => c.route = "health"
      /\ GuardOf(c.route) = "AuthGuard" => c.route = "business"
  BY <1>2 DEF GuardOf, Route
<1>4. /\ call' \in [Requests -> Calls \cup {NoCall}] /\ call'[r] = c
      /\ \A q \in Requests \ {r} : call'[q] = call[q]
  BY <1>1 DEF ExchangeInv
<1>5. UNCHANGED tokens => pc' = pc /\ token' = token
  BY DEF tokens
<1>6. CASE /\ UNCHANGED tokens
           /\ \E e \in Thrown : Throw(r, e)
  <2>1. Passed(r)'
    BY <1>2, <1>5, <1>6, ThrowEnds DEF Passed, InFlight
  <2> QED BY <1>4, <1>5, <1>6, <2>1, ThrowEnds, OnePasses DEF Stays
<1>7. CASE UNCHANGED tokens /\ GuardOf(c.route) = "none" /\ Go(r, "pipe")
  <2>1. Passed(r)'
    BY <1>2, <1>3, <1>4, <1>5, <1>7, GoMoves DEF Passed, InFlight
  <2> QED BY <1>4, <1>5, <1>7, <2>1, GoMoves, OnePasses DEF Stays, InFlight
<1>8. CASE /\ UNCHANGED tokens /\ GuardOf(c.route) = "AuthGuard" /\ c.by = "key"
           /\ Go(r, "keyGuard")
  <2>1. Passed(r)'
    BY <1>2, <1>3, <1>4, <1>5, <1>8, GoMoves DEF Passed, InFlight
  <2> QED BY <1>4, <1>5, <1>8, <2>1, GoMoves, OnePasses DEF Stays, InFlight
<1>9. CASE /\ GuardOf(c.route) # "none" /\ c.by = "jwt"
           /\ Guard!Arrive(r, GuardOf(c.route), c.token) /\ Go(r, "keycloakGuard")
  <2>1. /\ token'[r] = c.token
        /\ \A q \in Requests \ {r} : pc'[q] = pc[q] /\ token'[q] = token[q]
    <3>1. GuardOf(c.route) \in Guards
      BY <1>2, <1>9 DEF GuardOf, Route, Guards
    <3> QED BY <1>2, <1>9, <3>1, GuardTouches
  <2>2. /\ stage' \in [Requests -> Stages] /\ reply' \in [Requests -> Reply \cup {NoReply}]
        /\ stage'[r] = "keycloakGuard"
        /\ \A q \in Requests \ {r} : stage'[q] = stage[q] /\ reply'[q] = reply[q]
    BY <1>9, GoMoves DEF InFlight
  <2>3. Passed(r)'
    BY <1>2, <1>4, <1>9, <2>1, <2>2 DEF Passed, InFlight
  <2>4. \A q \in Requests \ {r} : Stays(q)
    BY <1>4, <2>1, <2>2 DEF Stays
  <2> QED BY <1>4, <2>2, <2>3, <2>4, OnePasses
<1>10. CASE /\ UNCHANGED tokens
            /\ \/ Throttled(r) \/ Throw(r, Http(401, "missing_bearer_token"))
               \/ Throw(r, Http(401, "invalid_token"))
  <2>1. Throttled(r) => Throw(r, Http(429, "too many requests"))
    BY DEF Throttled
  <2>2. /\ Http(429, "too many requests") \in Thrown
        /\ Http(401, "missing_bearer_token") \in Thrown
        /\ Http(401, "invalid_token") \in Thrown
    BY WhatIsThrown, Zenon
  <2>3. \E e \in Thrown : Throw(r, e)
    <3>1. CASE Throttled(r)
      BY <2>1, <2>2, <3>1, Zenon
    <3>2. CASE Throw(r, Http(401, "missing_bearer_token"))
      BY <2>2, <3>2, Zenon
    <3>3. CASE Throw(r, Http(401, "invalid_token"))
      BY <2>2, <3>3, Zenon
    <3> QED BY <1>10, <3>1, <3>2, <3>3, Zenon
  <2> QED BY <1>6, <1>10, <2>3, Zenon
<1> QED BY <1>1, <1>7, <1>8, <1>9, <1>10, Zenon

\* The steps of the guard on the cache leave every stage as it is.
LEMMA FetchKeysPasses ==
    ASSUME GuardInv, ExchangeInv, NEW r \in Requests, FetchKeys(r)
    PROVE  ExchangeInv'
<1>1. /\ token' = token /\ pc[r] \in Guard!Waiting
      /\ \A q \in Requests \ {r} : pc'[q] = pc[q]
      /\ UNCHANGED <<stage, call, reply>>
  BY GuardTouches DEF FetchKeys, exchange
<1>2. Passed(r)'
  BY <1>1 DEF Passed, ExchangeInv
<1> QED BY <1>1, <1>2, OnePasses DEF ExchangeInv, Stays

\* What the guard found decides whether a request goes on.
LEMMA VerifiedPasses ==
    ASSUME GuardInv, ExchangeInv, NEW r \in Requests, Verified(r)
    PROVE  ExchangeInv'
<1>1. /\ stage[r] = "keycloakGuard" /\ call' = call /\ pc'[r] = "left"
      /\ \A q \in Requests \ {r} : pc'[q] = pc[q] /\ token'[q] = token[q]
  BY GuardTouches DEF Verified
<1>2. /\ call \in [Requests -> Calls \cup {NoCall}] /\ call[r] \in Calls
      /\ call[r].by = "jwt" /\ token[r] = call[r].token
      /\ pc[r] = "verified" => token[r].genuine
  BY <1>1 DEF ExchangeInv, Passed, InFlight, GuardInv, GuardOwes
<1>3. CASE pc[r] = "verified" /\ Go(r, "signIn")
  <2>1. Passed(r)'
    BY <1>1, <1>2, <1>3, GoMoves DEF Passed, InFlight, Guard!Waiting
  <2> QED BY <1>1, <1>2, <1>3, <2>1, GoMoves, OnePasses DEF Stays, InFlight
<1>4. CASE \E e \in Thrown : Throw(r, e)
  <2>1. Passed(r)'
    BY <1>1, <1>4, ThrowEnds DEF Passed, InFlight, Guard!Waiting
  <2> QED BY <1>1, <1>2, <1>4, <2>1, ThrowEnds, OnePasses DEF Stays
<1>5. ASSUME pc[r] \in {"invalidToken", "unknownKey", "fetchRefused"}
      PROVE  Http(401, pc[r]) \in Thrown
  <2>1. pc[r] \in Guard!Ended
    BY <1>5 DEF Guard!Ended
  <2>2. \A why \in Guard!Ended : Http(401, why) \in Thrown
    BY WhatIsThrown
  <2> QED BY ONLY <2>1, <2>2
<1>6. Verified(r) =>
         \/ pc[r] = "verified" /\ Go(r, "signIn")
         \/ pc[r] \in {"invalidToken", "unknownKey", "fetchRefused"}
               /\ Throw(r, Http(401, pc[r]))
         \/ pc[r] \in {"fetchFailed", "noKeys"} /\ Throw(r, Other(pc[r]))
  BY DEF Verified
<1>7. pc[r] \in {"fetchFailed", "noKeys"} => Other(pc[r]) \in Thrown
  BY WhatIsThrown
<1> QED BY <1>3, <1>4, <1>5, <1>6, <1>7, Zenon

\* What follows the guards, in one step of a request that the guard has forgotten.
LEMMA LaterPasses ==
    ASSUME ExchangeInv, UNCHANGED <<tokens, call>>, NEW r \in Requests,
           \/ \E e \in Thrown : Throw(r, e)
           \/ /\ stage[r] \in {"signIn", "keyGuard"} /\ Go(r, "pipe")
           \/ /\ stage[r] = "pipe" /\ stage' = [stage EXCEPT ![r] = "handle"]
              /\ UNCHANGED reply
           \/ /\ stage[r] = "handle" /\ stage' = [stage EXCEPT ![r] = "sent"]
              /\ \E answered \in Reply : reply' = [reply EXCEPT ![r] = answered],
           stage[r] # "keycloakGuard"
    PROVE  ExchangeInv'
<1>1. /\ pc' = pc /\ token' = token /\ call' = call /\ pc[r] \notin Guard!Waiting
      /\ Passed(r) /\ call \in [Requests -> Calls \cup {NoCall}]
      /\ stage \in [Requests -> Stages] /\ reply \in [Requests -> Reply \cup {NoReply}]
  BY AtGuardOrNotWaiting DEF tokens, ExchangeInv
<1>2. CASE \E e \in Thrown : Throw(r, e)
  <2>1. Passed(r)'
    BY <1>1, <1>2, ThrowEnds DEF Passed, InFlight
  <2> QED BY <1>1, <1>2, <2>1, ThrowEnds, OnePasses DEF Stays
<1>3. CASE stage[r] \in {"signIn", "keyGuard"} /\ Go(r, "pipe")
  <2>1. Passed(r)'
    BY <1>1, <1>3, GoMoves DEF Passed, InFlight
  <2> QED BY <1>1, <1>3, <2>1, GoMoves, OnePasses DEF Stays, InFlight
<1>4. CASE /\ stage[r] = "pipe" /\ stage' = [stage EXCEPT ![r] = "handle"]
           /\ UNCHANGED reply
  <2>1. /\ stage' \in [Requests -> Stages] /\ stage'[r] = "handle"
        /\ \A q \in Requests \ {r} : stage'[q] = stage[q]
    BY <1>1, <1>4 DEF Stages, InFlight
  <2>2. Passed(r)'
    BY <1>1, <1>4, <2>1 DEF Passed, InFlight
  <2> QED BY <1>1, <1>4, <2>1, <2>2, OnePasses DEF Stays
<1>5. CASE /\ stage[r] = "handle" /\ stage' = [stage EXCEPT ![r] = "sent"]
           /\ \E answered \in Reply : reply' = [reply EXCEPT ![r] = answered]
  <2>1. PICK answered \in Reply : reply' = [reply EXCEPT ![r] = answered]
    BY <1>5
  <2>2. /\ stage' \in [Requests -> Stages] /\ stage'[r] = "sent"
        /\ reply' \in [Requests -> Reply \cup {NoReply}] /\ reply'[r] \in Reply
        /\ \A q \in Requests \ {r} : stage'[q] = stage[q] /\ reply'[q] = reply[q]
    BY <1>1, <1>5, <2>1 DEF Stages
  <2>3. Passed(r)'
    BY <1>1, <2>2 DEF Passed, InFlight
  <2> QED BY <1>1, <2>2, <2>3, OnePasses DEF Stays
<1> QED BY <1>2, <1>3, <1>4, <1>5

\* Sign-in and the guard of API keys let a request on to the pipe or throw.
LEMMA AdmitPasses ==
    ASSUME ExchangeInv, NEW r \in Requests, Admit(r)
    PROVE  ExchangeInv'
<1>1. stage[r] \in {"signIn", "keyGuard"} /\ UNCHANGED <<tokens, call>>
  BY DEF Admit
<1>2. Go(r, "pipe") \/ \E e \in Thrown : Throw(r, e)
  BY WhatIsThrown DEF Admit
<1> QED BY <1>1, <1>2, LaterPasses

\* The pipe refuses a body or passes it to the handler.
LEMMA PipePasses ==
    ASSUME ExchangeInv, NEW r \in Requests, Pipe(r)
    PROVE  ExchangeInv'
<1>1. stage[r] = "pipe" /\ UNCHANGED <<tokens, call>>
  BY DEF Pipe
<1>2. \/ stage' = [stage EXCEPT ![r] = "handle"] /\ UNCHANGED reply
      \/ \E e \in Thrown : Throw(r, e)
  BY WhatIsThrown DEF Pipe
<1> QED BY <1>1, <1>2, LaterPasses

\* The handler ends with a result or with an error the filter knows.
LEMMA HandlePasses ==
    ASSUME ExchangeInv, NEW r \in Requests, Handle(r)
    PROVE  ExchangeInv'
<1>1. stage[r] = "handle" /\ UNCHANGED <<tokens, call>>
  BY DEF Handle
<1>2. \A value \in Results : [status |-> 200, body |-> Outgoing[value]] \in Reply
  BY DEF Reply
<1>3. \/ /\ stage' = [stage EXCEPT ![r] = "sent"]
         /\ \E answered \in Reply : reply' = [reply EXCEPT ![r] = answered]
      \/ \E e \in Thrown : Throw(r, e)
  BY <1>2, WhatIsThrown DEF Handle
<1> QED BY <1>1, <1>3, LaterPasses

\* What was known of an answered request is dropped.
LEMMA ClosePasses ==
    ASSUME ExchangeInv, NEW r \in Requests, Close(r)
    PROVE  ExchangeInv'
<1>1. /\ stage[r] = "sent" /\ stage' = [stage EXCEPT ![r] = "closed"]
      /\ call' = [call EXCEPT ![r] = NoCall] /\ reply' = [reply EXCEPT ![r] = NoReply]
      /\ UNCHANGED tokens
  BY DEF Close
<1>2. /\ stage' \in [Requests -> Stages] /\ stage'[r] = "closed"
      /\ call' \in [Requests -> Calls \cup {NoCall}]
      /\ reply' \in [Requests -> Reply \cup {NoReply}]
      /\ \A q \in Requests \ {r} : Stays(q)
  BY <1>1 DEF ExchangeInv, Stages, Stays, tokens
<1>3. pc' = pc /\ pc[r] \notin Guard!Waiting
  BY <1>1, AtGuardOrNotWaiting DEF tokens
<1>4. Passed(r)'
  BY <1>2, <1>3 DEF Passed, InFlight
<1> QED BY <1>2, <1>4, OnePasses

\* A restart loses what is in flight and keeps what was answered.
LEMMA RestartPasses ==
    ASSUME GuardInv, ExchangeInv, Restart
    PROVE  ExchangeInv'
<1>1. /\ stage' = [r \in Requests |-> IF stage[r] \in InFlight THEN "lost" ELSE stage[r]]
      /\ call' = [r \in Requests |-> IF stage[r] \in InFlight THEN NoCall ELSE call[r]]
      /\ reply' = reply
      /\ pc' = [r \in Requests |-> IF pc[r] \in Guard!Waiting THEN "left" ELSE pc[r]]
  BY DEF Restart, Guard!Restart
<1>2. stage' \in [Requests -> Stages]
  BY <1>1 DEF ExchangeInv, Stages
<1>3. call' \in [Requests -> Calls \cup {NoCall}]
  BY <1>1 DEF ExchangeInv
<1>4. ASSUME NEW r \in Requests PROVE Passed(r)'
  <2>1. pc'[r] \notin Guard!Waiting
    BY <1>1 DEF Guard!Waiting
  <2>2. stage'[r] \notin InFlight
    BY <1>1 DEF InFlight
  <2>3. stage'[r] = "sent" => reply'[r] \in Reply
    BY <1>1 DEF ExchangeInv, Passed
  <2> QED BY <2>1, <2>2, <2>3 DEF Passed, InFlight
<1> QED BY <1>1, <1>2, <1>3, <1>4 DEF ExchangeInv

\* No request has come at the start.
LEMMA ExchangeInit == Init => ExchangeInv
<1> SUFFICES ASSUME Init PROVE ExchangeInv
  OBVIOUS
<1>1. /\ pc = [r \in Requests |-> "idle"] /\ stage = [r \in Requests |-> "idle"]
      /\ call = [r \in Requests |-> NoCall] /\ reply = [r \in Requests |-> NoReply]
  BY DEF Init, Guard!Init
<1>2. \A r \in Requests : Passed(r)
  BY <1>1 DEF Passed, InFlight, Guard!Waiting
<1> QED BY <1>1, <1>2 DEF ExchangeInv, Stages

\* Every step keeps the invariant, given what the guard keeps.
LEMMA ExchangeNext == GuardInv /\ ExchangeInv /\ [Next]_vars => ExchangeInv'
<1> SUFFICES ASSUME GuardInv, ExchangeInv, [Next]_vars PROVE ExchangeInv'
  OBVIOUS
<1>1. ASSUME UNCHANGED exchange, pc' = pc, token' = token PROVE ExchangeInv'
  <2>1. UNCHANGED <<stage, call, reply, pc, token>>
    BY <1>1 DEF exchange
  <2> QED BY <2>1 DEF ExchangeInv, Passed
<1>2. CASE UNCHANGED vars
  BY <1>1, <1>2 DEF vars, tokens
<1>3. CASE KeysAndTokensAge
  <2>1. UNCHANGED exchange
    BY <1>3 DEF KeysAndTokensAge
  <2>2. token' = token /\ pc' = pc
    BY <1>3 DEF KeysAndTokensAge, Guard!Around, Guard!Expire, Guard!Rotate,
                Guard!TokenExpires, Guard!request
  <2> QED BY <1>1, <2>1, <2>2
<1> QED BY <1>2, <1>3, ReceivePasses, FetchKeysPasses, VerifiedPasses, AdmitPasses,
           PipePasses, HandlePasses, ClosePasses, RestartPasses DEF Next, Step

\* What has been checked by each stage still holds of the request there.
THEOREM ExchangeInvariance == Spec => []ExchangeInv
BY ExchangeInit, ExchangeNext, GuardInvariance, PTL DEF Spec

\* Exchange and its guard keep what they know of the right kind.
THEOREM TypeCorrect == Spec => []TypeOK
<1>1. GuardInv /\ ExchangeInv => TypeOK
  BY DEF GuardInv, ExchangeInv, Passed, Stages, TypeOK
<1> QED BY <1>1, GuardInvariance, ExchangeInvariance, PTL

\* A handler that needs a user runs only for a key where keys may come, and for a token
\* only when it is genuine, whatever the cache went through while it was checked.
THEOREM HandledAreAdmitted == Spec => []HandledIsAdmitted
<1>1. GuardInv /\ ExchangeInv => HandledIsAdmitted
  BY DEF GuardInv, GuardOwes, ExchangeInv, Passed, HandledIsAdmitted
<1> QED BY <1>1, GuardInvariance, ExchangeInvariance, PTL

-----------------------------------------------------------------------------
(* What is done to a body on the way.  The conversions are any that bring  *)
(* a DTO back; that those of CaseConversion do, and what becomes of a      *)
(* result, is for TLC.                                                     *)

\* Nothing is answered yet, and there is a place for what each request brings.
OpenInv ==
    /\ DOMAIN got = Requests
    /\ \A r \in Requests : stage[r] \in InFlight \cup {"idle"} => reply[r] = NoReply

\* A step of one request: it goes on with no answer, or it ends.
Onward(r) ==
    /\ DOMAIN got' = Requests
    /\ \A q \in Requests \ {r} : stage'[q] = stage[q] /\ reply'[q] = reply[q]
    /\ \/ stage[r] \in InFlight \cup {"idle"} /\ reply' = reply
       \/ stage'[r] \in {"sent", "closed"}

\* To throw, to go on, to answer and to close are such steps, and there are no others.
LEMMA GoesOnward ==
    ASSUME ExchangeInv, OpenInv, NEW r \in Requests, Receive(r) \/ Step(r) \/ Close(r)
    PROVE  Onward(r)
<1>1. stage \in [Requests -> Stages] /\ reply \in [Requests -> Reply \cup {NoReply}]
  BY DEF ExchangeInv
<1>2. ASSUME NEW e, Throw(r, e) PROVE Onward(r)
  BY <1>1, <1>2 DEF Throw, OpenInv, Onward
<1>3. ASSUME NEW step, Go(r, step), stage[r] \in InFlight \cup {"idle"} PROVE Onward(r)
  BY <1>1, <1>3 DEF Go, OpenInv, Onward
<1>4. CASE Receive(r)
  <2>1. stage[r] = "idle" /\ ((\E e : Throw(r, e)) \/ \E step : Go(r, step))
    BY <1>4 DEF Receive, Throttled
  <2> QED BY <1>2, <1>3, <2>1
<1>5. CASE FetchKeys(r)
  <2>1. UNCHANGED <<stage, got, result, reply>>
    BY <1>5 DEF FetchKeys, exchange
  <2>2. stage[r] = "keycloakGuard"
    BY <1>5 DEF FetchKeys, Guard!Step, Guard!Answer, Guard!Refreshed, Guard!FetchFails,
                Guard!Waiting, ExchangeInv, Passed
  <2> QED BY <2>1, <2>2 DEF OpenInv, Onward, InFlight
<1>6. CASE Verified(r)
  <2>1. /\ stage[r] \in InFlight
        /\ (\E e : Throw(r, e)) \/ \E step : Go(r, step)
    BY <1>6 DEF Verified, InFlight
  <2> QED BY <1>2, <1>3, <2>1
<1>7. CASE Admit(r)
  <2>1. /\ stage[r] \in InFlight
        /\ (\E e : Throw(r, e)) \/ \E step : Go(r, step)
    BY <1>7 DEF Admit, InFlight
  <2> QED BY <1>2, <1>3, <2>1
<1>8. CASE Pipe(r)
  <2>1. CASE \E e : Throw(r, e)
    BY <1>2, <2>1
  <2>2. CASE /\ \E body : got' = [got EXCEPT ![r] = body]
             /\ stage' = [stage EXCEPT ![r] = "handle"]
             /\ UNCHANGED <<result, reply>>
    <3>1. stage[r] \in InFlight
      BY <1>8 DEF Pipe, InFlight
    <3> QED BY <1>1, <2>2, <3>1 DEF OpenInv, Onward
  <2> QED BY <1>8, <2>1, <2>2 DEF Pipe
<1>9. CASE Handle(r)
  <2>1. CASE \E e : Throw(r, e)
    BY <1>2, <2>1
  <2>2. CASE \E value : /\ result' = [result EXCEPT ![r] = value]
                        /\ \E a : reply' = [reply EXCEPT ![r] = a]
                        /\ stage' = [stage EXCEPT ![r] = "sent"]
                        /\ got' = [got EXCEPT ![r] = NoValue]
    BY <1>1, <2>2 DEF OpenInv, Onward
  <2> QED BY <1>9, <2>1, <2>2 DEF Handle
<1>10. CASE Close(r)
  BY <1>1, <1>10 DEF Close, OpenInv, Onward
<1> QED BY <1>4, <1>5, <1>6, <1>7, <1>8, <1>9, <1>10 DEF Step

\* A request that has no answer yet holds none from before.
LEMMA OpenNext == ExchangeInv /\ OpenInv /\ [Next]_vars => OpenInv'
<1> SUFFICES ASSUME ExchangeInv, OpenInv, [Next]_vars PROVE OpenInv'
  OBVIOUS
<1>1. CASE \E r \in Requests : Receive(r) \/ Step(r) \/ Close(r)
  <2>1. PICK r \in Requests : Onward(r)
    BY <1>1, GoesOnward
  <2>2. "sent" \notin InFlight /\ "closed" \notin InFlight
    BY DEF InFlight
  <2> QED BY <2>1, <2>2 DEF OpenInv, Onward
<1>2. CASE Restart
  <2>1. /\ stage' = [r \in Requests |-> IF stage[r] \in InFlight THEN "lost" ELSE stage[r]]
        /\ DOMAIN got' = Requests /\ reply' = reply
    BY <1>2 DEF Restart
  <2>2. "lost" \notin InFlight
    BY DEF InFlight
  <2> QED BY <2>1, <2>2 DEF OpenInv
<1>3. CASE UNCHANGED exchange
  BY <1>3 DEF OpenInv, exchange
<1> QED BY <1>1, <1>2, <1>3 DEF Next, KeysAndTokensAge, vars

\* Whatever a request still has before it, no answer was written for it.
LEMMA OpenInvariance == Spec => []OpenInv
<1>1. Init => OpenInv
  BY DEF Init, OpenInv
<1> QED BY <1>1, OpenNext, ExchangeInvariance, PTL DEF Spec

\* Only the pipe moves a request from the pipe to the handler or to an answer.
LEMMA OnlyPipePasses ==
    ASSUME ExchangeInv, [Next]_vars, NEW r \in Requests, stage[r] = "pipe",
           stage'[r] \in {"handle", "sent"}
    PROVE  Pipe(r)
<1>1. stage'[r] # stage[r]
  OBVIOUS
<1>2. ~Restart
  BY DEF Restart, InFlight
<1>3. ~UNCHANGED exchange
  BY <1>1 DEF exchange
<1>4. PICK q \in Requests : Receive(q) \/ Step(q) \/ Close(q)
  BY <1>2, <1>3 DEF Next, KeysAndTokensAge, vars
<1>5. q = r
  <2> SUFFICES ASSUME q # r PROVE FALSE
    OBVIOUS
  <2>1. stage \in [Requests -> Stages]
    BY DEF ExchangeInv
  <2>2. \E step : stage' = [stage EXCEPT ![q] = step]
    BY <1>3, <1>4 DEF Receive, Throttled, Step, FetchKeys, Verified, Admit, Pipe, Handle,
                      Close, Throw, Go
  <2> QED BY <1>1, <2>1, <2>2
<1>6. Receive(r) \/ Verified(r) \/ Admit(r) \/ Pipe(r) \/ Handle(r) \/ Close(r)
  BY <1>3, <1>4, <1>5 DEF Step, FetchKeys
<1> QED BY <1>6 DEF Receive, Verified, Admit, Handle, Close

\* Where the conversions leave a DTO as it is and bring it back from snake_case, no
\* body that says what a DTO says is refused for its spelling, or reaches the handler
\* as anything else.
THEOREM BodiesAreUnderstood ==
    ASSUME \A dto \in Dtos : /\ snakeToCamel(dto) = dto
                             /\ snakeToCamel(camelToSnake(dto)) = dto
    PROVE  Spec => BodyIsUnderstood
<1> DEFINE Understood(r) ==
        stage[r] = "pipe" /\ stage'[r] \in {"handle", "sent"} =>
          \A dto \in Dtos : call[r].body \in {dto, camelToSnake(dto)} =>
              /\ stage'[r] = "handle" => got'[r] = dto
              /\ reply'[r] # toProblem(UnknownProperty)
<1>1. ASSUME ExchangeInv, OpenInv, [Next]_vars, NEW r \in Requests PROVE Understood(r)
  <2> SUFFICES ASSUME stage[r] = "pipe", stage'[r] \in {"handle", "sent"},
                      NEW dto \in Dtos, call[r].body \in {dto, camelToSnake(dto)}
               PROVE  /\ stage'[r] = "handle" => got'[r] = dto
                      /\ reply'[r] # toProblem(UnknownProperty)
    OBVIOUS
  <2>1. Pipe(r)
    BY <1>1, OnlyPipePasses
  <2>2. call[r] \in Calls /\ reply[r] = NoReply
    BY <1>1 DEF ExchangeInv, Passed, OpenInv, InFlight
  <2>3. Incoming[call[r].body] = dto
    BY <2>2 DEF Incoming
  <2>4. KeysOf(dto) \subseteq DtoKeys
    BY DEF DtoKeys
  <2>5. CASE /\ got' = [got EXCEPT ![r] = dto]
             /\ UNCHANGED <<result, reply>>
    BY <1>1, <2>2, <2>5, NullsAssumption DEF OpenInv
  <2>6. CASE Throw(r, Http(400, "invalid value"))
    <3>1. stage' = [stage EXCEPT ![r] = "sent"]
          /\ reply' = [reply EXCEPT ![r] = toProblem(Http(400, "invalid value"))]
      BY <2>6 DEF Throw
    <3>2. stage'[r] = "sent" /\ reply'[r] = toProblem(Http(400, "invalid value"))
      <4> DEFINE problem == toProblem(Http(400, "invalid value"))
      <4>1. /\ stage \in [Requests -> Stages] /\ reply \in [Requests -> Reply \cup {NoReply}]
            /\ reply' = [reply EXCEPT ![r] = problem]
        BY <1>1, <3>1 DEF ExchangeInv
      <4> HIDE DEF problem
      <4>2. reply'[r] = problem
        BY <4>1
      <4>3. stage'[r] = "sent"
        BY <3>1, <4>1
      <4> QED BY <4>2, <4>3 DEF problem
    <3>3. toProblem(Http(400, "invalid value")).detail = "invalid value"
      BY DEF toProblem, Http
    <3>4. toProblem(UnknownProperty).detail = "property should not exist"
      BY DEF toProblem, Http, UnknownProperty
    <3>5. toProblem(Http(400, "invalid value")) # toProblem(UnknownProperty)
      BY ONLY <3>3, <3>4
    <3> QED BY <3>2, <3>5, Zenon
  <2> QED BY <2>1, <2>3, <2>4, <2>5, <2>6 DEF Pipe
<1>2. ExchangeInv /\ OpenInv /\ [Next]_vars => \A r \in Requests : Understood(r)
  BY <1>1
<1> QED BY <1>2, ExchangeInvariance, OpenInvariance, PTL DEF Spec, BodyIsUnderstood
=============================================================================
