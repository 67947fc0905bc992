---------------------------- MODULE SigningKeys ----------------------------
(***************************************************************************)
(* KeycloakAuthGuard up to the user it lets in: how the token of a request *)
(* is verified, and the cache of Keycloak's signing keys that this takes.  *)
(* The cache is a field of the guard, and each module that names the guard *)
(* in @UseGuards gets an instance of its own.  Every request of a guard    *)
(* may fill its cache, and throws it away when it does not find the key of *)
(* its token in it.                                                        *)
(*                                                                         *)
(* The only await on the way is the fetch of the keys.  What follows its   *)
(* answer, up to the next fetch or to jwt.verify, runs in one turn of the  *)
(* event loop and is one action; Keycloak answers and rotates its keys,    *)
(* tokens and the cache grow old, and the process restarts in between.     *)
(***************************************************************************)
EXTENDS Naturals

CONSTANTS
    Requests,            \* each one is one HTTP request, used at most once
    Guards,              \* the instances of KeycloakAuthGuard
    Keys,                \* the kid of every key there may be
    InitialKeys,         \* the ones Keycloak has published at the start
    Tokens,              \* [kid, genuine]: the tokens that are sent; genuine is signed
                         \* with that key, for this issuer, with RS256
    MaxRotations,        \* bound: how often Keycloak changes what it publishes
    NoKeys,              \* undefined: the keys of an answer that has none
    NoCache, NoAnswer, NoKid, NoToken, NoGuard    \* null

VARIABLES
    published,           \* the keys Keycloak answers with
    rotations,           \* how often they changed
    cache,               \* the keys in the jwksCache of each guard, which are read
                         \* no more once they are older than JWKS_CACHE_TTL_MS
    pc,                  \* where each request is
    at,                  \* the guard it is at
    token,               \* what it carries
    expired,             \* its token is past `exp`
    retried,             \* retriedAfterCacheMiss
    answer,              \* what Keycloak answered to its fetch
    fetches,             \* history: how many fetches it made, up to FetchBound
    steady               \* history: its key was published ever since it came

keycloak == <<published, rotations>>
request == <<at, token, expired, retried, answer, fetches, steady>>
vars == <<keycloak, cache, pc, request>>

-----------------------------------------------------------------------------

FetchBound == 3             \* bound: one more than there should be

Token == [kid : Keys \cup {NoKid}, genuine : BOOLEAN]
JwkSet == (SUBSET Keys) \cup {NoKeys}
Waiting == {"fetching", "answered"}
Ended == {"verified", "invalidToken", "unknownKey", "fetchRefused", "fetchFailed",
          "noKeys"}

\* What the constants must be; whoever uses this module assumes it.
KeysConstants ==
    /\ InitialKeys \subseteq Keys
    /\ Tokens \subseteq Token
    /\ MaxRotations \in Nat
    /\ \A ks \in SUBSET Keys : NoKeys # ks
    /\ \A keys \in JwkSet : NoCache # keys /\ NoAnswer # keys
    /\ NoKid \notin Keys
    /\ NoToken \notin Token

Init ==
    /\ published = InitialKeys
    /\ rotations = 0
    /\ cache = [g \in Guards |-> NoCache]
    /\ pc = [r \in Requests |-> "idle"]
    /\ at = [r \in Requests |-> NoGuard]
    /\ token = [r \in Requests |-> NoToken]
    /\ expired = [r \in Requests |-> FALSE]
    /\ retried = [r \in Requests |-> FALSE]
    /\ answer = [r \in Requests |-> NoAnswer]
    /\ fetches = [r \in Requests |-> 0]
    /\ steady = [r \in Requests |-> FALSE]

-----------------------------------------------------------------------------

\* Mistakes: a key that is missing is missing, or is looked for for ever.
NeverRetry(r) == FALSE
RetryForEver(r) == TRUE
MayRetry(r) == ~retried[r]

\* jwt.verify, with the key the token names.
Verifies(t, tooOld) == t.genuine /\ ~tooOld

Fetch(r) ==
    /\ pc' = [pc EXCEPT ![r] = "fetching"]
    /\ fetches' = [fetches EXCEPT ![r] = IF @ < FetchBound THEN @ + 1 ELSE @]

Store(g, keys) == cache' = [cache EXCEPT ![g] = keys]

\* The key is looked up in `found`, the cache of the guard from here on.  When it is
\* not there the cache is dropped, for everybody, and fetched again, once.  Where there
\* are no keys to look through, the TypeError leaves the cache as it is.
LookUp(r, g, t, tooOld, found) ==
    \/ /\ found = NoKeys
       /\ Store(g, found)
       /\ pc' = [pc EXCEPT ![r] = "noKeys"]
       /\ UNCHANGED <<retried, fetches>>
    \/ /\ found # NoKeys /\ t.kid \in found
       /\ Store(g, found)
       /\ pc' = [pc EXCEPT ![r] = IF Verifies(t, tooOld) THEN "verified"
                                  ELSE "invalidToken"]
       /\ UNCHANGED <<retried, fetches>>
    \/ /\ found # NoKeys /\ t.kid \notin found /\ MayRetry(r)
       /\ Store(g, NoCache)
       /\ retried' = [retried EXCEPT ![r] = TRUE]
       /\ Fetch(r)
    \/ /\ found # NoKeys /\ t.kid \notin found /\ ~MayRetry(r)
       /\ Store(g, found)
       /\ pc' = [pc EXCEPT ![r] = "unknownKey"]
       /\ UNCHANGED <<retried, fetches>>

\* A token that names no key, or is none at all, costs no fetch.  Whether a forged
\* one is too old makes no difference.
Arrive(r, g, t) ==
    /\ pc[r] = "idle"
    /\ at' = [at EXCEPT ![r] = g]
    /\ token' = [token EXCEPT ![r] = t]
    /\ steady' = [steady EXCEPT ![r] = t.kid \in published]
    /\ \E tooOld \in {FALSE, t.genuine} :
          /\ expired' = [expired EXCEPT ![r] = tooOld]
          /\ \/ /\ t.kid = NoKid
                /\ pc' = [pc EXCEPT ![r] = "invalidToken"]
                /\ UNCHANGED <<cache, retried, fetches>>
             \/ /\ t.kid # NoKid /\ cache[g] # NoCache
                /\ LookUp(r, g, t, tooOld, cache[g])
             \/ /\ t.kid # NoKid /\ cache[g] = NoCache
                /\ Fetch(r)
                /\ UNCHANGED <<cache, retried>>
    /\ UNCHANGED <<keycloak, answer>>

\* Mistake: the body of the answer is not awaited.
AnswerNotAwaited(r) ==
    /\ pc[r] = "fetching"
    /\ pc' = [pc EXCEPT ![r] = "answered"]
    /\ UNCHANGED <<keycloak, cache, request>>
\* Keycloak reads the keys it answers with; the answer arrives some time later.  What
\* answers in its place may say something else in JSON.
Answer(r) ==
    /\ pc[r] = "fetching"
    /\ \E keys \in {published, NoKeys} : answer' = [answer EXCEPT ![r] = keys]
    /\ pc' = [pc EXCEPT ![r] = "answered"]
    /\ UNCHANGED <<keycloak, cache, at, token, expired, retried, fetches, steady>>

Refreshed(r) ==
    /\ pc[r] = "answered"
    /\ LookUp(r, at[r], token[r], expired[r], answer[r])
    /\ answer' = [answer EXCEPT ![r] = NoAnswer]
    /\ UNCHANGED <<keycloak, at, token, expired, steady>>

\* An answer that is not 200 is a 401; no answer, or one that is not JSON, is an
\* error nobody expects.  The cache stays as it is.
FetchFails(r) ==
    /\ pc[r] \in Waiting
    /\ \E outcome \in {"fetchRefused", "fetchFailed"} : pc' = [pc EXCEPT ![r] = outcome]
    /\ answer' = [answer EXCEPT ![r] = NoAnswer]
    /\ UNCHANGED <<keycloak, cache, at, token, expired, retried, fetches, steady>>

\* The guard is done with the request, and keeps nothing of it.
Leave(r) ==
    /\ pc[r] \in Ended
    /\ pc' = [pc EXCEPT ![r] = "left"]
    /\ at' = [at EXCEPT ![r] = NoGuard]
    /\ token' = [token EXCEPT ![r] = NoToken]
    /\ expired' = [expired EXCEPT ![r] = FALSE]
    /\ retried' = [retried EXCEPT ![r] = FALSE]
    /\ fetches' = [fetches EXCEPT ![r] = 0]
    /\ steady' = [steady EXCEPT ![r] = FALSE]
    /\ UNCHANGED <<keycloak, cache, answer>>

-----------------------------------------------------------------------------

\* JWKS_CACHE_TTL_MS have passed since the keys were fetched.
Expire(g) ==
    /\ cache[g] # NoCache
    /\ Store(g, NoCache)
    /\ UNCHANGED <<keycloak, pc, request>>

TokenExpires(r) ==
    /\ pc[r] \in Waiting
    /\ token[r].genuine /\ ~expired[r]
    /\ expired' = [expired EXCEPT ![r] = TRUE]
    /\ UNCHANGED <<keycloak, cache, pc, at, token, retried, answer, fetches, steady>>

Rotate ==
    /\ rotations < MaxRotations
    /\ rotations' = rotations + 1
    /\ \E ks \in SUBSET Keys \ {published} :
          /\ published' = ks
          /\ steady' = [r \in Requests |-> steady[r] /\ token[r].kid \in ks]
    /\ UNCHANGED <<cache, pc, at, token, expired, retried, answer, fetches>>

\* The process goes and comes back: the cache was in its memory, and so was all that
\* it knew of a request.
Restart ==
    LET Kept(f, none) == [r \in Requests |-> IF pc[r] \in Waiting THEN none ELSE f[r]]
    IN  /\ cache' = [g \in Guards |-> NoCache]
        /\ pc' = Kept(pc, "left")
        /\ at' = Kept(at, NoGuard)
        /\ token' = Kept(token, NoToken)
        /\ expired' = Kept(expired, FALSE)
        /\ retried' = Kept(retried, FALSE)
        /\ answer' = Kept(answer, NoAnswer)
        /\ fetches' = Kept(fetches, 0)
        /\ steady' = Kept(steady, FALSE)
        /\ UNCHANGED keycloak

-----------------------------------------------------------------------------

Step(r) == Answer(r) \/ Refreshed(r) \/ FetchFails(r)

\* What happens to the guards whether a request moves or not.
Around ==
    \/ \E g \in Guards : Expire(g)
    \/ Rotate
    \/ \E r \in Requests : TokenExpires(r)

Next ==
    \/ \E r \in Requests : (\E g \in Guards, t \in Tokens : Arrive(r, g, t)) \/ Step(r) \/ Leave(r)
    \/ Around
    \/ Restart

Spec == Init /\ [][Next]_vars

-----------------------------------------------------------------------------

\* The cache and what the requests know are of the right kind.
TypeOK ==
    /\ published \subseteq Keys
    /\ rotations \in 0..MaxRotations
    /\ cache \in [Guards -> JwkSet \cup {NoCache}]
    /\ pc \in [Requests -> Waiting \cup Ended \cup {"idle", "left"}]
    /\ at \in [Requests -> Guards \cup {NoGuard}]
    /\ token \in [Requests -> Tokens \cup {NoToken}]
    /\ expired \in [Requests -> BOOLEAN]
    /\ retried \in [Requests -> BOOLEAN]
    /\ answer \in [Requests -> JwkSet \cup {NoAnswer}]
    /\ fetches \in [Requests -> 0..FetchBound]
    /\ steady \in [Requests -> BOOLEAN]
    /\ \A r \in Requests :
          /\ pc[r] \in Waiting =>
                at[r] \in Guards /\ token[r] \in Tokens /\ token[r].kid # NoKid
          /\ pc[r] = "answered" => answer[r] # NoAnswer

\* A genuine token that is not past its end, and whose key Keycloak has published
\* ever since the request came, is never refused as a bad one, however old the
\* cache is and whoever drops or fills it in the meantime.
GoodTokenGetsIn ==
    \A r \in Requests : steady[r] /\ token[r].genuine /\ ~expired[r] =>
        pc[r] \notin {"unknownKey", "invalidToken"}

\* No request makes more than two fetches, however many others drop the cache.
TwoFetchesAtMost == \A r \in Requests : fetches[r] <= 2
=============================================================================
