------------------------------ MODULE Exchange ------------------------------
(***************************************************************************)
(* One request from the socket to its answer: the throttler, the guard of  *)
(* the route, the interceptor and the pipe that main.ts registers, the     *)
(* handler, and the filter that answers for whatever threw on the way.     *)
(*                                                                         *)
(* KeycloakAuthGuard is SigningKeys, of which there are two: the one that  *)
(* AuthGuard hands tokens to, and that of the controller of API keys; of   *)
(* ApiKeyAuthGuard, of the user that signs in and of the handlers only how *)
(* they end counts here (Access and the other modules have the rest).  How *)
(* the keys of a body are converted is CaseConversion.                     *)
(***************************************************************************)
EXTENDS Naturals

CONSTANTS
    Requests, Keys, InitialKeys, Tokens, MaxRotations,
    NoKeys, NoCache, NoAnswer, NoKid, NoToken, NoGuard,    \* of SigningKeys
    Calls,               \* [route, by, token, body]: what clients send
    Dtos,                \* the bodies the handlers are written for, in camelCase
    Results,             \* what the handlers return
    Errors,              \* what the guards and the handlers throw
    snakeToCamel(_), camelToSnake(_),      \* what the interceptor does to a value
    KeysOf(_),           \* the keys in a value, at every depth
    SnakeKey(_),         \* whether a key is in snake_case
    NoCall, NoValue, NoReply

VARIABLES
    published, rotations, cache, pc, at, token, expired, retried, answer, fetches, steady,
    stage,               \* how far each request has come
    call,                \* what was sent
    got,                 \* request.body, once it is converted
    result,              \* what the handler returned
    reply                \* what was answered

Guard == INSTANCE SigningKeys WITH Guards <- {"AuthGuard", "KeycloakAuthGuard"}

tokens == <<published, rotations, cache, pc, at, token, expired, retried, answer,
            fetches, steady>>
exchange == <<stage, call, got, result, reply>>
vars == <<tokens, exchange>>

-----------------------------------------------------------------------------

Route == {"health", "business", "apiKeys"}
Credential == {"none", "key", "jwt"}

Http(status, text) == [kind |-> "http", status |-> status, text |-> text]
Prisma(code, text) == [kind |-> "prisma", code |-> code, text |-> text]
Other(text) == [kind |-> "other", text |-> text]

InFlight == {"keycloakGuard", "signIn", "keyGuard", "pipe", "handle"}

ASSUME ExchangeAssumption ==
    /\ Guard!KeysConstants
    /\ \A c \in Calls : /\ c.route \in Route /\ c.by \in Credential
                        /\ c.by = "jwt" => c.token \in Tokens
    /\ \A e \in Errors : e.kind \in {"http", "prisma", "other"}

Init ==
    /\ Guard!Init
    /\ stage = [r \in Requests |-> "idle"]
    /\ call = [r \in Requests |-> NoCall]
    /\ got = [r \in Requests |-> NoValue]
    /\ result = [r \in Requests |-> NoValue]
    /\ reply = [r \in Requests |-> NoReply]

-----------------------------------------------------------------------------
(* ProblemJsonFilter.                                                      *)

Generic == "unexpected"

fromPrismaError(e) ==
    CASE e.code = "P2002" -> [status |-> 409, detail |-> "conflict"]
      [] e.code = "P2025" -> [status |-> 404, detail |-> "not found"]
      [] OTHER            -> [status |-> 500, detail |-> Generic]

toProblem(e) ==
    CASE e.kind = "http"   -> [status |-> e.status, detail |-> e.text]
      [] e.kind = "prisma" -> fromPrismaError(e)
      [] e.kind = "other"  -> [status |-> 500, detail |-> Generic]

Throw(r, e) ==
    /\ stage' = [stage EXCEPT ![r] = "sent"]
    /\ reply' = [reply EXCEPT ![r] = toProblem(e)]
    /\ got' = [got EXCEPT ![r] = NoValue]
    /\ UNCHANGED result

Go(r, step) ==
    /\ stage' = [stage EXCEPT ![r] = step]
    /\ UNCHANGED <<got, result, reply>>

-----------------------------------------------------------------------------
(* The guards.                                                             *)

\* Mistake: all but the public route stand behind AuthGuard.
AuthGuardForAll(route) == IF route = "health" THEN "none" ELSE "AuthGuard"
GuardOf(route) ==
    CASE route = "health"   -> "none"
      [] route = "business" -> "AuthGuard"
      [] route = "apiKeys"  -> "KeycloakAuthGuard"

\* ThrottlerGuard is first, on every route.  It counts the requests of each client
\* per minute; any of them may be the one too many.
Throttled(r) == Throw(r, Http(429, "too many requests"))

\* AuthGuard gives a key to the guard for keys; to KeycloakAuthGuard a key is a
\* token that cannot be decoded.
Receive(r) ==
    /\ stage[r] = "idle"
    /\ \E c \in Calls :
          LET guard == GuardOf(c.route)
          IN  /\ call' = [call EXCEPT ![r] = c]
              /\ \/ /\ Throttled(r)
                    /\ UNCHANGED tokens
                 \/ /\ guard = "none"
                    /\ Go(r, "pipe")
                    /\ UNCHANGED tokens
                 \/ /\ guard # "none" /\ c.by = "none"
                    /\ Throw(r, Http(401, "missing_bearer_token"))
                    /\ UNCHANGED tokens
                 \/ /\ guard = "AuthGuard" /\ c.by = "key"
                    /\ Go(r, "keyGuard")
                    /\ UNCHANGED tokens
                 \/ /\ guard = "KeycloakAuthGuard" /\ c.by = "key"
                    /\ Throw(r, Http(401, "invalid_token"))
                    /\ UNCHANGED tokens
                 \/ /\ guard # "none" /\ c.by = "jwt"
                    /\ Guard!Arrive(r, guard, c.token)
                    /\ Go(r, "keycloakGuard")

\* What getPublicKey and jwt.verify end with, and what the filter makes of it.
Verified(r) ==
    /\ stage[r] = "keycloakGuard"
    /\ \/ pc[r] = "verified" /\ Go(r, "signIn")
       \/ pc[r] \in {"invalidToken", "unknownKey", "fetchRefused"}
             /\ Throw(r, Http(401, pc[r]))
       \/ pc[r] \in {"fetchFailed", "noKeys"} /\ Throw(r, Other(pc[r]))
    /\ Guard!Leave(r)
    /\ UNCHANGED call

\* findOrCreateFromToken and ApiKeyAuthGuard: the request goes on, or they throw.
Admit(r) ==
    /\ stage[r] \in {"signIn", "keyGuard"}
    /\ \/ Go(r, "pipe")
       \/ stage[r] = "keyGuard" /\ Throw(r, Http(401, "invalid_api_key"))
       \/ \E e \in Errors : Throw(r, e)
    /\ UNCHANGED <<tokens, call>>

-----------------------------------------------------------------------------
(* CaseConversionInterceptor around ValidationPipe and the handler.  A     *)
(* request without a body has a scalar, which nothing is done to.          *)

UnknownProperty == Http(400, "property should not exist")

ASSUME NullsAssumption == NoReply # toProblem(UnknownProperty)

DtoKeys == UNION {KeysOf(dto) : dto \in Dtos}

\* What the interceptor makes of each body, and of each result.
Incoming == [body \in {c.body : c \in Calls} |-> snakeToCamel(body)]
Outgoing == [value \in Results |-> camelToSnake(value)]

\* The pipe has forbidNonWhitelisted: a key no DTO declares is refused, and a value
\* may be.
Pipe(r) ==
    /\ stage[r] = "pipe"
    /\ LET body == Incoming[call[r].body]
           known == KeysOf(body) \subseteq DtoKeys
       IN  \/ /\ known
              /\ got' = [got EXCEPT ![r] = body]
              /\ stage' = [stage EXCEPT ![r] = "handle"]
              /\ UNCHANGED <<result, reply>>
           \/ known /\ Throw(r, Http(400, "invalid value"))
           \/ ~known /\ Throw(r, UnknownProperty)
    /\ UNCHANGED <<tokens, call>>

Handle(r) ==
    /\ stage[r] = "handle"
    /\ \/ \E value \in Results :
             /\ result' = [result EXCEPT ![r] = value]
             /\ reply' = [reply EXCEPT ![r] =
                            [status |-> 200, body |-> Outgoing[value]]]
             /\ stage' = [stage EXCEPT ![r] = "sent"]
             /\ got' = [got EXCEPT ![r] = NoValue]
       \/ \E e \in Errors : Throw(r, e)
    /\ UNCHANGED <<tokens, call>>

\* The client has its answer, and nothing of the request is left.
Close(r) ==
    /\ stage[r] = "sent"
    /\ stage' = [stage EXCEPT ![r] = "closed"]
    /\ call' = [call EXCEPT ![r] = NoCall]
    /\ result' = [result EXCEPT ![r] = NoValue]
    /\ reply' = [reply EXCEPT ![r] = NoReply]
    /\ UNCHANGED <<tokens, got>>

\* A crash loses the cache, and every request that is not answered yet.
Restart ==
    LET Kept(f, none) == [r \in Requests |-> IF stage[r] \in InFlight THEN none ELSE f[r]]
    IN  /\ Guard!Restart
        /\ stage' = Kept(stage, "lost")
        /\ call' = Kept(call, NoCall)
        /\ got' = Kept(got, NoValue)
        /\ UNCHANGED <<result, reply>>

-----------------------------------------------------------------------------

FetchKeys(r) == Guard!Step(r) /\ UNCHANGED exchange
KeysAndTokensAge == Guard!Around /\ UNCHANGED exchange

Step(r) == FetchKeys(r) \/ Verified(r) \/ Admit(r) \/ Pipe(r) \/ Handle(r)

Next ==
    \/ \E r \in Requests : Receive(r) \/ Step(r) \/ Close(r)
    \/ KeysAndTokensAge
    \/ Restart

Spec == Init /\ [][Next]_vars

\* Keycloak answers, or the fetch fails or times out, the database answers, and
\* the event loop runs what awaits them.
FairSpec == Spec /\ \A r \in Requests : WF_vars(Step(r))

-----------------------------------------------------------------------------

\* What is thrown somewhere, and what a client is answered.
Thrown ==
    Errors
    \cup {UnknownProperty, Http(400, "invalid value"), Http(429, "too many requests"),
          Other("fetchFailed"), Other("noKeys")}
    \cup {Http(401, why) : why \in Guard!Ended \cup
              {"missing_bearer_token", "invalid_token", "invalid_api_key"}}
Reply ==
    {toProblem(e) : e \in Thrown}
    \cup {[status |-> 200, body |-> Outgoing[value]] : value \in Results}

\* What the guard and the exchange know is of the right kind, and whoever verifies
\* a token is at the guard for it.
TypeOK ==
    /\ Guard!TypeOK
    /\ stage \in [Requests -> InFlight \cup {"idle", "sent", "closed", "lost"}]
    /\ \A r \in Requests :
          /\ pc[r] \in Guard!Waiting => stage[r] = "keycloakGuard"
          /\ stage[r] \in InFlight => call[r] \in Calls
          /\ stage[r] = "sent" => reply[r] \in Reply

GoodTokenGetsIn == Guard!GoodTokenGetsIn
TwoFetchesAtMost == Guard!TwoFetchesAtMost

\* "una API Key no puede usarse para crear/listar/revocar otras API Keys": a handler
\* that needs a user runs only for a key where keys may come, and for a token only
\* when it was genuine, and still good once Keycloak's keys were there to check it.
HandledIsAdmitted ==
    \A r \in Requests :
        /\ stage[r] \in {"pipe", "handle"} /\ call[r].route # "health" =>
              \/ call[r].by = "key" /\ call[r].route # "apiKeys"
              \/ call[r].by = "jwt" /\ call[r].token.genuine
        /\ pc[r] = "verified" => token[r].genuine /\ ~expired[r]

\* A body that says in snake_case, or in camelCase, what a DTO says at every depth
\* reaches the handler as that DTO: it is never refused for how it is spelled.
BodyIsUnderstood ==
    [][\A r \in Requests : stage[r] = "pipe" /\ stage'[r] \in {"handle", "sent"} =>
          \A dto \in Dtos : call[r].body \in {dto, camelToSnake(dto)} =>
              /\ stage'[r] = "handle" => got'[r] = dto
              /\ reply'[r] # toProblem(UnknownProperty)]_vars

\* No key of an answer is in camelCase at any depth, and a client that converts
\* them back has what the handler returned, with no field lost on the way.
WireIsSnake ==
    [][\A r \in Requests : result[r] = NoValue /\ result'[r] # NoValue =>
          /\ \A key \in KeysOf(reply'[r].body) : SnakeKey(key)
          /\ snakeToCamel(reply'[r].body) = result'[r]]_vars

\* Every request is answered, unless the process goes down before.
EveryoneAnswered ==
    \A r \in Requests : stage[r] \in InFlight ~> stage[r] \in {"sent", "lost"}
=============================================================================
