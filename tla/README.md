# Personal finance service: verification

TLA+ models of the NestJS service in this repository, the TLC runs that check
them on small instances, and theorems about them that the TLA+ proof system
checks for every value of the constants. Paths below are relative to the
repository; the service's own code is in `src/`.

## The system

A REST API on Node: NestJS controllers call services, services call
repositories, repositories call Prisma, and Prisma sends SQL statements to
PostgreSQL. **The code opens no transaction**. A request is therefore a
sequence of statements, and between any two of them other requests
run, a statement may fail, or the process may die. A write is one Prisma call and
atomic, also one with a nested create (an expense with its splits, a group with its
first member): Prisma runs it in a transaction of its own. A read with `include` is
**not**: the client is generated without `relationJoins` (`schema.prisma:7-11`), so it
is one SELECT for the rows and one more for each relation, and a delete may come in
between. It matters in `findLatestByInstallmentPlanId`, whose splits closeCycle clones; of
what `findById` and `search` read, no decision looks at the splits.
The only state in memory is the cache of signing keys that each instance of
`KeycloakAuthGuard` keeps: `AuthGuard` has one, and the controller of API keys, which
names the class in `@UseGuards`, has another. There is no scheduler
and no message queue: everything starts with an HTTP request.

| Component | State | Operations | Calls | What must be right |
|---|---|---|---|---|
| Expenses (`src/expenses`) | `expenses`, `expense_splits`, `installment_plans` | create, create in installments, close-cycle, patch, delete, search | groups (membership), payment methods (owner, type) | a purchase is charged in the installments it was made for: no number skipped, the right amounts, never past the last, divided among the same people |
| Division of amounts (in `expenses.service.ts`) | none | `computeInstallmentAmount`, `buildSplits`, `scaleSplits`, `reconcileRoundingRemainder` | — | sums are exact in cents, installments positive |
| Payment methods | `payment_methods` | create, patch, delete, search, ownership checks | — | only the owner writes; deleted stays deleted; only CREDIT has a billing cycle, on days there are |
| Users | `users` | upsert on sign-in | groups (Personal group) | whoever is let in exists |
| Groups | `groups`, `group_members` | Personal group on sign-in, create, searches, membership | — | each user has a Personal group |
| API keys | `api_keys` | create, revoke, search, validate and touch | — | only the owner revokes; revoked keys open nothing, for good |
| Guards (`common/guards`) | a JWKS cache per instance of the guard | JWT or API key to user | users, API keys, Keycloak | a good token gets in and nothing else does; fetches are bounded |
| Pagination (`common/pagination`) | none | page, size, offset, total pages | — | no row missed or shown twice but by the writes of others |
| Case conversion (`common/case`, `common/interceptors`) | none | keys of bodies and answers | pipe, handler | every key at every depth, nothing lost |
| Error filter (`common/filters`) | none | exception to problem+json | — | every request is answered |
| Health, throttler, bootstrap | none of their own | order of what a request goes through | all of the above | the right guard on each route |
| Mappers, response DTOs | none | copies of rows | — | — |
| Keycloak | external | publishes and rotates signing keys | — | — |

What is hard here, and what the hazards of `PROJECT.json` list line by line:

- *stale reads*: close-cycle advances plans from what it read before its whole
  loop; patch and delete check a row an await before they write it;
- *torn reads*: close-cycle reads a row and its splits in two statements;
- *partial failure*: a plan without its first expense, an installment whose
  plan was not advanced, a user without a Personal group;
- *check then act*: the Personal group is looked for and then created;
- *legal sequences*: edits of the row that the next installment is cloned from;
- *rounding*: installments and splits in whole cents, each split scaled from
  another rounded split;
- *a cache shared by all requests of a guard*, dropped by any of them, an answer
  without keys stored in it, and a token that may end while the keys to verify it
  are fetched;
- *restarts* with requests in flight;
- *paging by position* while rows come, go and are patched to another date, with a
  count that is a statement of its own.

## Modules

| Module | Models | Lines of code |
|---|---|---|
| `InstallmentMath` | `computeInstallmentAmount` | `expenses.service.ts:377` |
| `Splits` | `buildSplits` and its strategies, `scaleSplits`, rounding | `expenses.service.ts:283–426` |
| `Expenses` | create, close-cycle, patch, delete, with the tables | `expenses.service.ts`, `expenses.repository.ts` |
| `ExpensesInvariant` | the inductive invariants of `Expenses` and of its serial use | |
| `Ledger` | abstract: what a purchase in installments promises | |
| `MethodTable` | abstract: what the table of payment methods promises whoever refers to it | |
| `ExpensesLedger` | the mappings from `Expenses` to `Ledger` and to `MethodTable` | |
| `PaymentMethods` | payment methods, with type and billing cycle | `payment-methods.service.ts` |
| `Access` | JWT and API key guards, users, Personal groups, API keys | `common/guards`, `users`, `groups`, `api-keys` |
| `SigningKeys` | verification of tokens and the JWKS cache of each guard | `keycloak-auth.guard.ts:41–134` |
| `CaseConversion` | `camelToSnakeDeep`, `snakeToCamelDeep` | `case-convert.util.ts` |
| `Exchange` | a request from throttler to error filter, around `SigningKeys` | `main.ts`, `app.module.ts`, `auth.guard.ts`, `case-conversion.interceptor.ts`, `problem-json.filter.ts`, `health.controller.ts` |
| `Search` | all five listings, the page helpers and a client that pages | `search` of the services, `pagination.util.ts` |
| `DivisionProofs` | theorems about `InstallmentMath` and `Splits` | |
| `ExpensesProofs`, `PartiesProofs`, `SerialProofs` | theorems about `Expenses`: its tables; whose rows they are; clients that wait for each answer | |
| `PaymentMethodsProofs`, `AccessProofs`, `ExchangeProofs`, `SearchProofs` | theorems about the module each is named for | |
| `MC…` | constants for TLC | |

`Expenses` extends `InstallmentMath` and `Splits`; `ExpensesInvariant`,
`ExpensesLedger` and `MCExpenses` extend one another in that order, so that
one set of constants serves all runs of the core. `Exchange` has `SigningKeys`
as the instance `Guard`, on variables of its own: its actions conjoin the
guard's. What the interceptor does to a value is an operator constant of it, for
which `MCExchange` gives the conversions of `CaseConversion`. Its two guards are the
`KeycloakAuthGuard` inside `AuthGuard` and the one of the controller of API keys.

**Why the core's view of payment methods is enough.** `Expenses` knows owner,
type and existence of a method and writes them in one step; the service reads
first and writes an await later (`PaymentMethods`). Both modules implement
`MethodTable` (`KeepsTable` in each): an id has one row, for good; the owner of
a row never changes; its type may, at any time; a row in use is not deleted.
So what the core does to methods and what the service does to them are both
within one contract. The converse, that the core may do all the service may, is read off
`PatchMethodType` and `DeleteMethod`, which have no guard but ownership, existence and
the foreign keys.

**How a module corresponds to the code.** A request is a process `r` with a
program counter `pc[r]`. An action is one statement on a table that changes,
with the synchronous code before and after it; what a request holds across an
`await` is in `body`, `todo`, `job` or `call`. Which statement an action is:

| Code | Actions of `Expenses` |
|---|---|
| `create`, checks | `CreateStart` |
| `createInstallmentPlan` | `InsertPlan` |
| `buildSplits`, `expensesRepository.create` | `InsertRow` |
| `closeCycle`: card check, `findActiveInstallmentPlans` | `CloseStart`, `ReadPlans` |
| loop: `findLatestByInstallmentPlanId` (row, then splits), `create`, `advanceInstallmentPlan` | `NextPlan`, `ReadSplits`, `InsertNext`, `Advance`, `CloseEnd` |
| `patch`: read and checks, method check, update | `PatchStart`, `CheckMethod`, `Update` |
| `delete`: read and checks, delete | `DeleteStart`, `Delete` |
| `PATCH`/`DELETE /payment-methods/:id`, seen from here | `PatchMethodType`, `DeleteMethod` |
| a failed statement or a crash | `Abort` |

Reads of groups and memberships are folded into the action next to them: no
endpoint changes a group or its members once it exists. A row's id is the
request that made it (and the plan it is for), so ids are unique by
construction, as UUIDs are. `issued` is a history variable: every installment
row ever inserted, deleted ones included.

`PaymentMethods` has what `Expenses` sees as one atomic step as it is, a read
and a write; in it, references from expenses come and go freely (`Refer`,
`Release`). `Access` has the guards and what is behind them; `before` is a
history variable that says whether, when the request came, its key was already
revoked or its user had a Personal group. A key comes first (`ArriveWithKey`) and is
looked up a step later (`FindKey`), so that it may be revoked in between, and again
between the lookup, the record of its use and the handler. In `SigningKeys` all code
from the answer of one fetch to the next fetch, or to `jwt.verify`, is one
action: two answers come
on two sockets, and Node drains the continuations of one before it turns to the
other, so nobody drops the cache between a refresh and the lookup after it. A cache
that is too old is read no more and counts as none. `NoKeys` is what an answer in JSON
without keys leaves in it: each lookup then throws until the cache is too old;
`fetches` and `steady` are history. A token is `genuine` or not, and `expired` from
some moment on. In `CaseConversion` a key is the sequence of its words, each with the
mark it begins with (none, `_` or a hump), which is what both conversions look
at. It is the one module with `RECURSIVE` operators, so no theorem can be about
it; that is why `Exchange` takes the conversions as constants. In
`Exchange` a request goes through `stage`s; what the sign-in and the handlers do
is in the other modules, and here only how they end: with a result or a throw.
In `Search` a row has a place in the order of the listing, for expenses its date, and
a kind, which stands for what the other filters of `buildWhere` look at: category,
payment method and currency. `PATCH /expenses/:id` may change both (`PatchRow`). The page
the database returns is cut from the rows each at its `Rank`, the number of matching rows
up to it. `since`, `came`, `went` and `slipped` are history: the rows listed all along,
how often a row came to a place of the listing or left one, and how many rows it gained
between the count and the page of the search under way.

Each module also has a few operators marked *Mistake*. Nothing uses them: each
is a plausible slip in the operator or action next to it, and substituting it
there makes the property named in `PROJECT.json` fail. That is the evidence
that the property depends on that code.

## Runs

| Run | Asks | Result |
|---|---|---|
| `interleaved` | four requests of any kind in every interleaving, each possibly cut short, methods patched and deleted on the way: `TypeOK`, `PlanProgress`, `ChargesMatchPlan`, `NoGaps`, `RowsAsCharged`, `OneParty`, `MethodInGroup`, `InstallmentSplitsAddUp`, and the refinement `KeepsTable` | hold |
| `serial` | five requests one after the other, none failing: `Settled`, `SameDivision`, `NeverGoesBack`, and the refinement `KeepsLedger` | hold |
| `liveness` | every request ends (`RequestsEnd`, under `FairSpec`); with shares of just over 100 %, `NegativeOnlyByTolerance` | hold |
| `methods` | four requests: `OnlyOwnerWrites`, `CycleFollowsType`, `BadDayNeedsNoType`, and the refinement `KeepsTable` | hold |
| `access` | three requests: `AdmittedHavePersonal`, `NoLaterPersonal`, `RevokedNotAdmitted`, `RevokedForGood`, `OnlyOwnerRevokes`, `EmailOnlyByOwner` | hold |
| `exchange` | two whole requests, two guards, two keys, a rotation, restarts, failing fetches, answers without keys: `GoodTokenGetsIn`, `TwoFetchesAtMost`, `HandledIsAdmitted`, `BodyIsUnderstood`, `WireIsSnake`, `EveryoneAnswered` | hold; the last under `FairSpec` |
| `pages` | six rows at eight places, ten queries on the five listings: `MissedOnlyByWrites`, `RepeatedOnlyByWrites`, `OnlyOwn` | hold |
| `orphan` | closeCycle finds a row for every active plan (`PlanHasRow`) | violated |
| `credit` | installment plans are on CREDIT methods (`PlansOnCredit`) | violated |
| `patched_splits` | the splits of a shared expense add up (`SplitsAddUp`) | violated |
| `retried_close` | a purchase is never charged more than its total (`NeverOvercharged`) | violated |
| `two_personal` | one Personal group per user (`OnePersonalGroup`) | violated |

**Bounds, and why they are enough.** A request is used once, so the number of
requests bounds the behaviour.

- *Core.* Two plans or a plan and two closes and an edit need four requests;
  a purchase in three installments has a first, a middle and a last one, and
  7 in 3 rounds (2, 2, 3). The close that runs past the end, the two that
  overlap, the patch and the delete between read and clone or between a row and its
  splits, and the crash between insert and advance all occur within four. `serial` has five: a
  purchase, the two closes that complete it, one more that finds nothing and
  an edit, with a purchase of 10 in 3 shared two to one, whose splits
  round at every clone. `liveness` has three requests,
  because symmetry is not sound for it, and a purchase of 60000 in 3: large
  enough that the tolerance of 0.01 % is some cents.
- *Bodies.* One for each case the code tells apart: shared or Personal group,
  each split strategy, installments or none, a count too high for the amount,
  a percentage sum off by less than the tolerance, a member, an owner, and a
  stranger.
- *Access.* Three requests: one that makes a key, one that revokes it, one
  that uses it, before, during or after; or three sign-ins of two users, one with the other's email.
- *Payment methods.* Four requests: a card, and three patches or deletes of it
  in any order; a day there is and one no month has.
- *Exchange.* A request and another that drops its cache, at the same guard or at the
  other; one rotation takes a key away, brings one or both. `MaxRotations` and `FetchBound` are the module's
  named bounds; `FetchBound` is one more than the property allows. The calls
  are every kind of credential on every kind of route, and bodies in
  snake_case, in camelCase, in both, and with a key no DTO has; bodies and
  answers nest three deep, through arrays.
- *Search.* Six rows, with free places before, between and after those that are there;
  sizes 1, 2, default and over the maximum (3): first,
  middle, last full and last partial page; a query by kind and by date, so that a patch
  takes rows into the listing and out of it. `MaxWrites` is two: two rows in
  between one count and its page, or two rows moved, before a page and behind it.

Requests are symmetric model values where what is checked are invariants,
action properties `[][A]_vars`, and `KeepsLedger` and `KeepsTable`, which have no
fairness either; runs with a liveness property, and `exchange`, use no symmetry. A system
whose requests have all ended stops, hence `CHECK_DEADLOCK FALSE`.

**Fairness.** `FairSpec` is weak fairness of each request's own steps, in
`Expenses` and `Exchange`. The code justifies it: Node runs a continuation
once its promise settles, Prisma settles every statement (an answer or an
error; an error is `Abort`, which is not forced to happen), and `fetch` settles
with an answer or a failure. No fairness is assumed for the arrival of requests,
for `Abort` and restarts, or for expiry and rotation of keys. A request that a
restart takes away is `lost`: its client sees the connection close. Nothing in
the code blocks on another request, so weak fairness is enough.

## What the checks show

*Held, though a test would hardly reach it.* However closeCycle requests,
edits and failures interleave, a plan never passes its last installment and
`completed` always agrees with its number, because number and flag are written
together from one snapshot. An installment may be charged **twice** when
closes overlap (the doc of `closeCycle` says it is not idempotent), but never
with a wrong amount and never with a gap before it; a slow close can set a plan
back, and even then the plan is never ahead of what it charged. Clones stay
with the group and creator of the purchase, and their splits add up, with one
exception: a row that is deleted after closeCycle read it and before it read its splits
is cloned without any, and the next installments of that shared purchase are
charged to nobody in particular (`InstallmentSplitsAddUp` says that it takes such a
delete, and that nobody's splits are ever wrong in part). For a
client that waits, installments of the same amount are also divided alike
(`SameDivision`): rounding does not pile up along the chain of clones. It is
a property of serial use, whether requests are cut short or not: a close that
overlaps may scale from the last, larger row.

A percentage sum just over 100 makes the last split negative by at most the
tolerance, so by a ten-thousandth of the amount (`NegativeOnlyByTolerance`).

Sign-ins write the email of whatever token they carry, and no order of them gives
two users the same one or changes another's (`EmailOnlyByOwner`); whoever comes
with an email somebody else has is refused.

A client that reads all pages misses at most one row for each row that left a place
of the listing meanwhile, deleted or patched to another date or out of the filter, and for
each that slipped in between the count and the page of its last search. It
sees again at most one for each that came to a place, inserted or patched. A
single patch of a date can do both: move a row nobody will see to a page the client
has read, and push the last row of that page onto the next.

A good token is called bad by no race on a cache, restart or rotation of other keys;
one that ends during the fetch of the keys is refused. An answer without keys is
kept for as long as any, and for that time every token ends in a 500. Nothing but a key on a
business route, or a good token, comes as far as the pipe. A body in
either case reaches its DTO, with every key at every depth.

*Findings*, each with a run that shows it:

1. `orphan`: `createWithInstallments` inserts the plan before `buildSplits`
   validates the body. A refused purchase leaves an active plan with no row.
2. `credit`: creating a purchase in installments asks only who owns the
   method; plans end up on methods that close-cycle refuses for good.
3. `patched_splits`: patching the amount of a shared expense leaves its
   splits as they were.
4. `retried_close`: a close cut short after its insert charges that
   installment again when it is retried, and the purchase exceeds its total.
5. `two_personal`: `ensurePersonalGroupFor` is not idempotent under overlap.

*Against the docs, and delimited by a property*: the days of a billing cycle are
"día del mes, solo para CREDIT" (`schema.prisma:77-78`), from 1 to 31 in
`create-payment-method.dto.ts:22`. A patch of a method writes both days from the row it
read, so it can leave a cycle on a method that is no longer CREDIT
(`CycleFollowsType` shows that this race is the only way); and the days of a patch are
not validated unless it repeats the type, so day 99 can reach a card
(`BadDayNeedsNoType` shows that nothing else lets one in).

*Seen while reading, in no doc and so not a run*: patching the payment method
of an installment moves the row and later clones, not the plan; of two keys of a body that become the same the last one wins; an
older token that is used later takes the user's email back.

## Proofs

Every safety property of the runs but `WireIsSnake` is also a theorem, for any number of requests,
users, groups, keys, rows and amounts. All leaves are checked. What is assumed is named where it is
used: of the constants, that they have their types and that nulls differ from
values (`ConstantsAssumption`, `MethodConstants`, `AccessConstants`,
`KeysConstants`, `ExchangeAssumption`, `SearchAssumption`, the three
`NullsAssumption`); in `Search` also that the default size is no larger than the
largest, as 20 and 100 are. TLC evaluates all of them in the runs. Two
theorems about serial use, `PlansAreSettled` and `ExpensesKeepLedger`, have the
hypothesis `MayFail = {}`: no request is cut short. The run `serial` checks them
under it, and `retried_close` shows that they are false without. `BodiesAreUnderstood`
has as hypothesis what the case conversions do to single values: they leave a DTO
as it is and bring it back from snake_case.

| Module | Theorems | Argument |
|---|---|---|
| `DivisionProofs` | `InstallmentsAddUp`, `InstallmentsArePositive`, `BuiltSplitsAddUp`, `ScaledSplitsAddUp`, `BuiltSplitsNearlyPositive`, `ScaledSplitsNearlyPositive`, `ScaledToItself` | sums by induction on the index; what `Reconcile` gives the last split is what the sum lacks |
| `ExpensesProofs` | `TypeOK`, `PlanProgress`, `ChargesMatchPlan`, `RowsAsCharged`, `NoGaps`; no two rows have one id | `IInv`, and `IdsInv` relative to it |
| `PartiesProofs` | `OneParty`, `MethodInGroup`, `InstallmentSplitsAddUp`, `NegativeOnlyByTolerance`; `Expenses` implements `MethodTable` | `PartiesInv` and `UsedExist`, relative to `IInv`; `SplitsInv`, relative to these and `IdsInv` |
| `SerialProofs` | `NeverGoesBack`, `SameDivision`; without failures `Settled`, and `Expenses` implements `Ledger` | `SerialInv`, `DivisionInv`, `ChargedInv`, relative to both |
| `PaymentMethodsProofs` | `TypeOK`, `OnlyOwnerWrites`, `CycleFollowsType`, `BadDayNeedsNoType`; `PaymentMethods` implements `MethodTable` | `OwnersInv` |
| `AccessProofs` | `TypeOK`, `AdmittedHavePersonal`, `NoLaterPersonal`, `RevokedNotAdmitted`, `OnlyOwnerRevokes`, `RevokedForGood`, `EmailOnlyByOwner` | `KeysInv` and what a request knows at each step |
| `ExchangeProofs` | `TypeOK`, `GoodTokenGetsIn`, `TwoFetchesAtMost`, `HandledIsAdmitted`; given the conversions, `BodyIsUnderstood`; `Exchange` implements `SigningKeys` | `GuardInv`, `ExchangeInv`, `OpenInv` |
| `SearchProofs` | `TypeOK`, `MissedOnlyByWrites`, `RepeatedOnlyByWrites`, `OnlyOwn` | `SearchInv` |

*The tables of the core* (`IInv`). The properties of the tables are not inductive:
a request acts on what it read some steps ago. `IInv` adds what is still true of
that when it acts. The central part is `StillTrue(s)`: a snapshot of a plan is
stale in nothing but its current installment, because total and count never
change, and `s.current < s.count`, because only active plans were read. So the
number that is written, `s.current + 1`, is one the plan has, whatever others
wrote meanwhile. `IsCharged(s.plan, s.current)` says that the installment before
the one a request is about to insert was charged, and stays so because `issued`
only grows. There is one lemma per action, and two general ones: a step that leaves
a request's own state alone keeps its `RequestInv` as long as `issued` grows
and plans keep total and count; an insert keeps the tables.

*Whose the rows are* (`PartiesInv`). A clone copies a row that may be gone by the
time it is inserted, and a patch writes to whichever row has the id it checked.
So what is said of the rows of the table is said of the rows that closeCycle
holds too (`Known`), and of those a patch may still reach. `Kin` relates the
installments of one purchase; a new row is an heir of a known one (`HeirsKeep`),
or is kin to none because nothing refers to a request that has not inserted yet.
For `MethodTable` the foreign keys (`UsedExist`) are inductive, and
each statement maps to one action of it or to a stutter.

*How the rows are divided* (`SplitsInv`). closeCycle looks the splits up by the id of a
row it read before. What it finds are the splits of that row, because ids never
come back: no request charges a plan twice (`IdsInv`). So what it clones is divided as
the row was, or is without splits because the row is gone, and then it is gone for
good (`Lost`). An heir is divided because `scaleSplits` gives exactly the new amount, and
is short by no more than its source (`NegativeOnlyByTolerance`), by the lemmas of
`DivisionProofs`.

*A client that waits* (`SerialInv`). One request at most is under way, and it takes
a plan from its list before it writes to it, so what it read is true when it
writes (`Fresh`), and what it clones is the plan's latest row. That holds even
if requests are cut short. `DivisionInv` adds that a plan is at most one behind
what it charged: an installment equal to an earlier one is then cloned from an
equal one, and to scale a division to its own amount changes nothing
(`ScaledToItself`). If no request is cut short, the numbers 1 to n of a plan are
charged, each once, where n is its current installment or the one a close is
just advancing to (`ChargedInv`). `ChargesAddUp` turns that into the sum that
`Ledger` remembers: each statement maps to `Open`, to `Charge` or to a stutter.

*Payment methods.* A write comes an await after the check of the owner. It still
finds that owner there because an id is given once, by a request that is over
then (`GivenInv`), and because what was read agrees with the owner of the row as
long as there is a row.

*Access.* The guard of a key makes no group, so that everybody it lets in has one
rests on where keys come from: only a request that was let in with a JWT makes
one, after its user got a group. `KeysInv` says so of every key.

*The guard and the request.* Nothing is known of a cache itself, which any
request drops and any answer fills. `GuardInv` says what a request has spent and
may still spend, and that the answer to its last fetch is no older than the
request; so a token whose key stays published is found in it, if it names keys at
all. `ExchangeInv`
ties the stage of a request to what its guard found. `OpenInv` says that a request
on its way holds no answer yet: only the pipe takes it from there.

*Search.* A client that asked for some pages has passed a number of places of the
listing. Rows that stayed and lie behind unseen are at most as many as left
a place; rows that were seen and lie ahead again, with those already shown
twice, at most as many as came to one. A write takes a row from its place, which puts
at most one behind, and puts it at another, which puts at most one ahead again: a
patch does both, an insert and a delete one of them. A page moves
just the rows at its places (`SliceHolds`). The client stops where it has passed as
many places as were counted; what lies further on slipped in after that count.

*Only model-checked*:

- liveness under fairness, `RequestsEnd` and `EveryoneAnswered`, which the prover
  cannot do;
- that the recursive conversions of `CaseConversion` are such as
  `BodiesAreUnderstood` supposes, and what they do to a result at every depth
  (`WireIsSnake`): an induction over values
  that the installed provers cannot make. `exchange` runs the bodies and results
  of its configuration through them;
- the counterexamples of the runs that expect one.

## What is abstracted

- Amounts are integers in cents; `Int` columns of 32 bits and doubles past 2^53
  are not modelled. Percentages are integers in thousandths of a percent; the
  code adds doubles, so a sum off by the tolerance of 0.01 exactly may go
  either way there. ROMANA amounts are whole cents.
- Dates, currency, category, description and names are left out of `Expenses`; no state
  change depends on them. `Search` has what a listing sees of them, a place and a kind. A PATCH field is absent or a value, never null.
- A nested create writes the splits in order, and reads are taken to return
  them in that order, which decides who gets the remainder of a scaled split.
- closeCycle takes its plans in any order; ties for the latest row (after an
  installment was charged twice) are broken in any way.
- `upsert` by primary key is one `INSERT … ON CONFLICT`.
- The secret of an API key is its row's id; a JWT in `Access` is already
  verified.
- Requests for rows that do not exist, which change nothing, are left out
  where the refusal of a stranger already is that outcome.
- The throttler refuses any request: how it counts is the library's. Which
  throw a database or a handler ends in is any of a few kinds; the wording, type
  and title of a problem are left out.
- `jsonwebtoken` is two facts of a token, genuine and expired.

*Not modelled*: mappers and response DTOs (stateless copies of rows); what each
validator accepts, except as the bodies of the models respect it; helmet,
Swagger, dependency injection and deployment; `RecurringTemplate`, `CardStatement`
and `StatementItem`, tables no code uses yet.

## Plan

Done: the modules, runs and theorems above; every component with state or
control of its own is modelled, and every safety property a proof can reach is
proved. What could still be proved, in this order:

1. The hypothesis `MayFail = {}` of `PlansAreSettled` is stronger than needed for a
   plan that no request was cut short on: a `Settled` of single plans.
2. A step-by-step mapping of the guards of `Access` to the two ways in that
   `Exchange` abstracts them to.
