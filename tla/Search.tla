------------------------------- MODULE Search -------------------------------
(***************************************************************************)
(* The paged listings of the service: expenses, groups, the members of a   *)
(* group, payment methods and API keys, with the helpers of                *)
(* common/pagination they share and a client that reads one page after     *)
(* the other while rows come, go and move.                                 *)
(*                                                                         *)
(* Expenses are listed by a date that a patch may change, and filtered by  *)
(* what a patch may change too.  Each row has a place in the order of its  *)
(* listing and a kind, which is what the filters but the one by date tell  *)
(* apart.                                                                  *)
(*                                                                         *)
(* A search is two statements sent together, the page and the count: they  *)
(* run one after the other in either order, and writes may run in between. *)
(***************************************************************************)
EXTENDS Integers, FiniteSets, Sequences, Functions

CONSTANTS
    Rows,                \* of the table that is listed
    GroupOf, OwnerOf,    \* the group and the user each row refers to
    Places, Kinds,       \* naturals, in the order of the listing; what filters tell apart
    Initial,             \* the tables a client may find
    User, Members,       \* who searches, and the users of each group
    Queries,             \* [list, group, kinds, dates, size]; NoGroup and 0 are absent
    DefaultSize, MaxSize,
    MaxWrites,           \* bound: how many rows are written while the client reads
    NoGroup, NoQuery, NoData, NoCount

VARIABLES
    table,               \* the place and the kind of each row there is
    query,               \* what the client sends with every page
    page,                \* the page it asks for, 0 before it begins
    data, count,         \* what the two queries of this search returned
    shown,               \* the rows of all pages so far, in order
    done,                \* the client has the last page
    writes,              \* how many rows were written since it began
    since,               \* history: the rows that are listed since it began
    came, went,          \* history: how often a row came to a place of the listing, and
                         \* left one, since it began
    slipped              \* history: how many rows the listing gained after the count of
                         \* this search and before its page

history == <<since, came, went, slipped>>
vars == <<table, query, page, data, count, shown, done, writes, history>>

-----------------------------------------------------------------------------

Groups == DOMAIN Members
Lists == {"expenses", "groups", "members", "paymentMethods", "apiKeys"}

\* Memberships come with their group and stay; only two tables lose rows.  Only
\* expenses are listed by a date that the client chose, and may choose again.
Inserted == Lists \ {"members"}
Deleted == {"expenses", "paymentMethods"}
Patched == {"expenses"}
ByCreation == Lists \ {"expenses"}

Entry == [place : Places, kind : Kinds]
IsTable(t) ==
    /\ DOMAIN t \subseteq Rows /\ t \in [DOMAIN t -> Entry]
    /\ \A e, f \in DOMAIN t : t[e].place = t[f].place => e = f

ASSUME SearchAssumption ==
    /\ GroupOf \in [Rows -> Groups]
    /\ Places \subseteq Nat
    /\ \A t \in Initial : IsTable(t) /\ IsFiniteSet(DOMAIN t)
    /\ NoGroup \notin Groups
    /\ MaxWrites \in Nat
    /\ DefaultSize \in Nat \ {0} /\ MaxSize \in Nat /\ DefaultSize <= MaxSize
    /\ Queries \subseteq [list : Lists, group : Groups \cup {NoGroup},
                          kinds : SUBSET Kinds, dates : SUBSET Places, size : Nat]
    /\ \A q \in Queries : q.list = "members" => q.group # NoGroup

ASSUME NullsAssumption ==
    /\ NoQuery \notin Queries
    /\ NoData \notin Seq(Rows)
    /\ NoCount \notin [total : Nat]

\* Mistake: the group that is asked for is not checked.
GroupsAsked(q) ==
    IF q.group = NoGroup THEN {g \in Groups : User \in Members[g]} ELSE {q.group}
GroupIds(q) ==
    {g \in Groups : User \in Members[g] /\ q.group \in {g, NoGroup}}

\* assertMembership, when a group is named.
MayList(q) == q.group = NoGroup \/ GroupIds(q) # {}

\* Mistake: the client may ask for any size.
SizeAsAsked(size) == IF size = 0 THEN DefaultSize ELSE size
NormalizeSize(size) ==
    IF size = 0 THEN DefaultSize ELSE IF size < MaxSize THEN size ELSE MaxSize

\* Mistake: pages are skipped where rows should be.
PagesSkipped(p, size) == p - 1
OffsetFor(p, size) == (p - 1) * size

\* Mistake: a last page that is not full is not counted.
FullPages(total, size) == total \div size
TotalPages(total, size) == (total + size - 1) \div size

\* What each search asks of a row.
ExpensesWhere(q, e, entry) ==
    /\ GroupOf[e] \in GroupIds(q)
    /\ entry.kind \in q.kinds
    /\ entry.place \in q.dates
GroupsWhere(e) == User \in Members[GroupOf[e]]
MembersWhere(q, e) == GroupOf[e] = q.group
MethodsWhere(e) == OwnerOf[e] = User
KeysWhere(e) == OwnerOf[e] = User

Matches(q, e, entry) ==
    CASE q.list = "expenses"       -> ExpensesWhere(q, e, entry)
      [] q.list = "groups"         -> GroupsWhere(e)
      [] q.list = "members"        -> MembersWhere(q, e)
      [] q.list = "paymentMethods" -> MethodsWhere(e)
      [] q.list = "apiKeys"        -> KeysWhere(e)
Matching(q) == {e \in DOMAIN table : Matches(q, e, table[e])}

\* The rows S of a table t in the order of the listing: each comes where the number
\* of the rows up to it says.
Rank(t, S, e) == Cardinality({f \in S : t[f].place <= t[e].place})
InOrder(t, S) == [i \in 1..Cardinality(S) |-> CHOOSE e \in S : Rank(t, S, e) = i]

\* findMany with where, orderBy, skip and take.
Slice(s, skip, take) ==
    SubSeq(s, skip + 1, IF skip + take < Len(s) THEN skip + take ELSE Len(s))
PageOf(q, p) ==
    LET size == NormalizeSize(q.size)
    IN  Slice(InOrder(table, Matching(q)), OffsetFor(p, size), size)

-----------------------------------------------------------------------------

Init ==
    /\ table \in Initial
    /\ query = NoQuery
    /\ page = 0
    /\ data = NoData /\ count = NoCount
    /\ shown = << >>
    /\ done = FALSE
    /\ writes = 0
    /\ since = {}
    /\ came = 0 /\ went = 0 /\ slipped = 0

\* A group the user is not in is refused (404 or 403); the client then has nothing.
Begin ==
    /\ page = 0 /\ ~done
    /\ \E q \in Queries :
          /\ query' = q
          /\ IF MayList(q)
             THEN /\ page' = 1
                  /\ since' = Matching(q)
                  /\ UNCHANGED done
             ELSE done' = TRUE /\ UNCHANGED <<page, since>>
    /\ UNCHANGED <<table, data, count, shown, writes, came, went, slipped>>

Reading == page > 0 /\ ~done

FindMany ==
    /\ Reading
    /\ data = NoData
    /\ data' = PageOf(query, page)
    /\ UNCHANGED <<table, query, page, count, shown, done, writes, history>>

Count ==
    /\ Reading
    /\ count = NoCount
    /\ count' = [total |-> Cardinality(Matching(query))]
    /\ UNCHANGED <<table, query, page, data, shown, done, writes, history>>

\* buildSearchResponse, and the client's turn: it stops at meta.totalPages.
Respond ==
    /\ data # NoData /\ count # NoCount
    /\ shown' = shown \o data
    /\ data' = NoData /\ count' = NoCount
    /\ IF page < TotalPages(count.total, NormalizeSize(query.size))
       THEN page' = page + 1 /\ slipped' = 0 /\ UNCHANGED done
       ELSE done' = TRUE /\ UNCHANGED <<page, slipped>>
    /\ UNCHANGED <<table, query, writes, since, came, went>>

\* The row e is written while the client reads: it leaves its place if it is listed,
\* and comes to a place if it is listed with what is written, Gone if it is deleted.
Gone == [deleted |-> TRUE]
Write(e, entry) ==
    LET was == e \in Matching(query)
        is == entry # Gone /\ Matches(query, e, entry)
    IN  /\ writes < MaxWrites
        /\ table' = [f \in IF entry = Gone THEN DOMAIN table \ {e} ELSE DOMAIN table \cup {e} |->
                        IF f = e THEN entry ELSE table[f]]
        /\ writes' = writes + 1
        /\ since' = IF is THEN since ELSE since \ {e}
        /\ went' = IF was THEN went + 1 ELSE went
        /\ came' = IF is THEN came + 1 ELSE came
        /\ slipped' = IF is /\ ~was /\ count # NoCount /\ data = NoData
                      THEN slipped + 1 ELSE slipped
        /\ UNCHANGED <<query, page, data, count, shown, done>>

Free == Places \ {table[f].place : f \in DOMAIN table}

InsertRow ==
    /\ Reading /\ query.list \in Inserted
    /\ \E e \in Rows \ DOMAIN table, entry \in [place : Free, kind : Kinds] :
          /\ query.list \in ByCreation =>
                \A f \in DOMAIN table : entry.place < table[f].place
          /\ Write(e, entry)

\* PATCH /expenses/:id: the date, and with it the place, the category, the currency
\* and the payment method.
PatchRow ==
    /\ Reading /\ query.list \in Patched
    /\ \E e \in DOMAIN table :
          \E entry \in [place : Free \cup {table[e].place}, kind : Kinds] :
             Write(e, entry)

DeleteRow ==
    /\ Reading /\ query.list \in Deleted
    /\ \E e \in DOMAIN table : Write(e, Gone)

Next == Begin \/ FindMany \/ Count \/ Respond \/ InsertRow \/ PatchRow \/ DeleteRow

Spec == Init /\ [][Next]_vars

-----------------------------------------------------------------------------

\* What the client and the queries know is of the right kind, and no page is
\* larger than the largest, whatever size is asked for.
TypeOK ==
    /\ IsTable(table)
    /\ query \in Queries \cup {NoQuery}
    /\ page \in Nat
    /\ data # NoData => data \in Seq(Rows) /\ Len(data) <= MaxSize
    /\ count \in [total : Nat] \cup {NoCount}
    /\ shown \in Seq(Rows)
    /\ since \subseteq Rows
    /\ done \in BOOLEAN
    /\ writes \in 0..MaxWrites /\ came \in 0..writes /\ went \in 0..writes
    /\ slipped \in 0..came

\* A client that reads every page misses no more of the rows that were listed all
\* along than left a place on the way, deleted or patched, or slipped in between the
\* count and the page of the last search: each of these moves one row out of sight.
MissedOnlyByWrites ==
    done => Cardinality(since \ Range(shown)) <= went + slipped

\* It sees no more rows a second time than came to a place on the way, inserted or
\* patched.
RepeatedOnlyByWrites ==
    Len(shown) - Cardinality(Range(shown)) <= came

\* No page ever shows an expense, a group or a member of a group the user is not
\* in, nor a payment method or a key of somebody else.
OnlyOwn ==
    \A i \in DOMAIN shown :
        IF query.list \in {"paymentMethods", "apiKeys"}
        THEN OwnerOf[shown[i]] = User
        ELSE User \in Members[GroupOf[shown[i]]]
=============================================================================
