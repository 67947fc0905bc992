----------------------------- MODULE MCExchange -----------------------------
(***************************************************************************)
(* Constants for model checking Exchange: a good token, one of a key that  *)
(* is not published yet, a forged one and one that names no key; a purchase*)
(* as its DTO says it, on the wire, and misspelled.                        *)
(***************************************************************************)
EXTENDS Exchange, CaseConversion

CONSTANTS k1, k2

MCKeys == {k1, k2}
MCInitialKeys == {k1}

Token(kid, genuine) == [kid |-> kid, genuine |-> genuine]
Good == Token(k1, TRUE)
New == Token(k2, TRUE)
MCTokens == {Good, New, Token(k1, FALSE), Token(NoKid, FALSE)}

\* A key of one word, or of a second one behind a hump or an underscore.
Plain(word) == << [mark |-> "none", word |-> word] >>
Two(word, mark, next) == Plain(word) \o << [mark |-> mark, word |-> next] >>

List(items) == [kind |-> "array", of |-> items]
Object(fields) == [kind |-> "object", of |-> fields]
Field(key, value) == [key |-> key, value |-> value]

\* { groupId, paymentMethodId, splitMembers: [{ userId, amount }] }
Purchase(mark) ==
    Object(<< Field(Two("group", mark, "id"), Scalar),
              Field(Two("payment", mark, "method")
                      \o << [mark |-> mark, word |-> "id"] >>, Scalar),
              Field(Two("split", mark, "members"),
                    List(<< Object(<< Field(Two("user", mark, "id"), Scalar),
                                      Field(Plain("amount"), Scalar) >>) >>)) >>)
\* The same group said in both cases, and a key no DTO has.
BothCases == Object(<< Field(Two("group", "_", "id"), Scalar),
                       Field(Two("group", "hump", "id"), Scalar) >>)
Misspelled == Object(<< Field(Two("group", "_", "2"), Scalar) >>)
MCDtos == {Purchase("hump")}

\* { data: [{ userId, createdAt }], meta: { totalPages } }, [{ userId, createdAt }].
Row(mark) == Object(<< Field(Two("user", mark, "id"), Scalar),
                       Field(Two("created", mark, "at"), Scalar) >>)
MCResults == {Object(<< Field(Plain("data"), List(<< Row("hump"), Row("hump") >>)),
                        Field(Plain("meta"),
                              Object(<< Field(Two("total", "hump", "pages"), Scalar) >>)) >>),
              List(<< Row("hump") >>)}

MCErrors == {Prisma("P2002", "unique constraint"), Other("connection string")}

Sent(route, by, t, body) == [route |-> route, by |-> by, token |-> t, body |-> body]
MCCalls ==
    {Sent("health", "none", NoToken, Scalar),
     Sent("business", "none", NoToken, Scalar),
     Sent("apiKeys", "key", NoToken, Scalar),
     Sent("business", "jwt", Good, Purchase("_")),
     Sent("business", "jwt", New, Scalar)}
    \cup {Sent("business", "key", NoToken, body) :
             body \in {Purchase("hump"), BothCases, Misspelled}}
    \cup {Sent("apiKeys", "jwt", t, Scalar) : t \in MCTokens \ {Good}}
=============================================================================
