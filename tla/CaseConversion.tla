--------------------------- MODULE CaseConversion ---------------------------
(***************************************************************************)
(* How the keys of a JSON value change between the wire, snake_case, and   *)
(* the code, camelCase: common/case.                                       *)
(*                                                                         *)
(* A key is the sequence of its parts, each a word and the mark it begins  *)
(* with: "_", a hump (a capital letter) or none.  An object is a sequence  *)
(* of fields, in the order of Object.entries; what is neither a plain      *)
(* object nor an array (a Date, a Buffer, null) is a scalar.               *)
(***************************************************************************)
EXTENDS Naturals, Sequences, SequencesExt

CONSTANTS DigitWords      \* the words that begin with a digit

Scalar == [kind |-> "scalar"]

\* toLowerCase and toUpperCase tell no digit from another: only a letter makes a hump.
camelToSnakeKey(key) ==
    [i \in DOMAIN key |->
        [key[i] EXCEPT !.mark = IF @ = "hump" THEN "_" ELSE @]]

\* Mistake: a replace without its /g.
FirstToCamel(key) ==
    [i \in DOMAIN key |->
        [key[i] EXCEPT !.mark =
            IF @ = "_" /\ \A j \in 1..i - 1 : key[j].mark # "_" THEN "hump" ELSE @]]
snakeToCamelKey(key) ==
    [i \in DOMAIN key |->
        [key[i] EXCEPT !.mark =
            IF @ # "_" THEN @
            ELSE IF key[i].word \in DigitWords THEN "none" ELSE "hump"]]

ConvertKey(key, case) ==
    IF case = "snake" THEN camelToSnakeKey(key) ELSE snakeToCamelKey(key)

\* Of the fields whose keys become the same, the last one stays.
LastOfEach(fields) ==
    LET kept == {i \in DOMAIN fields :
                    \A j \in DOMAIN fields : fields[j].key = fields[i].key => j <= i}
    IN  [n \in 1..Cardinality(kept) |-> fields[SetToSortSeq(kept, <)[n]]]

\* Mistake: only the keys of the outermost object are converted.
ShallowConvert(value, case) ==
    IF value.kind # "object" THEN value
    ELSE [value EXCEPT !.of =
             LastOfEach([i \in DOMAIN @ |->
                            [@[i] EXCEPT !.key = ConvertKey(@, case)]])]

RECURSIVE deepConvert(_, _)
deepConvert(value, case) ==
    CASE value.kind = "scalar" -> value
      [] value.kind = "array"  ->
            [value EXCEPT !.of = [i \in DOMAIN @ |-> deepConvert(@[i], case)]]
      [] value.kind = "object" ->
            [value EXCEPT !.of =
                LastOfEach([i \in DOMAIN @ |->
                    [key |-> ConvertKey(@[i].key, case),
                     value |-> deepConvert(@[i].value, case)]])]

camelToSnakeDeep(value) == deepConvert(value, "snake")
snakeToCamelDeep(value) == deepConvert(value, "camel")

-----------------------------------------------------------------------------

\* The keys of a value, at every depth.
RECURSIVE KeysIn(_)
KeysIn(value) ==
    CASE value.kind = "scalar" -> {}
      [] value.kind = "array"  -> UNION {KeysIn(value.of[i]) : i \in DOMAIN value.of}
      [] value.kind = "object" ->
            UNION {{value.of[i].key} \cup KeysIn(value.of[i].value) :
                     i \in DOMAIN value.of}

IsSnake(key) == \A i \in DOMAIN key : key[i].mark # "hump"
=============================================================================
