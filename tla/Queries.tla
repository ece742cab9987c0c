-------------------------------- MODULE Queries --------------------------------
(***************************************************************************)
(* The query of a URL: how Request::PushParam (src/request.cpp) writes a   *)
(* list of parameters into it, how RequestBase::Queries                    *)
(* (src/request_base.cpp) reads it, and how Query<T> converts a value.     *)
(*                                                                         *)
(* A text is a sequence of tokens.  The characters "&", "=", ",", "+", the *)
(* blank and the brackets "[]" are tokens, each has an escaped form, "-"   *)
(* and the digits are tokens, and any other token stands for some text     *)
(* without them that no conversion changes.                                *)
(***************************************************************************)
EXTENDS Integers, SequencesExt

CONSTANTS
    KeyOrder,   \* the keys of parameter lists, in the order of std::map
    IntMax      \* the largest int

ASSUME KeyAssumption == KeyOrder \in Seq(Seq(STRING))
ASSUME IntAssumption == IntMax \in Nat

Escapes == {<<"&", "%26">>, <<"=", "%3D">>, <<",", "%2C">>, <<"[]", "%5B%5D">>,
            <<"+", "%2B">>, <<" ", "%20">>}

\* What the provers do not know of a literal.
ASSUME TokensAreStrings == \A e \in Escapes : e[1] \in STRING /\ e[2] \in STRING

\* evhttp_uriencode, and evhttp_uridecode, for which a "+" is a blank.
Encode(text) ==
    [i \in DOMAIN text |->
        IF \E e \in Escapes : e[1] = text[i]
        THEN (CHOOSE e \in Escapes : e[1] = text[i])[2] ELSE text[i]]
Decode(text) ==
    [i \in DOMAIN text |->
        IF \E e \in Escapes : e[2] = text[i]
        THEN (CHOOSE e \in Escapes : e[2] = text[i])[1]
        ELSE IF text[i] = "+" THEN " " ELSE text[i]]

\* A list of parameters, a std::map, is a function on its keys.
NoParams == [key \in {} |-> << >>]

\* A sequence of one element, or of none.
OneIf(test, element) == IF test THEN <<element>> ELSE << >>

\* Definitions whose name ends in _M are wrong on purpose: each is the definition
\* that follows it with one plausible bug, and breaks one property.

-----------------------------------------------------------------------------
(* PushParam: the keys in order, each with its value, all of it encoded.   *)

Written(params) ==
    FlattenSeq([i \in DOMAIN KeyOrder |-> OneIf(KeyOrder[i] \in DOMAIN params, KeyOrder[i])])

\* Values are written as they are.
Join_M(params) ==
    FoldLeft(LAMBDA query, key :
                query \o (IF query = << >> THEN << >> ELSE <<"&">>)
                      \o Encode(key) \o <<"=">> \o params[key],
             << >>, Written(params))

Join(params) ==
    FoldLeft(LAMBDA query, key :
                query \o (IF query = << >> THEN << >> ELSE <<"&">>)
                      \o Encode(key) \o <<"=">> \o Encode(params[key]),
             << >>, Written(params))

-----------------------------------------------------------------------------
(* Queries: the matches of a regular expression, key=value, from left to   *)
(* right.                                                                  *)

Unread == [pairs |-> << >>, key |-> << >>, value |-> << >>, inValue |-> FALSE]

\* A key needs at least one token before its "=".  The value ends at the next "&" or
\* "=", and so does the match; tokens that belong to no match are skipped.
Read(s, token) ==
    IF token \notin {"&", "="}
    THEN IF s.inValue THEN [s EXCEPT !.value = Append(@, token)]
                      ELSE [s EXCEPT !.key = Append(@, token)]
    ELSE IF token = "=" /\ ~s.inValue /\ s.key # << >>
         THEN [s EXCEPT !.inValue = TRUE]
         ELSE [Unread EXCEPT !.pairs =
                  IF s.inValue THEN Append(s.pairs, <<s.key, s.value>>) ELSE s.pairs]

Matches(query) == FoldLeft(Read, Unread, Append(query, "&")).pairs

\* A key of more than two characters that ends in "[]" is an array's.
IsArray(key) == Len(key) > 1 /\ Last(key) = "[]"
Name(key)    == IF IsArray(key) THEN Front(key) ELSE key

\* A later element of an array replaces the earlier ones.
Put_M(list, pair) ==
    [k \in DOMAIN list \cup {Name(Decode(pair[1]))} |->
        IF k = Name(Decode(pair[1])) THEN Decode(pair[2]) ELSE list[k]]

\* An array's values are joined by commas, after whatever was there under its name; a
\* plain key forgets what was there.
Put(list, pair) ==
    LET key   == Decode(pair[1])
        value == Decode(pair[2])
    IN [k \in DOMAIN list \cup {Name(key)} |->
           IF k # Name(key) THEN list[k]
           ELSE IF IsArray(key) /\ k \in DOMAIN list THEN list[k] \o <<",">> \o value
           ELSE value]

Queries(query) == FoldLeft(Put, NoParams, Matches(query))

-----------------------------------------------------------------------------
(* Query<std::vector<int>>.                                                *)

Split(text, separator) ==
    FoldLeft(LAMBDA parts, token :
                IF token = separator THEN Append(parts, << >>)
                ELSE [parts EXCEPT ![Len(parts)] = Append(@, token)],
             << << >> >>, text)

IsFilled(list, key) == key \in DOMAIN list /\ list[key] # << >>

Digits == <<"0", "1", "2", "3", "4", "5", "6", "7", "8", "9">>

\* How many of the tokens at the front of a text are in a set.
Leading(text, tokens) ==
    Min({n \in 0..Len(text) : n = Len(text) \/ text[n + 1] \notin tokens})

Unblanked(text) == SubSeq(text, Leading(text, {" "}) + 1, Len(text))
HasSign(text)   == Unblanked(text) # << >> /\ Head(Unblanked(text)) \in {"-", "+"}
Figures(text) ==
    LET rest == IF HasSign(text) THEN Tail(Unblanked(text)) ELSE Unblanked(text)
    IN SubSeq(rest, 1, Leading(rest, Range(Digits)))

\* stoi skips blanks and reads a sign and the digits after it.  Without a digit it throws
\* invalid_argument, for a number that is no int out_of_range.
Stoi(text) ==
    LET size == FoldLeft(LAMBDA n, d : 10 * n + SelectInSeq(Digits, LAMBDA e : e = d) - 1,
                         0, Figures(text))
    IN IF HasSign(text) /\ Head(Unblanked(text)) = "-" THEN -size ELSE size
IsInt(text) == Figures(text) # << >> /\ Stoi(text) \in (-IntMax - 1)..IntMax

\* The loop stops before the last number.
Numbers_M(text) == LET parts == Split(text, ",") IN [i \in 1..(Len(parts) - 1) |-> Stoi(parts[i])]

\* GetVal<std::vector<int>>.
Numbers(text)    == LET parts == Split(text, ",") IN [i \in DOMAIN parts |-> Stoi(parts[i])]
AllNumbers(text) == \A part \in Range(Split(text, ",")) : IsInt(part)

\* GetVal of a list: the default for a missing or empty value and for any exception, so
\* that one element that is no int hides all the others.
Ints(list, key, default) ==
    IF IsFilled(list, key) /\ AllNumbers(list[key]) THEN Numbers(list[key]) ELSE default

-----------------------------------------------------------------------------
(* What these are compared with: the reading of a form in which no field   *)
(* has more than one "=", said without going through it from left to right.*)

Fields(query) == Split(query, "&")
Equals(field) == {i \in DOMAIN field : field[i] = "="}
WellFormed(query) ==
    \A n \in DOMAIN Fields(query) : \A i, j \in Equals(Fields(query)[n]) : i = j

\* The fields with a key and a value, which are <<key, value>> when decoded.
Param(field) ==
    LET i == CHOOSE i \in Equals(field) : TRUE
    IN OneIf(\E j \in Equals(field) : j > 1,
             <<Decode(SubSeq(field, 1, i - 1)), Decode(SubSeq(field, i + 1, Len(field)))>>)
Params(query) ==
    FlattenSeq([n \in DOMAIN Fields(query) |-> Param(Fields(query)[n])])

\* The values that count for a name: from its last plain key on.
Counts(params, name, i) ==
    /\ Name(params[i][1]) = name
    /\ \A j \in DOMAIN params : params[j][1] = name /\ ~IsArray(params[j][1]) => j <= i
Values(params, name) ==
    FlattenSeq([i \in DOMAIN params |-> OneIf(Counts(params, name, i), params[i][2])])

Commas(values) ==
    FlattenSeq([n \in DOMAIN values |-> IF n = 1 THEN values[n] ELSE <<",">> \o values[n]])

\* What a program that asked for these parameters may expect to be told.
Reading(params) ==
    [name \in {Name(params[i][1]) : i \in DOMAIN params} |-> Commas(Values(params, name))]
=============================================================================
