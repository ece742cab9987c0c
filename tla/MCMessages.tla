------------------------------- MODULE MCMessages -------------------------------
(* Bounded instances of Messages.                                          *)
EXTENDS Messages

\* The keys "", a, a[] and b in the order of std::string.
Keys == << << >>, <<"a">>, <<"a", "[]">>, <<"b">> >>

Tokens == {"&", "=", "[]", "a", "1"}

\* The ints of the runs are -22..21.

\* What one field of a form may look like, with more than one "=", too.
OneField == { <<"a", "=", "1">>, <<"a", "[]", "=", "1">>, <<"a", "%5B%5D", "=", "2">>,
              <<"a", "[]", "=">>, <<"a", "[]", "=", "-", "2", "2", "%2C", "+", "1">>,
              <<"a", "[]", "=", "2", "2">>,
              <<"a", "[]", "=", "1", "a">>, <<"b", "=", "a">>, <<"[]", "=", "1">>,
              <<"=", "1">>, <<"a">>, <<"a", "=", "b", "=", "1">> }

\* Every text of a few tokens, and forms of up to three fields.
Foreign ==
    BoundedSeq(Tokens, 4) \cup
    UNION {{f \o <<"&">> \o g, f \o <<"&">> \o g \o <<"&">> \o h} : f, g, h \in OneField}

NoneForeign == {}

Own_ == {<< >>, <<"a", "=", "1">>}

OneParam(key, value) == [k \in {key} |-> value]
Lists == { OneParam(<<"a">>, <<"+", " ", "&", "=">>), OneParam(<<"b">>, << >>),
           OneParam(<< >>, <<"1">>), OneParam(<<"a", "[]">>, <<"1", ",", "2">>),
           [k \in {<<"a">>, <<"a", "[]">>, <<"b">>} |-> <<"1">>],
           OneParam(<<"b">>, <<"a", "a", "a", "a", "a", "a", "a", "a", "a", "a", "a">>) }

Names == { << <<"X-Tag", "1">> >>, << <<"x-tag", "2">> >>,
           << <<"a-b", "1">>, <<"bad", "1">>, <<"x-tag", "3">> >>,
           << <<"Access-Control-Allow-Origin", "example.org">> >> }

Lowered == [n \in {"X-Tag", "Access-Control-Allow-Origin", "Host"} |->
               CASE n = "X-Tag" -> "x-tag" [] n = "Host" -> "host"
                 [] OTHER -> "access-control-allow-origin"]
=============================================================================
