----------------------------- MODULE Queries_proofs -----------------------------
(***************************************************************************)
(* Proofs about Queries, for every text: what PushParam writes is read     *)
(* back, a well-formed query is read as the form it stands for, and the    *)
(* numbers of a name are read in full.                                     *)
(*                                                                         *)
(* Each fold is first shown to be a step per element (ScanProperties,      *)
(* SplitProperties, PutAllProperties, JoinFolds ...); what it computes is  *)
(* then proved by induction over the text it reads.                        *)
(***************************************************************************)
EXTENDS Queries, FoldLemmas

Token == STRING
Text  == Seq(Token)
Parts == Seq(Text) \ {Nil}
Blank == Add(Nil, Nil)

-----------------------------------------------------------------------------
CutStep(parts, token, separator) ==
    IF token = separator THEN Add(parts, Nil)
    ELSE SetLast(parts, Add(parts[Len(parts)], token))

Cutting(separator) == [a \in Parts \X Token |-> CutStep(a[1], a[2], separator)]

LEMMA CutStepOfAdd ==
  ASSUME NEW fs \in Seq(Text), NEW f \in Text, NEW token \in Token, NEW separator
  PROVE  CutStep(Add(fs, f), token, separator) =
            IF token = separator THEN Add(Add(fs, f), Nil) ELSE Add(fs, Add(f, token))
<1> DEFINE parts == Add(fs, f)
<1>1. parts[Len(parts)] = f
  BY LastOfAdd, Zenon
<1>2. Add(f, token) \in Text
  BY AddProperties DEF Text
<1>3. SetLast(parts, Add(f, token)) = Add(fs, Add(f, token))
  BY <1>2, SetLastOfAdd, Zenon
<1> HIDE DEF parts
<1>4. QED
  BY <1>1, <1>3, Zenon DEF CutStep, parts

LEMMA CuttingProperties ==
  ASSUME NEW separator
  PROVE  /\ \A parts \in Parts, token \in Token :
               Cutting(separator)[<<parts, token>>] = CutStep(parts, token, separator)
         /\ Closed(Cutting(separator), Parts, Token)
         /\ Blank \in Parts
<1>1. ASSUME NEW parts \in Parts, NEW token \in Token
      PROVE  /\ Cutting(separator)[<<parts, token>>] = CutStep(parts, token, separator)
             /\ CutStep(parts, token, separator) \in Parts
  <2>1. <<parts, token>> \in Parts \X Token /\ <<parts, token>>[1] = parts /\ <<parts, token>>[2] = token
    OBVIOUS
  <2>2. Cutting(separator)[<<parts, token>>] = CutStep(parts, token, separator)
    BY <2>1, Zenon DEF Cutting
  <2>3. PICK fs \in Seq(Text), f \in Text : parts = Add(fs, f)
    BY NilOrAdd DEF Parts
  <2>4. Nil \in Text /\ Add(f, token) \in Text
    BY NilProperties, AddProperties DEF Text
  <2>5. \A gs \in Seq(Text), g \in Text : Add(gs, g) \in Parts
    BY AddProperties DEF Parts
  <2>6. parts \in Seq(Text)
    BY DEF Parts
  <2>7. CutStep(parts, token, separator) \in Parts
    <3>1. CASE token = separator
      BY <2>4, <2>5, <2>6, <3>1 DEF CutStep
    <3>2. CASE token # separator
      <4>1. CutStep(parts, token, separator) = Add(fs, Add(f, token))
        BY <2>3, <3>2, CutStepOfAdd, Zenon
      <4>2. QED
        BY <2>4, <2>5, <4>1, Zenon
    <3>3. QED
      BY <3>1, <3>2
  <2>8. QED
    BY <2>2, <2>7
<1>2. Blank \in Parts
  BY NilProperties, AddProperties DEF Parts, Blank, Text
<1>3. QED
  BY <1>1, <1>2, Zenon DEF Closed

\* Split, token by token.
LEMMA SplitFolds ==
  ASSUME NEW separator, NEW text \in Text
  PROVE  Split(text, separator) = Folded(Cutting(separator), Parts, Blank, text)
<1> DEFINE Eq(h) == h = [s \in SUBSET DOMAIN text |->
                            IF s = {} THEN Blank
                            ELSE CutStep(h[s \ {Max(s)}], text[Max(s)], separator)]
           iter == CHOOSE h : Eq(h)
<1>0. Blank = << << >> >>
  BY DEF Blank, Add, Nil
<1>1. Split(text, separator) = iter[DOMAIN text]
  BY <1>0 DEF Split, FoldLeft, MapThenFoldSet, CutStep, SetLast, Add, Nil
<1>2. text \in Seq(Token) /\ \A s \in SUBSET DOMAIN text : s # {} => text[Max(s)] \in Token
  BY MaxOfPositions DEF Text
<1>3. Eq(iter)
  <2>1. PICK h \in [SUBSET DOMAIN text -> Parts] :
              IsIteration(Cutting(separator), Blank, text, Len(text), h)
    BY <1>2, CuttingProperties, IterationExists
  <2>2. ASSUME NEW s \in SUBSET DOMAIN text
        PROVE  h[s] = IF s = {} THEN Blank
                      ELSE CutStep(h[s \ {Max(s)}], text[Max(s)], separator)
    <3>1. s \in SUBSET (1..Len(text)) /\ h[s \ {Max(s)}] \in Parts
      BY LenProperties DEF Text
    <3>2. QED
      BY <1>2, <2>1, <3>1, CuttingProperties DEF IsIteration
  <2>3. Eq(h)
    BY <2>2
  <2> HIDE DEF Eq
  <2>4. QED
    BY <2>3
<1> DEFINE h == iter
<1>4. h = [s \in SUBSET DOMAIN text |->
              IF s = {} THEN Blank
              ELSE CutStep(h[s \ {Max(s)}], text[Max(s)], separator)]
  BY <1>3
<1> HIDE DEF iter, h, Eq
<1>5. Iterates(Cutting(separator), Parts, Blank, text, h)
  BY <1>2, <1>4, CuttingProperties DEF Iterates
<1>6. h[DOMAIN text] = Folded(Cutting(separator), Parts, Blank, text)
  BY <1>2, <1>5, CuttingProperties, IterationFolds
<1>7. QED
  BY <1>1, <1>6 DEF h

\* Split goes from left to right.
LEMMA SplitProperties ==
  ASSUME NEW separator
  PROVE  /\ Split(Nil, separator) = Blank
         /\ \A text \in Text : Split(text, separator) \in Parts
         /\ \A text \in Text, token \in Token :
               Split(Add(text, token), separator) =
                  CutStep(Split(text, separator), token, separator)
<1> DEFINE Cut(text) == Folded(Cutting(separator), Parts, Blank, text)
<1>1. Nil \in Text /\ \A text \in Text, token \in Token : Add(text, token) \in Text
  BY NilProperties, AddProperties DEF Text
<1>2. \A text \in Text : Split(text, separator) = Cut(text)
  BY SplitFolds
<1>3. /\ Cut(Nil) = Blank
      /\ \A text \in Text : Cut(text) \in Parts
      /\ \A text \in Text, token \in Token :
            Cut(Add(text, token)) = Cutting(separator)[<<Cut(text), token>>]
  BY CuttingProperties, FoldedProperties DEF Text
<1> HIDE DEF Cut
<1>4. ASSUME NEW text \in Text, NEW token \in Token
      PROVE  Split(Add(text, token), separator) =
                CutStep(Split(text, separator), token, separator)
  <2>1. Split(Add(text, token), separator) = Cutting(separator)[<<Split(text, separator), token>>]
    BY <1>1, <1>2, <1>3
  <2>2. QED
    BY <1>2, <1>3, <2>1, CuttingProperties
<1>5. QED
  BY <1>1, <1>2, <1>3, <1>4, Zenon

-----------------------------------------------------------------------------
(* Encode and Decode, token by token.                                      *)

Plain   == Token \ {"&", "="}          \* what a key or a value is made of
Escaped == {e[2] : e \in Escapes}      \* what only Encode writes

Encoding ==
    [t \in Token |-> IF \E e \in Escapes : e[1] = t
                     THEN (CHOOSE e \in Escapes : e[1] = t)[2] ELSE t]
Decoding ==
    [t \in Token |-> IF \E e \in Escapes : e[2] = t
                     THEN (CHOOSE e \in Escapes : e[2] = t)[1]
                     ELSE IF t = "+" THEN " " ELSE t]

LEMMA EscapesKnown ==
  ASSUME NEW e \in Escapes
  PROVE  \/ e[1] = "&" /\ e[2] = "%26"
         \/ e[1] = "=" /\ e[2] = "%3D"
         \/ e[1] = "," /\ e[2] = "%2C"
         \/ e[1] = "[]" /\ e[2] = "%5B%5D"
         \/ e[1] = "+" /\ e[2] = "%2B"
         \/ e[1] = " " /\ e[2] = "%20"
<1>1. \/ e = <<"&", "%26">> \/ e = <<"=", "%3D">>
      \/ e = <<",", "%2C">> \/ e = <<"[]", "%5B%5D">>
      \/ e = <<"+", "%2B">> \/ e = <<" ", "%20">>
  BY Zenon DEF Escapes
<1>2. CASE e = <<"&", "%26">>
  BY <1>2
<1>3. CASE e = <<"=", "%3D">>
  BY <1>3
<1>4. CASE e = <<",", "%2C">>
  BY <1>4
<1>5. CASE e = <<"[]", "%5B%5D">>
  BY <1>5
<1>6. CASE e = <<"+", "%2B">>
  BY <1>6
<1>7. CASE e = <<" ", "%20">>
  BY <1>7
<1>8. QED
  BY <1>1, <1>2, <1>3, <1>4, <1>5, <1>6, <1>7, Zenon

LEMMA EscapesType ==
  ASSUME NEW e \in Escapes
  PROVE  e[1] \in Token /\ e[2] \in Plain
<1>1. e[1] \in Token /\ e[2] \in Token
  BY TokensAreStrings DEF Token
<1>2. e[2] # "&" /\ e[2] # "="
  BY EscapesKnown
<1>3. QED
  BY <1>1, <1>2 DEF Plain

\* The characters that mean something to Queries are escaped, and so are the blank and the
\* "+" that is read as one.
LEMMA EscapesSpecial ==
  \A t \in {"&", "=", ",", "+", " "} : \E e \in Escapes : e[1] = t
<1> DEFINE amp == <<"&", "%26">>
           equ == <<"=", "%3D">>
           com == <<",", "%2C">>
           pls == <<"+", "%2B">>
           bla == <<" ", "%20">>
<1>1. amp[1] = "&" /\ equ[1] = "=" /\ com[1] = "," /\ pls[1] = "+" /\ bla[1] = " "
  OBVIOUS
<1> HIDE DEF amp, equ, com, pls, bla
<1>2. {amp, equ, com, pls, bla} \subseteq Escapes
  BY Zenon DEF Escapes, amp, equ, com, pls, bla
<1>3. QED
  BY <1>1, <1>2

LEMMA EncodingProperties ==
  /\ Encoding \in [Token -> Plain]
  /\ Decoding \in [Token -> Token]
  /\ \A t \in Token \ Escaped : Decoding[Encoding[t]] = t
<1>1. ASSUME NEW t \in Token
      PROVE  /\ Encoding[t] \in Plain
             /\ t \notin Escaped => Decoding[Encoding[t]] = t
  <2>1. CASE \E e \in Escapes : e[1] = t
    <3>1. PICK e \in Escapes : e[1] = t /\ Encoding[t] = e[2]
      BY <2>1 DEF Encoding
    <3>2. e[2] \in Plain /\ e[2] \in Token
      BY EscapesType DEF Plain
    <3>3. PICK d \in Escapes : d[2] = e[2] /\ Decoding[e[2]] = d[1]
      BY <3>2 DEF Decoding
    <3>4. d[1] = e[1]
      BY <3>3, EscapesKnown
    <3>5. QED
      BY <3>1, <3>2, <3>3, <3>4
  <2>2. CASE ~ \E e \in Escapes : e[1] = t
    <3>1. Encoding[t] = t
      BY <2>2 DEF Encoding
    <3>2. t \in Plain
      BY <2>2, EscapesSpecial DEF Plain
    <3>3. t \notin Escaped => Decoding[t] = t
      <4>1. t # "+"
        BY <2>2, EscapesSpecial
      <4>2. QED
        BY <4>1 DEF Decoding, Escaped
    <3>4. QED
      BY <3>1, <3>2, <3>3
  <2>3. QED
    BY <2>1, <2>2
<1>2. ASSUME NEW t \in Token PROVE Decoding[t] \in Token
  <2>1. CASE \E e \in Escapes : e[2] = t
    <3>1. PICK e \in Escapes : e[2] = t /\ Decoding[t] = e[1]
      BY <2>1 DEF Decoding
    <3>2. QED
      BY <3>1, EscapesType
  <2>2. CASE ~ \E e \in Escapes : e[2] = t
    <3>1. Decoding[t] \in {" ", t}
      BY <2>2 DEF Decoding
    <3>2. " " \in Token
      BY EscapesSpecial, EscapesType
    <3>3. QED
      BY <3>1, <3>2
  <2>3. QED
    BY <2>1, <2>2
<1>3. Encoding \in [Token -> Plain]
  BY <1>1 DEF Encoding
<1>4. Decoding \in [Token -> Token]
  BY <1>2 DEF Decoding
<1>5. QED
  BY <1>1, <1>3, <1>4

LEMMA CodesThrough ==
  ASSUME NEW text \in Text
  PROVE  Encode(text) = Through(Encoding, text) /\ Decode(text) = Through(Decoding, text)
<1>1. \A i \in DOMAIN text : text[i] \in Token
  BY DEF Text
<1>2. QED
  BY <1>1 DEF Encode, Decode, Through, Encoding, Decoding

\* Encode and Decode, token by token; no encoded text means anything to Queries.
LEMMA CodeProperties ==
  /\ Encode(Nil) = Nil /\ Decode(Nil) = Nil
  /\ \A text \in Text : Encode(text) \in Seq(Plain) /\ Decode(text) \in Text
  /\ \A text \in Text, t \in Token :
        /\ Encode(Add(text, t)) = Add(Encode(text), Encoding[t])
        /\ Decode(Add(text, t)) = Add(Decode(text), Decoding[t])
<1>1. Nil \in Text /\ \A text \in Text, t \in Token : Add(text, t) \in Text
  BY NilProperties, AddExtends DEF Text
<1>0. GoesThrough(Encoding, Token, Plain) /\ GoesThrough(Decoding, Token, Token)
  BY EncodingProperties, ThroughProperties
<1>2. /\ Through(Encoding, Nil) = Nil
      /\ \A text \in Text : Through(Encoding, text) \in Seq(Plain)
      /\ \A text \in Text, t \in Token :
            Through(Encoding, Add(text, t)) = Add(Through(Encoding, text), Encoding[t])
  BY <1>0 DEF GoesThrough, Text
<1>3. /\ Through(Decoding, Nil) = Nil
      /\ \A text \in Text : Through(Decoding, text) \in Text
      /\ \A text \in Text, t \in Token :
            Through(Decoding, Add(text, t)) = Add(Through(Decoding, text), Decoding[t])
  BY <1>0 DEF GoesThrough, Text
<1>4. QED
  BY <1>1, <1>2, <1>3, CodesThrough

\* What was encoded is decoded to what it was.
LEMMA DecodeEncode ==
  ASSUME NEW text \in Seq(Token \ Escaped)
  PROVE  Decode(Encode(text)) = text
<1> DEFINE X == Token \ Escaped
           T == {t \in Seq(X) : Decode(Encode(t)) = t}
<1>1. Nil \in T
  BY NilProperties, CodeProperties
<1>2. ASSUME NEW t \in Seq(X), t \in T, NEW x \in X PROVE Add(t, x) \in T
  <2>1. t \in Text /\ x \in Token
    BY SeqMonotonic DEF Text
  <2>2. Encode(t) \in Text /\ Encoding[x] \in Token
    <3>1. Seq(Plain) \subseteq Text
      BY SeqMonotonic DEF Text, Plain
    <3>2. QED
      BY <2>1, <3>1, CodeProperties, EncodingProperties DEF Plain
  <2>3. Decode(Encode(Add(t, x))) = Add(Decode(Encode(t)), Decoding[Encoding[x]])
    BY <2>1, <2>2, CodeProperties
  <2>4. Add(t, x) \in Seq(X)
    BY AddExtends, Zenon
  <2>5. QED
    BY <1>2, <2>3, <2>4, EncodingProperties
<1> HIDE DEF T
<1>3. text \in T
  BY <1>1, <1>2, SeqSetInduction
<1>4. QED
  BY <1>3 DEF T

-----------------------------------------------------------------------------
(* Join, key by key.                                                       *)

LEMMA SpecialTokens == "&" \in Token /\ "=" \in Token /\ "," \in Token
  BY EscapesType, EscapesSpecial

LEMMA OneIfType ==
  ASSUME NEW X, NEW test, NEW x, test => x \in X
  PROVE  OneIf(test, x) = (IF test THEN One(x) ELSE Nil) /\ OneIf(test, x) \in Seq(X)
<1>1. OneIf(test, x) = IF test THEN One(x) ELSE Nil
  BY DEF OneIf, One, Nil
<1>2. CASE test
  BY <1>1, <1>2, NilProperties, CatAdd
<1>3. CASE ~test
  BY <1>1, <1>3, NilProperties
<1>4. QED
  BY <1>1, <1>2, <1>3

\* Only keys of the list are written.
LEMMA WrittenType ==
  ASSUME NEW params
  PROVE  Written(params) \in Seq(DOMAIN params)
<1> DEFINE D == DOMAIN params
           keys == [i \in DOMAIN KeyOrder |-> OneIf(KeyOrder[i] \in D, KeyOrder[i])]
<1>1. Len(KeyOrder) \in Nat /\ DOMAIN KeyOrder = 1..Len(KeyOrder)
  BY KeyAssumption
<1> HIDE DEF D
<1>2. \A i \in DOMAIN KeyOrder : OneIf(KeyOrder[i] \in D, KeyOrder[i]) \in Seq(D)
  BY OneIfType, Zenon
<1>3. keys \in [1..Len(KeyOrder) -> Seq(D)]
  BY <1>1, <1>2
<1>4. keys \in Seq(Seq(D))
  BY <1>1, <1>3
<1>5. Written(params) = FlattenSeq(keys)
  BY DEF Written, D
<1> HIDE DEF keys
<1>6. QED
  BY <1>4, <1>5, FlattenProperties DEF D

\* A list of parameters.
IsParams(params) == \A key \in DOMAIN params : key \in Text /\ params[key] \in Text

JoinStep(params, query, key) ==
    Cat(Cat(Cat(Cat(query, IF query = Nil THEN Nil ELSE One("&")), Encode(key)), One("=")),
        Encode(params[key]))

Joining(params) == [a \in Text \X DOMAIN params |-> JoinStep(params, a[1], a[2])]

LEMMA JoiningProperties ==
  ASSUME NEW params, IsParams(params)
  PROVE  /\ \A query \in Text, key \in DOMAIN params :
               Joining(params)[<<query, key>>] = JoinStep(params, query, key)
         /\ Closed(Joining(params), Text, DOMAIN params)
         /\ Nil \in Text
<1>1. ASSUME NEW query \in Text, NEW key \in DOMAIN params
      PROVE  JoinStep(params, query, key) \in Text
  <2>1. Encode(key) \in Text /\ Encode(params[key]) \in Text
    <3>1. Seq(Plain) \subseteq Text
      BY SeqMonotonic DEF Text, Plain
    <3>2. QED
      BY <3>1, CodeProperties DEF IsParams
  <2>2. One("&") \in Text /\ One("=") \in Text /\ Nil \in Text
    BY SpecialTokens, NilProperties, CatAdd DEF Text
  <2>3. \A s, t \in Text : Cat(s, t) \in Text
    BY CatType DEF Text
  <2>4. QED
    BY <2>1, <2>2, <2>3 DEF JoinStep
<1>2. \A query \in Text, key \in DOMAIN params :
         Joining(params)[<<query, key>>] = JoinStep(params, query, key)
  BY DEF Joining
<1>3. Nil \in Text
  BY NilProperties DEF Text
<1>4. QED
  BY <1>1, <1>2, <1>3, Zenon DEF Closed

JoinOf(params, keys) == Folded(Joining(params), Text, Nil, keys)

LEMMA JoinFolds ==
  ASSUME NEW params, IsParams(params)
  PROVE  Join(params) = JoinOf(params, Written(params))
<1> DEFINE keys == Written(params)
           D == DOMAIN params
           Eq(h) == h = [s \in SUBSET DOMAIN keys |->
                            IF s = {} THEN Nil
                            ELSE JoinStep(params, h[s \ {Max(s)}], keys[Max(s)])]
           iter == CHOOSE h : Eq(h)
<1>0. keys \in Seq(D)
  BY WrittenType
<1>1. Join(params) = iter[DOMAIN keys]
  BY DEF Join, FoldLeft, MapThenFoldSet, JoinStep, Nil, Cat, One
<1> HIDE DEF keys
<1>2. \A s \in SUBSET DOMAIN keys : s # {} => keys[Max(s)] \in D
  BY <1>0, MaxOfPositions
<1>3. Eq(iter)
  <2>1. PICK h \in [SUBSET DOMAIN keys -> Text] :
              IsIteration(Joining(params), Nil, keys, Len(keys), h)
    BY <1>0, JoiningProperties, IterationExists
  <2>2. ASSUME NEW s \in SUBSET DOMAIN keys
        PROVE  h[s] = IF s = {} THEN Nil
                      ELSE JoinStep(params, h[s \ {Max(s)}], keys[Max(s)])
    <3>1. s \in SUBSET (1..Len(keys)) /\ h[s \ {Max(s)}] \in Text
      BY <1>0
    <3>2. QED
      BY <1>2, <2>1, <3>1, JoiningProperties DEF IsIteration
  <2>3. Eq(h)
    BY <2>2
  <2> HIDE DEF Eq
  <2>4. QED
    BY <2>3
<1> DEFINE h == iter
<1>4. h = [s \in SUBSET DOMAIN keys |->
              IF s = {} THEN Nil
              ELSE JoinStep(params, h[s \ {Max(s)}], keys[Max(s)])]
  BY <1>3
<1> HIDE DEF iter, h, Eq, D
<1>5. Iterates(Joining(params), Text, Nil, keys, h)
  <2>1. h[{}] = Nil
    BY <1>4
  <2>2. ASSUME NEW s \in SUBSET DOMAIN keys, s # {}, h[s \ {Max(s)}] \in Text
        PROVE  h[s] = Joining(params)[<<h[s \ {Max(s)}], keys[Max(s)]>>]
    <3>1. h[s] = JoinStep(params, h[s \ {Max(s)}], keys[Max(s)])
      BY <1>4, <2>2
    <3>2. keys[Max(s)] \in DOMAIN params
      BY <1>2, <2>2 DEF D
    <3>3. QED
      BY <2>2, <3>1, <3>2, JoiningProperties
  <2>3. QED
    BY <2>1, <2>2, Zenon DEF Iterates
<1>6. h[DOMAIN keys] = JoinOf(params, keys)
  BY <1>0, <1>5, JoiningProperties, IterationFolds DEF JoinOf, D
<1>7. QED
  BY <1>1, <1>6 DEF h, keys

\* A key more is a "&", unless nothing was written, and key=value.
LEMMA JoinOfProperties ==
  ASSUME NEW params, IsParams(params)
  PROVE  /\ JoinOf(params, Nil) = Nil
         /\ \A keys \in Seq(DOMAIN params) : JoinOf(params, keys) \in Text
         /\ \A keys \in Seq(DOMAIN params), key \in DOMAIN params :
               JoinOf(params, Add(keys, key)) = JoinStep(params, JoinOf(params, keys), key)
<1>1. /\ JoinOf(params, Nil) = Nil
      /\ \A keys \in Seq(DOMAIN params) : JoinOf(params, keys) \in Text
      /\ \A keys \in Seq(DOMAIN params), key \in DOMAIN params :
            JoinOf(params, Add(keys, key)) = Joining(params)[<<JoinOf(params, keys), key>>]
  BY JoiningProperties, FoldedProperties DEF JoinOf
<1>2. QED
  BY <1>1, JoiningProperties

\* PushParam writes a text.
LEMMA JoinType ==
  ASSUME NEW params, IsParams(params)
  PROVE  Join(params) \in Text
  BY JoinFolds, JoinOfProperties, WrittenType

\* A text with a "=" in it.
HasEquals(text) == \E i \in DOMAIN text : text[i] = "="

\* Whatever PushParam writes has a "=", if it writes anything.
LEMMA JoinHasEquals ==
  ASSUME NEW params, IsParams(params)
  PROVE  Join(params) = Nil \/ HasEquals(Join(params))
<1> DEFINE D == DOMAIN params
           T == {keys \in Seq(D) : JoinOf(params, keys) = Nil \/ HasEquals(JoinOf(params, keys))}
<1>1. Nil \in T
  BY NilProperties, JoinOfProperties
<1>2. ASSUME NEW keys \in Seq(D), keys \in T, NEW key \in D PROVE Add(keys, key) \in T
  <2> DEFINE query == JoinOf(params, keys)
             mark  == IF query = Nil THEN Nil ELSE One("&")
             front == Cat(Cat(query, mark), Encode(key))
             back  == Encode(params[key])
  <2>1. query \in Text /\ mark \in Text /\ One("=") \in Text
    BY JoinOfProperties, SpecialTokens, NilProperties, CatAdd DEF Text
  <2>2. Encode(key) \in Text /\ back \in Text
    <3>1. Seq(Plain) \subseteq Text
      BY SeqMonotonic DEF Text, Plain
    <3>2. QED
      BY <3>1, CodeProperties DEF IsParams
  <2>3. JoinOf(params, Add(keys, key)) = Cat(Cat(front, One("=")), back)
    BY JoinOfProperties DEF JoinStep
  <2> HIDE DEF query, mark, back
  <2>4. front \in Text
    BY <2>1, <2>2, CatType DEF Text
  <2> HIDE DEF front
  <2>5. HasEquals(Cat(Cat(front, One("=")), back))
    <3> DEFINE start == Cat(front, One("="))
               whole == Cat(start, back)
               n     == Len(front) + 1
    <3>1. start = Add(front, "=")
      BY <2>4, SpecialTokens, AppendIsConcat DEF Cat, One, Add, Text
    <3>2. start \in Text /\ n \in 1..Len(start) /\ start[n] = "="
      <4>1. front \in Seq(Token) /\ "=" \in Token
        BY <2>4, SpecialTokens DEF Text
      <4>2. /\ Add(front, "=") \in Seq(Token) /\ Len(front) \in Nat
            /\ Len(Add(front, "=")) = Len(front) + 1
        BY <4>1, AddProperties, Zenon
      <4>3. Add(front, "=")[Len(Add(front, "="))] = "="
        BY <4>1, LastOfAdd, Zenon
      <4> HIDE DEF start
      <4>4. QED
        BY <3>1, <4>2, <4>3 DEF Text
    <3> HIDE DEF start, n
    <3>3. n \in DOMAIN whole /\ whole[n] = "="
      BY <2>2, <3>2, ConcatProperties DEF Cat, Text
    <3> HIDE DEF whole
    <3>4. HasEquals(whole)
      BY <3>3 DEF HasEquals
    <3>5. QED
      BY <3>4 DEF whole, start
  <2>6. Add(keys, key) \in Seq(D)
    BY AddExtends, Zenon
  <2>7. QED
    BY <2>3, <2>5, <2>6
<1> HIDE DEF T
<1>3. Written(params) \in T
  BY <1>1, <1>2, WrittenType, SeqSetInduction
<1>4. QED
  BY <1>3, JoinFolds DEF T

-----------------------------------------------------------------------------
(* Matches, token by token.                                                *)

Pair == Text \X Text
Both(key, value) == <<key, value>>

\* Reading a key, and reading a value.
InKey(pairs, key) ==
    [pairs |-> pairs, key |-> key, value |-> Nil, inValue |-> FALSE]
InValue(pairs, key, value) ==
    [pairs |-> pairs, key |-> key, value |-> value, inValue |-> TRUE]

State == {InKey(p, k) : p \in Seq(Pair), k \in Text}
            \cup {InValue(p, k, v) : p \in Seq(Pair), k \in Text, v \in Text}

\* Where reading is after a text, and the matches when it ends there.
Scan(query) == FoldLeft(Read, Unread, query)
Found(s) == IF s.inValue THEN Add(s.pairs, Both(s.key, s.value)) ELSE s.pairs

LEMMA BothType ==
  ASSUME NEW k \in Text, NEW v \in Text
  PROVE  Both(k, v) \in Pair /\ Both(k, v)[1] = k /\ Both(k, v)[2] = v
  BY DEF Both, Pair

\* The two states of the automaton, and what it has found in each.
LEMMA StateFields ==
  ASSUME NEW p, NEW k, NEW v
  PROVE  /\ InKey(p, k).pairs = p /\ InKey(p, k).key = k
         /\ InKey(p, k).value = Nil /\ ~InKey(p, k).inValue
         /\ InValue(p, k, v).pairs = p /\ InValue(p, k, v).key = k
         /\ InValue(p, k, v).value = v /\ InValue(p, k, v).inValue
         /\ Found(InKey(p, k)) = p /\ Found(InValue(p, k, v)) = Add(p, Both(k, v))
  BY DEF InKey, InValue, Found

WithPairs(s, x)   == [s EXCEPT !.pairs = x]
WithKey(s, x)     == [s EXCEPT !.key = x]
WithValue(s, x)   == [s EXCEPT !.value = x]
WithInValue(s, x) == [s EXCEPT !.inValue = x]

LEMMA FieldsChange ==
  /\ \A p, k, x : WithPairs(InKey(p, k), x) = InKey(x, k)
  /\ \A p, k, x : WithKey(InKey(p, k), x) = InKey(p, x)
  /\ \A p, k, v, x : WithValue(InValue(p, k, v), x) = InValue(p, k, x)
  /\ \A p, k : WithInValue(InKey(p, k), TRUE) = InValue(p, k, Nil)
<1> DEFINE At(a, b, c, d) == [pairs |-> a, key |-> b, value |-> c, inValue |-> d]
<1>1. \A p, k, x, c, d : WithPairs(At(p, k, c, d), x) = At(x, k, c, d)
  BY DEF WithPairs
<1>2. \A p, k, x, c, d : WithKey(At(p, k, c, d), x) = At(p, x, c, d)
  BY DEF WithKey
<1>3. \A p, k, x, c, d : WithValue(At(p, k, c, d), x) = At(p, k, x, d)
  BY DEF WithValue
<1>4. \A p, k, b, c, d : WithInValue(At(p, k, c, d), b) = At(p, k, c, b)
  BY DEF WithInValue
<1> DEFINE no == FALSE
           yes == TRUE
<1>5. \A a, b : InKey(a, b) = At(a, b, Nil, no)
  BY Zenon DEF InKey
<1>6. \A a, b, c : InValue(a, b, c) = At(a, b, c, yes)
  BY Zenon DEF InValue
<1> HIDE DEF At, no, yes
<1>7. \A p, k, x : WithPairs(InKey(p, k), x) = InKey(x, k)
  BY <1>1, <1>5
<1>8. \A p, k, x : WithKey(InKey(p, k), x) = InKey(p, x)
  BY <1>2, <1>5
<1>9. \A p, k, v, x : WithValue(InValue(p, k, v), x) = InValue(p, k, x)
  BY <1>3, <1>6
<1>10. \A p, k : WithInValue(InKey(p, k), yes) = InValue(p, k, Nil)
  BY <1>4, <1>5, <1>6
<1>11. QED
  BY <1>7, <1>8, <1>9, <1>10, Zenon DEF yes

\* The steps of the automaton: a plain token in a key ...
LEMMA ReadKey ==
  ASSUME NEW p, NEW k, NEW token \in Plain
  PROVE  Read(InKey(p, k), token) = InKey(p, Add(k, token))
<1> DEFINE s == InKey(p, k)
<1>1. s.key = k /\ ~s.inValue /\ token \notin {"&", "="}
  BY StateFields DEF Plain
<1>2. \A x : WithKey(s, x) = InKey(p, x)
  BY FieldsChange
<1> HIDE DEF s
<1>3. Read(s, token) = WithKey(s, Add(k, token))
  BY <1>1, Zenon DEF Read, WithKey, Add
<1>4. QED
  BY <1>2, <1>3, Zenon DEF s

\* ... in a value ...
LEMMA ReadValue ==
  ASSUME NEW p, NEW k, NEW v, NEW token \in Plain
  PROVE  Read(InValue(p, k, v), token) = InValue(p, k, Add(v, token))
<1> DEFINE s == InValue(p, k, v)
<1>1. s.value = v /\ s.inValue /\ token \notin {"&", "="}
  BY StateFields DEF Plain
<1>2. \A x : WithValue(s, x) = InValue(p, k, x)
  BY FieldsChange
<1> HIDE DEF s
<1>3. Read(s, token) = WithValue(s, Add(v, token))
  BY <1>1, Zenon DEF Read, WithValue, Add
<1>4. QED
  BY <1>2, <1>3, Zenon DEF s

\* ... the "=" that ends a key.
LEMMA ReadEquals ==
  ASSUME NEW p, NEW k, k # Nil
  PROVE  Read(InKey(p, k), "=") = InValue(p, k, Nil)
<1> DEFINE s == InKey(p, k)
<1>1. s.key = k /\ ~s.inValue /\ "=" \in {"&", "="}
  BY StateFields
<1>2. WithInValue(s, TRUE) = InValue(p, k, Nil)
  BY FieldsChange
<1> HIDE DEF s
<1>3. Read(s, "=") = WithInValue(s, TRUE)
  BY <1>1, Zenon DEF Read, WithInValue, Nil
<1>4. QED
  BY <1>2, <1>3, Zenon DEF s

\* A match ends, and what is not part of one is dropped.
LEMMA ReadEnd ==
  ASSUME NEW p, NEW k, NEW v, NEW token \in Token, token \notin Plain
  PROVE  /\ token = "&" \/ k = Nil => Read(InKey(p, k), token) = InKey(p, Nil)
         /\ Read(InValue(p, k, v), token) = InKey(Add(p, Both(k, v)), Nil)
<1> DEFINE s == InKey(p, k)
           t == InValue(p, k, v)
           e == Append(p, <<k, v>>)
<1>1. /\ s.pairs = p /\ s.key = k /\ ~s.inValue
      /\ t.pairs = p /\ t.key = k /\ t.value = v /\ t.inValue
      /\ token \in {"&", "="} /\ "&" # "="
  BY StateFields DEF Plain
<1>2. Unread = InKey(Nil, Nil)
  BY Zenon DEF Unread, InKey, Nil
<1>3. \A x : WithPairs(Unread, x) = InKey(x, Nil)
  BY <1>2, FieldsChange
<1>4. e = Add(p, Both(k, v))
  BY Zenon DEF Add, Both
<1> HIDE DEF s, t
<1>5. token = "&" \/ k = Nil => Read(s, token) = WithPairs(Unread, p)
  BY <1>1, Zenon DEF Read, WithPairs, Nil
<1>6. Read(t, token) = WithPairs(Unread, e)
  BY <1>1, Zenon DEF Read, WithPairs
<1> HIDE DEF e
<1>7. QED
  BY <1>3, <1>4, <1>5, <1>6, Zenon DEF s, t

Reader == [a \in State \X Token |-> Read(a[1], a[2])]

\* A state is one of the two.
LEMMA StateCases ==
  /\ \A p \in Seq(Pair), k \in Text : InKey(p, k) \in State
  /\ \A p \in Seq(Pair), k, v \in Text : InValue(p, k, v) \in State
  /\ \A s \in State : \/ \E p \in Seq(Pair), k \in Text : s = InKey(p, k)
                      \/ \E p \in Seq(Pair), k, v \in Text : s = InValue(p, k, v)
  BY DEF State

LEMMA ReadType ==
  ASSUME NEW s \in State, NEW token \in Token
  PROVE  Read(s, token) \in State
<1>1. /\ \A p \in Seq(Pair), k \in Text : InKey(p, k) \in State
      /\ \A p \in Seq(Pair), k, v \in Text : InValue(p, k, v) \in State
  BY StateCases
<1>2. /\ Nil \in Text
      /\ \A k \in Text : Add(k, token) \in Text
      /\ \A p \in Seq(Pair), k, v \in Text : Add(p, Both(k, v)) \in Seq(Pair)
  BY AddExtends, NilProperties, BothType DEF Text
<1>3. ASSUME NEW p \in Seq(Pair), NEW k \in Text
      PROVE  Read(InKey(p, k), token) \in State
  <2>1. CASE token \in Plain
    <3>1. Read(InKey(p, k), token) = InKey(p, Add(k, token))
      BY <2>1, ReadKey
    <3>2. QED
      BY <1>1, <1>2, <3>1
  <2>2. CASE token \notin Plain /\ (token = "&" \/ k = Nil)
    <3>1. Read(InKey(p, k), token) = InKey(p, Nil)
      BY <2>2, ReadEnd
    <3>2. QED
      BY <1>1, <1>2, <3>1
  <2>3. CASE token = "=" /\ k # Nil
    <3>1. Read(InKey(p, k), token) = InValue(p, k, Nil)
      BY <2>3, ReadEquals
    <3>2. QED
      BY <1>1, <1>2, <3>1
  <2>4. QED
    BY <2>1, <2>2, <2>3 DEF Plain
<1>4. ASSUME NEW p \in Seq(Pair), NEW k \in Text, NEW v \in Text
      PROVE  Read(InValue(p, k, v), token) \in State
  <2>1. CASE token \in Plain
    <3>1. Read(InValue(p, k, v), token) = InValue(p, k, Add(v, token))
      BY <2>1, ReadValue
    <3>2. Add(v, token) \in Text
      BY <1>2
    <3>3. QED
      BY <1>1, <3>1, <3>2
  <2>2. CASE token \notin Plain
    <3>1. Read(InValue(p, k, v), token) = InKey(Add(p, Both(k, v)), Nil)
      BY <2>2, ReadEnd
    <3>2. QED
      BY <1>1, <1>2, <3>1
  <2>3. QED
    BY <2>1, <2>2
<1>5. QED
  BY <1>3, <1>4, StateCases

LEMMA ReaderProperties ==
  /\ \A s \in State, token \in Token : Reader[<<s, token>>] = Read(s, token)
  /\ Closed(Reader, State, Token)
  /\ Unread \in State
<1>1. ASSUME NEW s \in State, NEW token \in Token
      PROVE  Reader[<<s, token>>] = Read(s, token)
  <2>1. <<s, token>> \in State \X Token /\ <<s, token>>[1] = s /\ <<s, token>>[2] = token
    OBVIOUS
  <2>2. QED
    BY <2>1, Zenon DEF Reader
<1>2. Unread \in State
  <2>1. Unread = InKey(Nil, Nil)
    BY Zenon DEF Unread, InKey, Nil
  <2>2. Nil \in Seq(Pair) /\ Nil \in Text
    BY NilProperties DEF Text
  <2>3. QED
    BY <2>1, <2>2, StateCases
<1>3. QED
  BY <1>1, <1>2, ReadType, Zenon DEF Closed

LEMMA ScanFolds ==
  ASSUME NEW text \in Text
  PROVE  Scan(text) = Folded(Reader, State, Unread, text)
<1> DEFINE Eq(h) == h = [s \in SUBSET DOMAIN text |->
                            IF s = {} THEN Unread
                            ELSE Read(h[s \ {Max(s)}], text[Max(s)])]
           iter == CHOOSE h : Eq(h)
<1>1. Scan(text) = iter[DOMAIN text]
  BY DEF Scan, FoldLeft, MapThenFoldSet
<1>2. text \in Seq(Token) /\ \A s \in SUBSET DOMAIN text : s # {} => text[Max(s)] \in Token
  BY MaxOfPositions DEF Text
<1>3. Eq(iter)
  <2>1. PICK h \in [SUBSET DOMAIN text -> State] :
              IsIteration(Reader, Unread, text, Len(text), h)
    BY <1>2, ReaderProperties, IterationExists
  <2>2. ASSUME NEW s \in SUBSET DOMAIN text
        PROVE  h[s] = IF s = {} THEN Unread
                      ELSE Read(h[s \ {Max(s)}], text[Max(s)])
    <3>1. s \in SUBSET (1..Len(text)) /\ h[s \ {Max(s)}] \in State
      BY LenProperties DEF Text
    <3>2. QED
      BY <1>2, <2>1, <3>1, ReaderProperties DEF IsIteration
  <2>3. Eq(h)
    BY <2>2
  <2> HIDE DEF Eq
  <2>4. QED
    BY <2>3
<1> DEFINE h == iter
<1>4. h = [s \in SUBSET DOMAIN text |->
              IF s = {} THEN Unread
              ELSE Read(h[s \ {Max(s)}], text[Max(s)])]
  BY <1>3
<1> HIDE DEF iter, h, Eq
<1>5. Iterates(Reader, State, Unread, text, h)
  BY <1>2, <1>4, ReaderProperties DEF Iterates
<1>6. h[DOMAIN text] = Folded(Reader, State, Unread, text)
  BY <1>2, <1>5, ReaderProperties, IterationFolds
<1>7. QED
  BY <1>1, <1>6 DEF h

\* The matches are searched from left to right.
LEMMA ScanProperties ==
  /\ Scan(Nil) = InKey(Nil, Nil)
  /\ \A text \in Text : Scan(text) \in State
  /\ \A text \in Text, token \in Token : Scan(Add(text, token)) = Read(Scan(text), token)
<1> DEFINE Scanned(text) == Folded(Reader, State, Unread, text)
<1>1. Nil \in Text /\ \A text \in Text, token \in Token : Add(text, token) \in Text
  BY NilProperties, AddExtends DEF Text
<1>2. \A text \in Text : Scan(text) = Scanned(text)
  BY ScanFolds
<1>3. /\ Scanned(Nil) = Unread
      /\ \A text \in Text : Scanned(text) \in State
      /\ \A text \in Text, token \in Token :
            Scanned(Add(text, token)) = Reader[<<Scanned(text), token>>]
  BY ReaderProperties, FoldedProperties DEF Text
<1> HIDE DEF Scanned
<1>4. ASSUME NEW text \in Text, NEW token \in Token
      PROVE  Scan(Add(text, token)) = Read(Scan(text), token)
  <2>1. Scan(Add(text, token)) = Reader[<<Scan(text), token>>]
    BY <1>1, <1>2, <1>3
  <2>2. QED
    BY <1>2, <1>3, <2>1, ReaderProperties
<1>5. Unread = InKey(Nil, Nil)
  BY Zenon DEF InKey, Unread, Nil
<1>6. QED
  BY <1>1, <1>2, <1>3, <1>4, <1>5, Zenon

LEMMA FoundType ==
  ASSUME NEW s \in State
  PROVE  Found(s) \in Seq(Pair)
<1>1. CASE \E p \in Seq(Pair), k \in Text : s = InKey(p, k)
  BY <1>1, StateFields
<1>2. CASE \E p \in Seq(Pair), k, v \in Text : s = InValue(p, k, v)
  <2>1. PICK p \in Seq(Pair), k \in Text, v \in Text : s = InValue(p, k, v)
    BY <1>2
  <2>2. Found(s) = Add(p, Both(k, v)) /\ Both(k, v) \in Pair
    BY <2>1, StateFields, BothType
  <2>3. QED
    BY <2>2, AddExtends
<1>3. QED
  BY <1>1, <1>2, StateCases

\* An "&" ends a match.
LEMMA ScanEnds ==
  ASSUME NEW text \in Text
  PROVE  Scan(Add(text, "&")) = InKey(Found(Scan(text)), Nil)
<1> DEFINE s == Scan(text)
<1>1. s \in State /\ "&" \in Token /\ "&" \notin Plain
  BY ScanProperties, SpecialTokens DEF Plain
<1>2. Scan(Add(text, "&")) = Read(s, "&")
  BY <1>1, ScanProperties
<1> HIDE DEF s
<1>3. ASSUME NEW p, NEW k, s = InKey(p, k)
      PROVE  Read(s, "&") = InKey(Found(s), Nil)
  <2>1. Read(InKey(p, k), "&") = InKey(p, Nil)
    BY <1>1, ReadEnd
  <2>2. Found(s) = p
    BY <1>3, StateFields
  <2>3. QED
    BY <1>3, <2>1, <2>2
<1>4. ASSUME NEW p, NEW k, NEW v, s = InValue(p, k, v)
      PROVE  Read(s, "&") = InKey(Found(s), Nil)
  <2>1. Read(InValue(p, k, v), "&") = InKey(Add(p, Both(k, v)), Nil)
    BY <1>1, ReadEnd
  <2>2. Found(s) = Add(p, Both(k, v))
    BY <1>4, StateFields
  <2>3. QED
    BY <1>4, <2>1, <2>2
<1>5. QED
  BY <1>1, <1>2, <1>3, <1>4, StateCases DEF s

\* Matches is what a scan has found at the end.
LEMMA MatchesAreFound ==
  ASSUME NEW text \in Text
  PROVE  Matches(text) = Found(Scan(text)) /\ Matches(text) \in Seq(Pair)
<1>1. Matches(text) = Scan(Add(text, "&")).pairs
  BY Zenon DEF Matches, Scan, Add
<1>2. Scan(Add(text, "&")).pairs = Found(Scan(text))
  BY ScanEnds, StateFields
<1>3. Scan(text) \in State
  BY ScanProperties
<1>4. QED
  BY <1>1, <1>2, <1>3, FoundType

\* Other tokens make a key or a value longer.
LEMMA ScanPlain ==
  ASSUME NEW text \in Text, NEW x \in Seq(Plain), NEW p, NEW k \in Text, NEW v \in Text
  PROVE  /\ Scan(text) = InKey(p, k) => Scan(Cat(text, x)) = InKey(p, Cat(k, x))
         /\ Scan(text) = InValue(p, k, v) => Scan(Cat(text, x)) = InValue(p, k, Cat(v, x))
<1> DEFINE P(y) == /\ Scan(text) = InKey(p, k) => Scan(Cat(text, y)) = InKey(p, Cat(k, y))
                   /\ Scan(text) = InValue(p, k, v) =>
                         Scan(Cat(text, y)) = InValue(p, k, Cat(v, y))
           T == {y \in Seq(Plain) : P(y)}
<1>0. Seq(Plain) \subseteq Text
  BY SeqMonotonic DEF Text, Plain
<1>1. Nil \in T
  <2>1. Nil \in Seq(Plain) /\ Cat(text, Nil) = text /\ Cat(k, Nil) = k /\ Cat(v, Nil) = v
    BY NilProperties DEF Text
  <2>2. QED
    BY <2>1
<1>2. ASSUME NEW y \in Seq(Plain), y \in T, NEW t \in Plain PROVE Add(y, t) \in T
  <2>1. y \in Text /\ t \in Token /\ Cat(text, y) \in Text
    BY <1>0, CatType DEF Text, Plain
  <2>2. /\ Cat(text, Add(y, t)) = Add(Cat(text, y), t)
        /\ Cat(k, Add(y, t)) = Add(Cat(k, y), t)
        /\ Cat(v, Add(y, t)) = Add(Cat(v, y), t)
    BY <2>1, CatAdd DEF Text
  <2>3. Scan(Cat(text, Add(y, t))) = Read(Scan(Cat(text, y)), t)
    BY <2>1, <2>2, ScanProperties
  <2>4. Add(y, t) \in Seq(Plain)
    BY AddExtends
  <2>5. P(Add(y, t))
    <3>1. CASE Scan(text) = InKey(p, k)
      <4>1. Scan(Cat(text, y)) = InKey(p, Cat(k, y))
        BY <1>2, <3>1
      <4>2. Scan(Cat(text, Add(y, t))) = InKey(p, Add(Cat(k, y), t))
        BY <2>3, <4>1, ReadKey
      <4>3. ~(Scan(text) = InValue(p, k, v))
        <5>1. ~InKey(p, k).inValue /\ InValue(p, k, v).inValue
          BY StateFields
        <5>2. QED
          BY <3>1, <5>1
      <4>4. QED
        BY <2>2, <4>2, <4>3
    <3>2. CASE Scan(text) = InValue(p, k, v)
      <4>1. Scan(Cat(text, y)) = InValue(p, k, Cat(v, y))
        BY <1>2, <3>2
      <4>2. Scan(Cat(text, Add(y, t))) = InValue(p, k, Add(Cat(v, y), t))
        BY <2>3, <4>1, ReadValue
      <4>3. ~(Scan(text) = InKey(p, k))
        <5>1. ~InKey(p, k).inValue /\ InValue(p, k, v).inValue
          BY StateFields
        <5>2. QED
          BY <3>2, <5>1
      <4>4. QED
        BY <2>2, <4>2, <4>3
    <3>3. QED
      BY <3>1, <3>2
  <2> HIDE DEF P
  <2>6. QED
    BY <2>4, <2>5
<1> HIDE DEF T
<1>3. x \in T
  BY <1>1, <1>2, SeqSetInduction
<1>4. QED
  BY <1>3 DEF T

-----------------------------------------------------------------------------
(* The text of one pair, read after those before it.                       *)

LEMMA TextKinds ==
  Seq(Plain) \subseteq Text /\ Nil \in Text
<1>1. Seq(Plain) \subseteq Text
  BY SeqMonotonic DEF Text, Plain
<1>2. Nil \in Text
  BY NilProperties DEF Text
<1>3. QED
  BY <1>1, <1>2

LEMMA NothingFound ==
  Found(Scan(Nil)) = Nil
<1>1. Scan(Nil) = InKey(Nil, Nil)
  BY ScanProperties
<1>2. Found(InKey(Nil, Nil)) = Nil
  BY StateFields
<1>3. QED
  BY <1>1, <1>2

\* A plain text after "=" is the value.
LEMMA ScanValue ==
  ASSUME NEW text \in Text, NEW x \in Seq(Plain), NEW p, NEW k \in Text, NEW v \in Text,
         Scan(text) = InValue(p, k, v)
  PROVE  Scan(Cat(text, x)) = InValue(p, k, Cat(v, x))
<1>1. /\ Scan(text) = InKey(p, k) => Scan(Cat(text, x)) = InKey(p, Cat(k, x))
      /\ Scan(text) = InValue(p, k, v) => Scan(Cat(text, x)) = InValue(p, k, Cat(v, x))
  BY ScanPlain
<1>2. QED
  BY <1>1, Zenon

LEMMA EncodeNil ==
  ASSUME NEW text \in Text
  PROVE  Encode(text) = Nil <=> text = Nil
<1>1. CASE text = Nil
  BY <1>1, CodeProperties
<1>2. CASE text # Nil
  <2>1. PICK t \in Seq(Token), x \in Token : text = Add(t, x)
    BY <1>2, NilOrAdd DEF Text
  <2>2. Encode(text) = Add(Encode(t), Encoding[x])
    BY <2>1, CodeProperties DEF Text
  <2>3. Encode(t) \in Seq(Plain) /\ Encoding[x] \in Plain
    BY <2>1, CodeProperties, EncodingProperties DEF Text
  <2>4. Add(Encode(t), Encoding[x]) # Nil
    BY <2>3, AddExtends
  <2>5. QED
    BY <1>2, <2>2, <2>4
<1>3. QED
  BY <1>1, <1>2

\* What is read of the fields that PushParam writes.
LEMMA JoinStepScan ==
  ASSUME NEW params, IsParams(params), NEW query \in Text, NEW key \in DOMAIN params
  PROVE  Found(Scan(JoinStep(params, query, key))) =
            IF key = Nil THEN Found(Scan(query))
            ELSE Add(Found(Scan(query)), Both(Encode(key), Encode(params[key])))
<1> DEFINE f  == Found(Scan(query))
           ek == Encode(key)
           ev == Encode(params[key])
           q0 == Cat(query, IF query = Nil THEN Nil ELSE One("&"))
           q1 == Cat(q0, ek)
           q2 == Cat(q1, One("="))
           q3 == Cat(q2, ev)
<1>0. Seq(Plain) \subseteq Text /\ Nil \in Text /\ "&" \in Token /\ "=" \in Token
  BY TextKinds, SpecialTokens
<1>1. /\ key \in Text /\ params[key] \in Text
      /\ ek \in Seq(Plain) /\ ev \in Seq(Plain) /\ ek \in Text /\ ev \in Text
      /\ ek = Nil <=> key = Nil
  BY <1>0, CodeProperties, EncodeNil DEF IsParams
<1>2. Cat(Nil, ek) = ek /\ Cat(Nil, ev) = ev
  BY <1>1, NilProperties DEF Text
<1>3. JoinStep(params, query, key) = q3
  BY Zenon DEF JoinStep
<1> HIDE DEF ek, ev
<1>4. q0 \in Text /\ Scan(q0) = InKey(f, Nil)
  <2>1. CASE query = Nil
    <3>1. q0 = Nil
      BY <1>0, <2>1, NilProperties DEF Text
    <3>2. Scan(q0) = InKey(Nil, Nil) /\ f = Nil
      BY <2>1, <3>1, ScanProperties, NothingFound
    <3>3. QED
      BY <1>0, <3>1, <3>2
  <2>2. CASE query # Nil
    <3>1. q0 = Add(query, "&")
      BY <1>0, <2>2, CatAdd DEF Text
    <3>2. q0 \in Text
      BY <1>0, <3>1, AddExtends DEF Text
    <3>3. QED
      BY <3>1, <3>2, ScanEnds
  <2>3. QED
    BY <2>1, <2>2
<1> HIDE DEF f, q0
<1>5. q1 \in Text /\ Scan(q1) = InKey(f, ek)
  BY <1>0, <1>1, <1>2, <1>4, ScanPlain, CatType DEF Text
<1> HIDE DEF q1
<1>6. q2 \in Text /\ Scan(q2) = Read(InKey(f, ek), "=")
  <2>1. q2 = Add(q1, "=")
    BY <1>0, <1>5, CatAdd DEF Text
  <2>2. q2 \in Text
    BY <1>0, <1>5, <2>1, AddExtends DEF Text
  <2>3. QED
    BY <1>0, <1>5, <2>1, <2>2, ScanProperties
<1> HIDE DEF q2
<1>7. CASE key = Nil
  <2>1. Scan(q2) = InKey(f, Nil)
    <3>1. "=" \notin Plain
      BY DEF Plain
    <3>2. QED
      BY <1>0, <1>1, <1>6, <1>7, <3>1, ReadEnd
  <2>2. Scan(q3) = InKey(f, ev)
    BY <1>0, <1>1, <1>2, <1>6, <2>1, ScanPlain
  <2>3. QED
    BY <1>3, <1>7, <2>2, StateFields DEF f
<1>8. CASE key # Nil
  <2>1. Scan(q2) = InValue(f, ek, Nil)
    BY <1>1, <1>6, <1>8, ReadEquals
  <2>2. Scan(q3) = InValue(f, ek, ev)
    <3>1. Scan(q3) = InValue(f, ek, Cat(Nil, ev))
      BY <1>0, <1>1, <1>6, <2>1, ScanValue
    <3>2. QED
      BY <1>2, <3>1
  <2>3. QED
    BY <1>3, <1>8, <2>2, StateFields DEF f, ek, ev
<1>9. QED
  BY <1>7, <1>8

-----------------------------------------------------------------------------
(* What was written is what is found.                                      *)

DecodingPair   == [p \in Pair |-> Both(Decode(p[1]), Decode(p[2]))]
Decoded(pairs) == Through(DecodingPair, pairs)

Sending(params) == [key \in DOMAIN params |-> OneIf(key # << >>, <<key, params[key]>>)]
SendableOf(params, keys) == FlattenSeq(Through(Sending(params), keys))

Unescaped == Seq(Token \ Escaped)
IsUnescaped(params) ==
    \A key \in DOMAIN params : key \in Unescaped /\ params[key] \in Unescaped

\* Decoding pairs, one by one.
LEMMA DecodedProperties ==
  /\ Decoded(Nil) = Nil
  /\ \A pairs \in Seq(Pair) : Decoded(pairs) \in Seq(Pair)
  /\ \A pairs \in Seq(Pair), k, v \in Text :
        Decoded(Add(pairs, Both(k, v))) = Add(Decoded(pairs), Both(Decode(k), Decode(v)))
<1>1. DecodingPair \in [Pair -> Pair]
  <2>1. ASSUME NEW p \in Pair PROVE Both(Decode(p[1]), Decode(p[2])) \in Pair
    <3>1. p[1] \in Text /\ p[2] \in Text
      BY DEF Pair
    <3>2. QED
      BY <3>1, CodeProperties, BothType
  <2>2. QED
    BY <2>1 DEF DecodingPair
<1>2. GoesThrough(DecodingPair, Pair, Pair)
  BY <1>1, ThroughProperties
<1>3. ASSUME NEW k \in Text, NEW v \in Text
      PROVE  Both(k, v) \in Pair /\ DecodingPair[Both(k, v)] = Both(Decode(k), Decode(v))
  BY BothType DEF DecodingPair
<1>4. QED
  BY <1>2, <1>3, Zenon DEF GoesThrough, Decoded

\* The pairs that can be sent, one by one.
LEMMA SendingProperties ==
  ASSUME NEW params, IsParams(params)
  PROVE  /\ SendableOf(params, Nil) = Nil
         /\ \A keys \in Seq(DOMAIN params) : SendableOf(params, keys) \in Seq(Pair)
         /\ \A keys \in Seq(DOMAIN params), key \in DOMAIN params :
               SendableOf(params, Add(keys, key)) =
                  IF key = Nil THEN SendableOf(params, keys)
                  ELSE Add(SendableOf(params, keys), Both(key, params[key]))
<1> DEFINE D == DOMAIN params
           g == Sending(params)
<1>1. ASSUME NEW key \in D
      PROVE  /\ g[key] = IF key # Nil THEN One(Both(key, params[key])) ELSE Nil
             /\ g[key] \in Seq(Pair) /\ Both(key, params[key]) \in Pair
  <2>1. Both(key, params[key]) \in Pair
    BY BothType DEF IsParams
  <2>2. g[key] = OneIf(key # Nil, Both(key, params[key]))
    BY DEF Sending, Nil, Both
  <2>3. QED
    BY <2>1, <2>2, OneIfType
<1>2. g \in [D -> Seq(Pair)]
  BY <1>1 DEF Sending
<1> HIDE DEF D, g
<1>3. Gathers(g, D, Pair)
  BY <1>2, GatherProperties
<1>4. ASSUME NEW keys \in Seq(D), NEW key \in D
      PROVE  SendableOf(params, Add(keys, key)) =
                IF key = Nil THEN SendableOf(params, keys)
                ELSE Add(SendableOf(params, keys), Both(key, params[key]))
  <2> DEFINE s == SendableOf(params, keys)
  <2>1. s \in Seq(Pair) /\ SendableOf(params, Add(keys, key)) = Cat(s, g[key])
    BY <1>3, Zenon DEF Gathers, SendableOf, g
  <2> HIDE DEF s
  <2>2. Cat(s, Nil) = s
    BY <2>1, NilProperties
  <2>3. Cat(s, One(Both(key, params[key]))) = Add(s, Both(key, params[key]))
    BY <1>1, <2>1, CatAdd
  <2>4. QED
    BY <1>1, <2>1, <2>2, <2>3 DEF s
<1>5. QED
  BY <1>3, <1>4, Zenon DEF Gathers, SendableOf, g, D

\* The fields of a list arrive as they were given.
LEMMA JoinedAreSendable ==
  ASSUME NEW params, IsParams(params), IsUnescaped(params), NEW list \in Seq(DOMAIN params)
  PROVE  Decoded(Found(Scan(JoinOf(params, list)))) = SendableOf(params, list)
<1> DEFINE D == DOMAIN params
           P(keys) == Decoded(Found(Scan(JoinOf(params, keys)))) = SendableOf(params, keys)
           T == {keys \in Seq(D) : P(keys)}
<1>1. Nil \in T
  <2>1. Nil \in Seq(D)
    BY NilProperties
  <2>2. JoinOf(params, Nil) = Nil /\ SendableOf(params, Nil) = Nil
    BY JoinOfProperties, SendingProperties
  <2>3. Found(Scan(Nil)) = Nil
    BY NothingFound
  <2>4. QED
    BY <2>1, <2>2, <2>3, DecodedProperties
<1>2. ASSUME NEW keys \in Seq(D), keys \in T, NEW key \in D PROVE Add(keys, key) \in T
  <2> DEFINE q == JoinOf(params, keys)
             f == Found(Scan(q))
             s == SendableOf(params, keys)
  <2>1. q \in Text
    BY JoinOfProperties
  <2>2. f \in Seq(Pair)
    BY <2>1, ScanProperties, FoundType
  <2>3. JoinOf(params, Add(keys, key)) = JoinStep(params, q, key)
    BY JoinOfProperties
  <2>4. Found(Scan(JoinOf(params, Add(keys, key)))) =
           IF key = Nil THEN f ELSE Add(f, Both(Encode(key), Encode(params[key])))
    BY <2>1, <2>3, JoinStepScan
  <2>5. Decoded(f) = s
    BY <1>2
  <2>6. SendableOf(params, Add(keys, key)) = IF key = Nil THEN s ELSE Add(s, Both(key, params[key]))
    BY SendingProperties
  <2> HIDE DEF q, f, s
  <2>7. Decoded(Add(f, Both(Encode(key), Encode(params[key])))) = Add(s, Both(key, params[key]))
    <3>1. Encode(key) \in Text /\ Encode(params[key]) \in Text
      <4>1. Seq(Plain) \subseteq Text
        BY SeqMonotonic DEF Text, Plain
      <4>2. QED
        BY <4>1, CodeProperties DEF IsParams
    <3>2. Decode(Encode(key)) = key /\ Decode(Encode(params[key])) = params[key]
      BY DecodeEncode DEF IsUnescaped, Unescaped
    <3>3. QED
      BY <2>2, <2>5, <3>1, <3>2, DecodedProperties
  <2>8. Add(keys, key) \in Seq(D)
    BY AddExtends, Zenon
  <2>9. QED
    BY <2>4, <2>5, <2>6, <2>7, <2>8
<1> HIDE DEF T, D
<1>3. list \in T
  BY <1>1, <1>2, SeqSetInduction DEF D
<1>4. QED
  BY <1>3 DEF T

-----------------------------------------------------------------------------
(* Put, pair by pair.                                                      *)

\* Queries puts the pairs in one after the other.
ParamMap == UNION {[D -> Text] : D \in SUBSET Text}

PutStep(list, key, value) ==
    [k \in DOMAIN list \cup {Name(key)} |->
        IF k # Name(key) THEN list[k]
        ELSE IF IsArray(key) /\ k \in DOMAIN list THEN Cat(Cat(list[k], One(",")), value)
        ELSE value]

Putting == [a \in ParamMap \X Pair |-> PutStep(a[1], Decode(a[2][1]), Decode(a[2][2]))]

LEMMA NameType ==
  ASSUME NEW key \in Text
  PROVE  Name(key) \in Text
<1>1. CASE IsArray(key)
  <2>1. Len(key) \in Nat /\ Len(key) > 0
    BY <1>1 DEF IsArray, Text
  <2>2. SubSeq(key, 1, Len(key) - 1) \in Text
    BY <2>1 DEF Text
  <2>3. QED
    BY <1>1, <2>2 DEF Name, Front
<1>2. CASE ~IsArray(key)
  BY <1>2 DEF Name
<1>3. QED
  BY <1>1, <1>2

LEMMA PutStepType ==
  ASSUME NEW list \in ParamMap, NEW key \in Text, NEW value \in Text
  PROVE  PutStep(list, key, value) \in ParamMap
<1>1. PICK D \in SUBSET Text : list \in [D -> Text]
  BY DEF ParamMap
<1>2. D \cup {Name(key)} \in SUBSET Text
  BY NameType
<1>3. ASSUME NEW k \in D PROVE Cat(Cat(list[k], One(",")), value) \in Text
  <2>1. One(",") \in Text /\ list[k] \in Text
    BY <1>1, SpecialTokens, CatAdd, TextKinds DEF Text
  <2>2. QED
    BY <2>1, CatType DEF Text
<1>4. PutStep(list, key, value) \in [D \cup {Name(key)} -> Text]
  BY <1>1, <1>2, <1>3 DEF PutStep
<1>5. QED
  BY <1>2, <1>4 DEF ParamMap

LEMMA PuttingProperties ==
  /\ \A list \in ParamMap, pair \in Pair :
        Putting[<<list, pair>>] = PutStep(list, Decode(pair[1]), Decode(pair[2]))
  /\ Closed(Putting, ParamMap, Pair)
  /\ NoParams \in ParamMap
<1>1. \A list \in ParamMap, pair \in Pair :
         Putting[<<list, pair>>] = PutStep(list, Decode(pair[1]), Decode(pair[2]))
  BY DEF Putting
<1>2. ASSUME NEW list \in ParamMap, NEW pair \in Pair
      PROVE  PutStep(list, Decode(pair[1]), Decode(pair[2])) \in ParamMap
  <2>1. pair[1] \in Text /\ pair[2] \in Text
    BY DEF Pair
  <2>2. QED
    BY <2>1, CodeProperties, PutStepType
<1>3. NoParams \in ParamMap
  <2>1. NoParams \in [{} -> Text]
    BY DEF NoParams
  <2>2. QED
    BY <2>1 DEF ParamMap
<1>4. QED
  BY <1>1, <1>2, <1>3, Zenon DEF Closed

LEMMA PutFolds ==
  ASSUME NEW pairs \in Seq(Pair)
  PROVE  FoldLeft(Put, NoParams, pairs) = Folded(Putting, ParamMap, NoParams, pairs)
<1> DEFINE Eq(h) == h = [s \in SUBSET DOMAIN pairs |->
                            IF s = {} THEN NoParams
                            ELSE PutStep(h[s \ {Max(s)}], Decode(pairs[Max(s)][1]),
                                         Decode(pairs[Max(s)][2]))]
           iter == CHOOSE h : Eq(h)
<1>1. FoldLeft(Put, NoParams, pairs) = iter[DOMAIN pairs]
  BY DEF FoldLeft, MapThenFoldSet, Put, PutStep, Cat, One
<1>2. \A s \in SUBSET DOMAIN pairs : s # {} => pairs[Max(s)] \in Pair
  BY MaxOfPositions
<1>3. Eq(iter)
  <2>1. PICK h \in [SUBSET DOMAIN pairs -> ParamMap] :
              IsIteration(Putting, NoParams, pairs, Len(pairs), h)
    BY PuttingProperties, IterationExists
  <2>2. ASSUME NEW s \in SUBSET DOMAIN pairs
        PROVE  h[s] = IF s = {} THEN NoParams
                      ELSE PutStep(h[s \ {Max(s)}], Decode(pairs[Max(s)][1]),
                                   Decode(pairs[Max(s)][2]))
    <3>1. s \in SUBSET (1..Len(pairs)) /\ h[s \ {Max(s)}] \in ParamMap
      OBVIOUS
    <3>2. QED
      BY <1>2, <2>1, <3>1, PuttingProperties DEF IsIteration
  <2>3. Eq(h)
    BY <2>2
  <2> HIDE DEF Eq
  <2>4. QED
    BY <2>3
<1> DEFINE h == iter
<1>4. h = [s \in SUBSET DOMAIN pairs |->
              IF s = {} THEN NoParams
              ELSE PutStep(h[s \ {Max(s)}], Decode(pairs[Max(s)][1]),
                           Decode(pairs[Max(s)][2]))]
  BY <1>3
<1> HIDE DEF iter, h, Eq
<1>5. Iterates(Putting, ParamMap, NoParams, pairs, h)
  BY <1>2, <1>4, PuttingProperties DEF Iterates
<1>6. h[DOMAIN pairs] = Folded(Putting, ParamMap, NoParams, pairs)
  BY <1>5, PuttingProperties, IterationFolds
<1>7. QED
  BY <1>1, <1>6 DEF h

PutAll(pairs) == FoldLeft(Put, NoParams, pairs)

\* Queries, pair by pair.
LEMMA PutAllProperties ==
  /\ PutAll(Nil) = NoParams
  /\ \A pairs \in Seq(Pair) : PutAll(pairs) \in ParamMap
  /\ \A pairs \in Seq(Pair), k, v \in Text :
        PutAll(Add(pairs, Both(k, v))) = PutStep(PutAll(pairs), Decode(k), Decode(v))
<1> DEFINE F(pairs) == Folded(Putting, ParamMap, NoParams, pairs)
<1>1. Nil \in Seq(Pair) /\ \A pairs \in Seq(Pair), p \in Pair : Add(pairs, p) \in Seq(Pair)
  BY NilProperties, AddExtends
<1>2. \A pairs \in Seq(Pair) : PutAll(pairs) = F(pairs)
  BY PutFolds DEF PutAll
<1>3. /\ F(Nil) = NoParams
      /\ \A pairs \in Seq(Pair) : F(pairs) \in ParamMap
      /\ \A pairs \in Seq(Pair), p \in Pair : F(Add(pairs, p)) = Putting[<<F(pairs), p>>]
  BY PuttingProperties, FoldedProperties
<1> HIDE DEF F
<1>4. ASSUME NEW pairs \in Seq(Pair), NEW k \in Text, NEW v \in Text
      PROVE  PutAll(Add(pairs, Both(k, v))) = PutStep(PutAll(pairs), Decode(k), Decode(v))
  <2> DEFINE p == Both(k, v)
  <2>1. p \in Pair /\ p[1] = k /\ p[2] = v
    BY BothType
  <2> HIDE DEF p
  <2>2. PutAll(Add(pairs, p)) = Putting[<<PutAll(pairs), p>>]
    BY <1>1, <1>2, <1>3, <2>1
  <2>3. PutAll(pairs) \in ParamMap
    BY <1>2, <1>3
  <2>4. QED
    BY <2>1, <2>2, <2>3, PuttingProperties DEF p
<1>5. QED
  BY <1>1, <1>2, <1>3, <1>4, Zenon

-----------------------------------------------------------------------------
(* Reading, parameter by parameter.                                        *)

Weighed(params, name) ==
    [i \in DOMAIN params |-> OneIf(Counts(params, name, i), params[i][2])]

LEMMA WeighedType ==
  ASSUME NEW params \in Seq(Pair), NEW name
  PROVE  /\ Weighed(params, name) \in Seq(Seq(Text))
         /\ Len(Weighed(params, name)) = Len(params)
         /\ Values(params, name) = FlattenSeq(Weighed(params, name))
         /\ Values(params, name) \in Seq(Text)
<1>1. Len(params) \in Nat /\ DOMAIN params = 1..Len(params) /\ \A i \in DOMAIN params : params[i] \in Pair
  OBVIOUS
<1>2. ASSUME NEW i \in DOMAIN params
      PROVE  OneIf(Counts(params, name, i), params[i][2]) \in Seq(Text)
  <2>1. params[i][2] \in Text
    BY <1>1 DEF Pair
  <2>2. QED
    BY <2>1, OneIfType
<1>3. Weighed(params, name) \in [1..Len(params) -> Seq(Text)]
  BY <1>1, <1>2 DEF Weighed
<1>4. Values(params, name) = FlattenSeq(Weighed(params, name))
  BY DEF Values, Weighed
<1>5. Weighed(params, name) \in Seq(Seq(Text)) /\ Len(Weighed(params, name)) = Len(params)
  BY <1>1, <1>3
<1>6. QED
  BY <1>4, <1>5, FlattenProperties

\* One more parameter.
LEMMA CountsOfAdd ==
  ASSUME NEW params \in Seq(Pair), NEW key \in Text, NEW value \in Text, NEW name,
         NEW t, t = Add(params, Both(key, value))
  PROVE  /\ \A i \in 1..Len(params) :
               Counts(t, name, i) <=> /\ Counts(params, name, i)
                                      /\ ~(Name(key) = name /\ ~IsArray(key))
         /\ Counts(t, name, Len(t)) <=> Name(key) = name
<1>1. Both(key, value) \in Pair /\ Both(key, value)[1] = key
  BY BothType
<1>2. Extends(t, params, Both(key, value))
  BY <1>1, AddExtends, Zenon
<1>3. /\ Len(params) \in Nat /\ Len(t) = Len(params) + 1
      /\ DOMAIN params = 1..Len(params) /\ DOMAIN t = 1..(Len(params) + 1)
      /\ \A i \in 1..Len(params) : t[i] = params[i]
      /\ t[Len(t)][1] = key
  BY <1>1, <1>2 DEF Extends
<1>4. key = name /\ ~IsArray(key) <=> Name(key) = name /\ ~IsArray(key)
  BY DEF Name
<1>5. ASSUME NEW i \in 1..Len(params)
      PROVE  Counts(t, name, i) <=> /\ Counts(params, name, i)
                                    /\ ~(Name(key) = name /\ ~IsArray(key))
  <2>1. i \in DOMAIN t /\ i \in DOMAIN params /\ ~(Len(t) <= i) /\ Len(t) \in DOMAIN t
    BY <1>3
  <2>2. ASSUME Counts(t, name, i)
        PROVE  Counts(params, name, i) /\ ~(Name(key) = name /\ ~IsArray(key))
    BY <1>3, <1>4, <2>1, <2>2 DEF Counts
  <2>3. ASSUME Counts(params, name, i), ~(Name(key) = name /\ ~IsArray(key))
        PROVE  Counts(t, name, i)
    BY <1>3, <1>4, <2>1, <2>3 DEF Counts
  <2>4. QED
    BY <2>2, <2>3
<1>6. Counts(t, name, Len(t)) <=> Name(key) = name
  BY <1>3 DEF Counts
<1>7. QED
  BY <1>5, <1>6

\* One more pair: an array element joins the values of its name, a plain key replaces them.
LEMMA ValuesOfAdd ==
  ASSUME NEW params \in Seq(Pair), NEW key \in Text, NEW value \in Text, NEW name
  PROVE  Values(Add(params, Both(key, value)), name) =
            IF Name(key) # name THEN Values(params, name)
            ELSE IF IsArray(key) THEN Add(Values(params, name), value)
            ELSE One(value)
<1> DEFINE t == Add(params, Both(key, value))
           w == Weighed(params, name)
           u == Weighed(t, name)
           vs == Values(params, name)
<1>1. Both(key, value) \in Pair /\ Both(key, value)[2] = value
  BY BothType
<1>2. t \in Seq(Pair) /\ Extends(t, params, Both(key, value))
  BY <1>1, AddExtends, Zenon
<1>3. /\ \A i \in 1..Len(params) :
            Counts(t, name, i) <=> Counts(params, name, i) /\ ~(Name(key) = name /\ ~IsArray(key))
      /\ Counts(t, name, Len(t)) <=> Name(key) = name
  BY CountsOfAdd
<1> HIDE DEF t
<1>4. /\ Len(params) \in Nat /\ Len(t) = Len(params) + 1
      /\ DOMAIN params = 1..Len(params) /\ DOMAIN t = 1..Len(t)
      /\ \A i \in 1..Len(params) : t[i] = params[i]
      /\ t[Len(t)] = Both(key, value)
  BY <1>2 DEF Extends
<1>5. /\ w \in Seq(Seq(Text)) /\ u \in Seq(Seq(Text))
      /\ Len(w) = Len(params) /\ Len(u) = Len(t)
      /\ vs = FlattenSeq(w) /\ Values(t, name) = FlattenSeq(u) /\ vs \in Seq(Text)
  BY <1>2, WeighedType
<1>6. /\ \A i \in 1..Len(params) : w[i] = OneIf(Counts(params, name, i), params[i][2])
      /\ \A i \in 1..Len(t) : u[i] = OneIf(Counts(t, name, i), t[i][2])
  BY <1>4 DEF Weighed
<1> HIDE DEF w, u, vs
<1>7. u[Len(t)] = IF Name(key) = name THEN One(value) ELSE Nil
  <2>1. u[Len(t)] = OneIf(Counts(t, name, Len(t)), value)
    BY <1>1, <1>4, <1>6
  <2>2. QED
    BY <1>3, <2>1, OneIfType
<1>8. One(value) \in Seq(Text) /\ Nil \in Seq(Text)
  BY NilProperties, CatAdd
<1>9. CASE ~(Name(key) = name /\ ~IsArray(key))
  <2>1. \A i \in 1..Len(params) : u[i] = w[i]
    <3> SUFFICES ASSUME NEW i \in 1..Len(params) PROVE u[i] = w[i]
      OBVIOUS
    <3>1. i \in 1..Len(t) /\ t[i] = params[i]
      BY <1>4
    <3>2. Counts(t, name, i) <=> Counts(params, name, i)
      BY <1>3, <1>9
    <3>3. u[i] = OneIf(Counts(t, name, i), params[i][2]) /\ w[i] = OneIf(Counts(params, name, i), params[i][2])
      BY <1>6, <3>1
    <3>4. QED
      BY <3>2, <3>3 DEF OneIf
  <2> DEFINE last == u[Len(t)]
  <2>2. last \in Seq(Text) /\ Extends(u, w, last)
    BY <1>4, <1>5, <1>7, <1>8, <2>1 DEF Extends
  <2> HIDE DEF last
  <2>3. u = Add(w, last)
    BY <1>5, <2>2, ExtendsIsAdd
  <2>4. FlattenSeq(u) = Cat(vs, last)
    BY <1>5, <2>2, <2>3, FlattenProperties
  <2>5. Cat(vs, Nil) = vs /\ Cat(vs, One(value)) = Add(vs, value)
    BY <1>5, NilProperties, CatAdd
  <2>6. QED
    BY <1>5, <1>7, <1>9, <2>4, <2>5 DEF last, t, vs
<1>10. CASE Name(key) = name /\ ~IsArray(key)
  <2> DEFINE nils == [i \in 1..Len(params) |-> Nil]
  <2>1. nils \in Seq({Nil}) /\ Len(nils) = Len(params) /\ DOMAIN nils = 1..Len(params)
    BY <1>4
  <2>2. nils \in Seq(Seq(Text)) /\ FlattenSeq(nils) = Nil
    <3>1. Seq({Nil}) \subseteq Seq(Seq(Text))
      BY <1>8, SeqMonotonic
    <3>2. QED
      BY <2>1, <3>1, FlattenNils
  <2>3. \A i \in 1..Len(params) : u[i] = nils[i]
    <3> SUFFICES ASSUME NEW i \in 1..Len(params) PROVE u[i] = nils[i]
      OBVIOUS
    <3>1. i \in 1..Len(t) /\ ~Counts(t, name, i)
      BY <1>3, <1>4, <1>10
    <3>2. u[i] = OneIf(Counts(t, name, i), t[i][2])
      BY <1>6, <3>1
    <3>3. QED
      BY <3>1, <3>2 DEF OneIf, Nil
  <2>4. Extends(u, nils, One(value))
    <3>1. u[Len(u)] = One(value)
      BY <1>5, <1>7, <1>10
    <3>2. DOMAIN u = 1..Len(u) /\ Len(u) = Len(nils) + 1 /\ Len(nils) \in Nat
      BY <1>4, <1>5, <2>1
    <3> HIDE DEF nils
    <3>3. QED
      BY <2>1, <2>3, <3>1, <3>2 DEF Extends
  <2> HIDE DEF nils
  <2>5. u = Add(nils, One(value))
    BY <1>5, <1>8, <2>2, <2>4, ExtendsIsAdd
  <2>6. FlattenSeq(u) = Cat(Nil, One(value))
    BY <1>8, <2>2, <2>5, FlattenProperties
  <2>7. Cat(Nil, One(value)) = One(value)
    BY <1>8, NilProperties
  <2>8. QED
    BY <1>5, <1>10, <2>6, <2>7 DEF t
<1>11. QED
  BY <1>9, <1>10

LEMMA ValuesOfNil ==
  ASSUME NEW name
  PROVE  Values(Nil, name) = Nil
<1>1. Nil \in Seq(Pair) /\ DOMAIN Nil = {}
  BY NilProperties
<1>2. Weighed(Nil, name) = [i \in {} |-> Nil]
  BY <1>1 DEF Weighed
<1>3. Weighed(Nil, name) \in Seq({Nil})
  BY <1>2
<1>4. Values(Nil, name) = FlattenSeq(Weighed(Nil, name))
  BY <1>1, WeighedType
<1>5. QED
  BY <1>3, <1>4, FlattenNils

Names(params) == {Name(params[i][1]) : i \in DOMAIN params}

\* It may bring a name.
LEMMA NamesOfAdd ==
  ASSUME NEW params \in Seq(Pair), NEW key \in Text, NEW value \in Text
  PROVE  Names(Add(params, Both(key, value))) = Names(params) \cup {Name(key)}
<1> DEFINE t == Add(params, Both(key, value))
<1>1. Both(key, value) \in Pair /\ Both(key, value)[1] = key
  BY BothType
<1>2. t \in Seq(Pair) /\ Extends(t, params, Both(key, value))
  BY <1>1, AddExtends, Zenon
<1> HIDE DEF t
<1>3. /\ DOMAIN t = DOMAIN params \cup {Len(t)}
      /\ \A i \in DOMAIN params : t[i] = params[i]
      /\ t[Len(t)] = Both(key, value)
  BY <1>2 DEF Extends
<1>4. Names(t) = Names(params) \cup {Name(key)}
  BY <1>1, <1>3 DEF Names
<1>5. QED
  BY <1>4 DEF t

\* The names are those that have values.
LEMMA NamesHaveValues ==
  ASSUME NEW params \in Seq(Pair)
  PROVE  /\ Names(params) \subseteq Text
         /\ \A name : name \in Names(params) <=> Values(params, name) # Nil
<1> DEFINE P(s) == /\ Names(s) \subseteq Text
                   /\ \A name : name \in Names(s) <=> Values(s, name) # Nil
           T == {s \in Seq(Pair) : P(s)}
<1>1. Nil \in T
  <2>1. Nil \in Seq(Pair) /\ Names(Nil) = {}
    BY NilProperties DEF Names
  <2>2. QED
    BY <2>1, ValuesOfNil
<1>2. ASSUME NEW s \in Seq(Pair), s \in T, NEW p \in Pair PROVE Add(s, p) \in T
  <2>1. PICK k \in Text, v \in Text : p = Both(k, v)
    BY DEF Pair, Both
  <2> DEFINE t == Add(s, p)
  <2>2. Names(t) = Names(s) \cup {Name(k)} /\ t \in Seq(Pair)
    BY <2>1, NamesOfAdd, AddExtends
  <2>3. Names(t) \subseteq Text
    BY <1>2, <2>2, NameType
  <2>4. ASSUME NEW name PROVE name \in Names(t) <=> Values(t, name) # Nil
    <3> DEFINE vs == Values(s, name)
    <3>1. Values(t, name) = IF Name(k) # name THEN vs ELSE IF IsArray(k) THEN Add(vs, v) ELSE One(v)
      BY <2>1, ValuesOfAdd
    <3>2. name \in Names(s) <=> vs # Nil
      BY <1>2
    <3>3. vs \in Seq(Text)
      BY WeighedType
    <3> HIDE DEF vs, t
    <3>4. Add(vs, v) # Nil
      BY <3>3, AddExtends
    <3>5. One(v) # Nil
      <4>1. One(v) = Add(Nil, v) /\ Nil \in Seq(Text)
        BY CatAdd, NilProperties
      <4>2. QED
        BY <4>1, AddExtends
    <3>6. QED
      BY <2>2, <3>1, <3>2, <3>4, <3>5
  <2> HIDE DEF t
  <2>5. P(t)
    BY <2>3, <2>4
  <2> HIDE DEF P
  <2>6. QED
    BY <2>2, <2>5 DEF t
<1> HIDE DEF T
<1>3. params \in T
  BY <1>1, <1>2, SeqSetInduction
<1>4. QED
  BY <1>3 DEF T

Commaed(vs) == [n \in DOMAIN vs |-> IF n = 1 THEN vs[n] ELSE Cat(One(","), vs[n])]

\* One more value comes after a comma, if there was one before it.
LEMMA CommasOfAdd ==
  /\ \A vs \in Seq(Text) : Commas(vs) \in Text
  /\ \A vs \in Seq(Text), v \in Text :
        Commas(Add(vs, v)) =
           IF vs = Nil THEN v ELSE Cat(Cat(Commas(vs), One(",")), v)
<1>0. One(",") \in Text /\ Nil \in Text
  BY SpecialTokens, CatAdd, TextKinds DEF Text
<1>1. ASSUME NEW vs \in Seq(Text)
      PROVE  /\ Commaed(vs) \in Seq(Text) /\ Len(Commaed(vs)) = Len(vs)
             /\ Commas(vs) = FlattenSeq(Commaed(vs)) /\ Commas(vs) \in Text
  <2>1. Len(vs) \in Nat /\ DOMAIN vs = 1..Len(vs) /\ \A i \in DOMAIN vs : vs[i] \in Text
    OBVIOUS
  <2>2. \A i \in DOMAIN vs : Cat(One(","), vs[i]) \in Text
    BY <1>0, <2>1, CatType DEF Text
  <2>3. Commaed(vs) \in [1..Len(vs) -> Text]
    BY <2>1, <2>2 DEF Commaed
  <2>4. Commas(vs) = FlattenSeq(Commaed(vs))
    BY DEF Commas, Commaed, Cat, One
  <2>5. Commaed(vs) \in Seq(Text) /\ Len(Commaed(vs)) = Len(vs)
    BY <2>1, <2>3
  <2>6. FlattenSeq(Commaed(vs)) \in Text
    BY <2>5, FlattenProperties DEF Text
  <2>7. QED
    BY <2>4, <2>5, <2>6
<1>2. ASSUME NEW vs \in Seq(Text), NEW v \in Text
      PROVE  Commas(Add(vs, v)) = IF vs = Nil THEN v ELSE Cat(Cat(Commas(vs), One(",")), v)
  <2> DEFINE t == Add(vs, v)
             c == Commaed(vs)
             d == Commaed(t)
             last == IF vs = Nil THEN v ELSE Cat(One(","), v)
  <2>1. t \in Seq(Text) /\ Extends(t, vs, v)
    BY AddExtends, Zenon
  <2>2. vs = Nil <=> Len(vs) = 0
    BY EmptySeq DEF Nil
  <2> HIDE DEF t
  <2>3. /\ c \in Seq(Text) /\ Len(c) = Len(vs) /\ Commas(vs) = FlattenSeq(c)
        /\ d \in Seq(Text) /\ Len(d) = Len(t) /\ Commas(t) = FlattenSeq(d)
        /\ Commas(vs) \in Text
    BY <1>1, <2>1
  <2>4. /\ Len(vs) \in Nat /\ Len(t) = Len(vs) + 1 /\ t[Len(t)] = v
        /\ DOMAIN vs = 1..Len(vs) /\ DOMAIN t = 1..Len(t)
        /\ \A i \in 1..Len(vs) : t[i] = vs[i]
    BY <2>1 DEF Extends
  <2>5. \A i \in 1..Len(vs) : d[i] = c[i]
    <3>1. \A i \in 1..Len(vs) : i \in DOMAIN t /\ i \in DOMAIN vs
      BY <2>4
    <3>2. QED
      BY <2>4, <3>1 DEF Commaed
  <2>6. d[Len(t)] = last
    <3>1. Len(t) \in DOMAIN t /\ (Len(t) = 1 <=> vs = Nil)
      BY <2>2, <2>4
    <3>2. d[Len(t)] = IF Len(t) = 1 THEN v ELSE Cat(One(","), v)
      BY <2>4, <3>1 DEF Commaed
    <3>3. QED
      BY <3>1, <3>2
  <2>7. last \in Text
    BY <1>0, CatType DEF Text
  <2> HIDE DEF c, d
  <2>8. DOMAIN c = 1..Len(c) /\ DOMAIN d = 1..Len(d)
    BY <2>3
  <2>9. Extends(d, c, last)
    <3> HIDE DEF last
    <3>1. QED
      BY <2>3, <2>4, <2>5, <2>6, <2>8 DEF Extends
  <2>10. d = Add(c, last)
    <3> HIDE DEF last
    <3>1. QED
      BY <2>3, <2>7, <2>9, ExtendsIsAdd
  <2>11. Commas(t) = Cat(Commas(vs), last)
    <3> HIDE DEF last
    <3>1. QED
      BY <2>3, <2>7, <2>10, FlattenProperties DEF Text
  <2>12. CASE vs = Nil
    <3>1. c = Nil
      BY <2>2, <2>3, <2>12, EmptySeq DEF Nil
    <3>2. Commas(vs) = Nil
      BY <2>3, <3>1, FlattenProperties
    <3>3. Cat(Nil, v) = v
      BY NilProperties DEF Text
    <3>4. QED
      BY <2>11, <2>12, <3>2, <3>3 DEF t
  <2>13. CASE vs # Nil
    <3>1. Cat(Cat(Commas(vs), One(",")), v) = Cat(Commas(vs), Cat(One(","), v))
      <4> DEFINE a == Commas(vs)
                 b == One(",")
      <4>1. a \in Seq(Token) /\ b \in Seq(Token) /\ v \in Seq(Token)
        BY <1>0, <2>3 DEF Text
      <4> HIDE DEF a, b
      <4>2. Cat(Cat(a, b), v) = Cat(a, Cat(b, v))
        BY <4>1, CatAssociative
      <4>3. QED
        BY <4>2 DEF a, b
    <3>2. QED
      BY <2>11, <2>13, <3>1 DEF t
  <2>14. QED
    BY <2>12, <2>13
<1>3. QED
  BY <1>1, <1>2, Zenon

\* Reading, one parameter after the other.
LEMMA ReadingOfAdd ==
  ASSUME NEW params \in Seq(Pair), NEW key \in Text, NEW value \in Text
  PROVE  Reading(Add(params, Both(key, value))) = PutStep(Reading(params), key, value)
<1> DEFINE t == Add(params, Both(key, value))
           list == Reading(params)
           new == PutStep(list, key, value)
<1>1. DOMAIN list = Names(params) /\ \A n \in Names(params) : list[n] = Commas(Values(params, n))
  BY DEF Reading, Names
<1>2. Names(t) = Names(params) \cup {Name(key)}
  BY NamesOfAdd
<1>3. Reading(t) = [n \in Names(t) |-> Commas(Values(t, n))]
  BY DEF Reading, Names
<1> HIDE DEF list
<1>4. ASSUME NEW n \in Names(t) PROVE new[n] = Commas(Values(t, n))
  <2> DEFINE vs == Values(params, n)
  <2>1. Values(t, n) = IF Name(key) # n THEN vs ELSE IF IsArray(key) THEN Add(vs, value) ELSE One(value)
    BY ValuesOfAdd
  <2>2. vs \in Seq(Text) /\ (n \in Names(params) <=> vs # Nil)
    BY WeighedType, NamesHaveValues
  <2>3. n \in Names(params) => list[n] = Commas(vs)
    BY <1>1
  <2> HIDE DEF vs, t
  <2>4. CASE Name(key) # n
    BY <1>1, <1>2, <2>1, <2>3, <2>4 DEF PutStep
  <2>5. CASE Name(key) = n /\ IsArray(key)
    <3>1. Commas(Add(vs, value)) = IF vs = Nil THEN value ELSE Cat(Cat(Commas(vs), One(",")), value)
      BY <2>2, CommasOfAdd
    <3>2. QED
      BY <1>1, <1>2, <2>1, <2>2, <2>3, <2>5, <3>1 DEF PutStep
  <2>6. CASE Name(key) = n /\ ~IsArray(key)
    <3>1. One(value) = Add(Nil, value) /\ Nil \in Seq(Text)
      BY CatAdd, NilProperties
    <3>2. Commas(One(value)) = value
      BY <3>1, CommasOfAdd
    <3>3. QED
      BY <1>1, <1>2, <2>1, <2>6, <3>2 DEF PutStep
  <2>7. QED
    BY <2>4, <2>5, <2>6
<1>5. new = [n \in Names(t) |-> new[n]]
  BY <1>1, <1>2 DEF PutStep
<1> HIDE DEF new, t
<1>6. Reading(t) = new
  BY <1>3, <1>4, <1>5
<1>7. QED
  BY <1>6 DEF t, new, list

\* Queries gives the last plain value of each name and the array values after it.
LEMMA PairsAreRead ==
  ASSUME NEW list \in Seq(Pair)
  PROVE  PutAll(list) = Reading(Decoded(list))
<1> DEFINE T == {pairs \in Seq(Pair) : PutAll(pairs) = Reading(Decoded(pairs))}
<1>1. Nil \in T
  <2>1. Nil \in Seq(Pair) /\ DOMAIN Nil = {}
    BY NilProperties
  <2>2. Reading(Nil) = NoParams
    BY <2>1 DEF Reading, NoParams
  <2>3. QED
    BY <2>1, <2>2, PutAllProperties, DecodedProperties
<1>2. ASSUME NEW pairs \in Seq(Pair), pairs \in T, NEW p \in Pair PROVE Add(pairs, p) \in T
  <2>1. PICK k \in Text, v \in Text : p = Both(k, v)
    BY DEF Pair, Both
  <2>2. Add(pairs, p) \in Seq(Pair) /\ Decoded(pairs) \in Seq(Pair)
    BY AddExtends, DecodedProperties
  <2>3. Decode(k) \in Text /\ Decode(v) \in Text
    BY CodeProperties
  <2>4. PutAll(Add(pairs, p)) = PutStep(PutAll(pairs), Decode(k), Decode(v))
    BY <2>1, PutAllProperties
  <2>5. Decoded(Add(pairs, p)) = Add(Decoded(pairs), Both(Decode(k), Decode(v)))
    BY <2>1, DecodedProperties
  <2>6. Reading(Add(Decoded(pairs), Both(Decode(k), Decode(v)))) =
           PutStep(Reading(Decoded(pairs)), Decode(k), Decode(v))
    BY <2>2, <2>3, ReadingOfAdd
  <2>7. PutAll(pairs) = Reading(Decoded(pairs))
    BY <1>2
  <2>8. QED
    BY <2>2, <2>4, <2>5, <2>6, <2>7
<1> HIDE DEF T
<1>3. list \in T
  BY <1>1, <1>2, SeqSetInduction
<1>4. QED
  BY <1>3 DEF T

\* Queries is the reading of what Matches has found, for every text.
THEOREM QueriesAreRead ==
  ASSUME NEW query \in Text
  PROVE  Queries(query) = Reading(Decoded(Matches(query)))
<1>1. Matches(query) \in Seq(Pair)
  BY MatchesAreFound
<1>2. Queries(query) = PutAll(Matches(query))
  BY DEF Queries, PutAll
<1>3. QED
  BY <1>1, <1>2, PairsAreRead

-----------------------------------------------------------------------------
(* Params, field by field.                                                 *)

\* The parameters of some fields.
ParamOf == [field \in Text |-> Param(field)]
ParamsOf(fields) == FlattenSeq(Through(ParamOf, fields))

LEMMA ParamType ==
  ASSUME NEW field \in Text
  PROVE  Param(field) \in Seq(Pair)
<1> DEFINE i == CHOOSE i \in Equals(field) : TRUE
           test == \E j \in Equals(field) : j > 1
           k == Decode(SubSeq(field, 1, i - 1))
           v == Decode(SubSeq(field, i + 1, Len(field)))
<1>1. Param(field) = OneIf(test, Both(k, v))
  BY DEF Param, Both
<1>2. ASSUME test PROVE Both(k, v) \in Pair
  <2>1. i \in Equals(field)
    BY <1>2
  <2>2. Len(field) \in Nat /\ i \in 1..Len(field)
    BY <2>1 DEF Equals, Text
  <2> HIDE DEF i
  <2>3. SubSeq(field, 1, i - 1) \in Text /\ SubSeq(field, i + 1, Len(field)) \in Text
    BY <2>2 DEF Text
  <2>4. QED
    BY <2>3, CodeProperties, BothType
<1> HIDE DEF test, k, v
<1>3. QED
  BY <1>1, <1>2, OneIfType

LEMMA ParamsOfProperties ==
  /\ ParamsOf(Nil) = Nil
  /\ \A fs \in Seq(Text) : ParamsOf(fs) \in Seq(Pair)
  /\ \A fs \in Seq(Text), f \in Text : ParamsOf(Add(fs, f)) = Cat(ParamsOf(fs), Param(f))
<1>1. ParamOf \in [Text -> Seq(Pair)] /\ \A f \in Text : ParamOf[f] = Param(f)
  BY ParamType DEF ParamOf
<1>2. Gathers(ParamOf, Text, Pair)
  BY <1>1, GatherProperties
<1>3. QED
  BY <1>1, <1>2, Zenon DEF Gathers, ParamsOf

\* Params, field by field.
LEMMA ParamsAreOfFields ==
  ASSUME NEW query \in Text
  PROVE  Params(query) = ParamsOf(Fields(query))
<1> DEFINE fields == Fields(query)
<1>1. fields \in Seq(Text)
  BY SplitProperties DEF Fields, Parts
<1>2. \A n \in DOMAIN fields : fields[n] \in Text
  BY <1>1
<1>3. Params(query) = FlattenSeq([n \in DOMAIN fields |-> Param(fields[n])])
  BY DEF Params
<1> HIDE DEF fields
<1>4. Through(ParamOf, fields) = [n \in DOMAIN fields |-> Param(fields[n])]
  BY <1>2 DEF Through, ParamOf
<1>5. QED
  BY <1>3, <1>4 DEF ParamsOf, fields

-----------------------------------------------------------------------------
(* The "=" of a field.                                                     *)

Once(field) == \A i, j \in Equals(field) : i = j
AllOnce(fields) == \A n \in DOMAIN fields : Once(fields[n])

\* A field with one "=" at most had none before that one was read.
LEMMA OnceOfAdd ==
  ASSUME NEW f \in Text, NEW t \in Token, Once(Add(f, t))
  PROVE  Once(f) /\ (t = "=" => Equals(f) = {})
<1> DEFINE g == Add(f, t)
<1>1. Extends(g, f, t)
  BY AddExtends, Zenon DEF Text
<1>2. Once(g)
  OBVIOUS
<1> HIDE DEF g
<1>3. /\ DOMAIN f \subseteq DOMAIN g /\ Len(g) \in DOMAIN g /\ Len(g) \notin DOMAIN f
      /\ \A i \in DOMAIN f : f[i] = g[i]
      /\ g[Len(g)] = t
  BY <1>1 DEF Extends
<1>4. Equals(f) \subseteq Equals(g)
  BY <1>3 DEF Equals
<1>5. t = "=" => Len(g) \in Equals(g)
  BY <1>3 DEF Equals
<1>6. Len(g) \notin Equals(f)
  BY <1>3 DEF Equals
<1>7. QED
  BY <1>2, <1>4, <1>5, <1>6 DEF Once

LEMMA AllOnceOfAdd ==
  ASSUME NEW fs \in Seq(Text), NEW f \in Text
  PROVE  AllOnce(Add(fs, f)) <=> AllOnce(fs) /\ Once(f)
<1> DEFINE gs == Add(fs, f)
<1>1. Extends(gs, fs, f)
  BY AddExtends, Zenon
<1> HIDE DEF gs
<1>2. /\ DOMAIN gs = DOMAIN fs \cup {Len(gs)}
      /\ \A i \in DOMAIN fs : gs[i] = fs[i]
      /\ gs[Len(gs)] = f
  BY <1>1 DEF Extends
<1>3. AllOnce(gs) <=> AllOnce(fs) /\ Once(f)
  BY <1>2 DEF AllOnce
<1>4. QED
  BY <1>3 DEF gs

\* A field that begins like one with its "=" after k, and the parts of it.
LEMMA SplitAtEquals ==
  ASSUME NEW k \in Seq(Plain), NEW v \in Seq(Plain), NEW f, f = Cat(Add(k, "="), v)
  PROVE  /\ f \in Text /\ Len(k) \in Nat
         /\ Equals(f) = {Len(k) + 1}
         /\ SubSeq(f, 1, Len(k)) = k
         /\ SubSeq(f, Len(k) + 2, Len(f)) = v
<1> DEFINE n == Len(k)
           m == Len(v)
<1>1. /\ n \in Nat /\ m \in Nat
      /\ \A i \in 1..n : k[i] \in Token /\ k[i] # "="
      /\ \A i \in 1..m : v[i] \in Token /\ v[i] # "="
  BY DEF Plain
<1>2. "=" \in Token /\ k \in Seq(Token) /\ v \in Seq(Token)
  BY SpecialTokens, TextKinds DEF Text
<1> DEFINE h == Add(k, "=")
<1>3. h \in Seq(Token) /\ Extends(h, k, "=")
  BY <1>2, AddExtends, Zenon
<1>4. f \in Seq(Token) /\ Joins(f, h, v)
  <2>1. f = Cat(h, v)
    OBVIOUS
  <2> HIDE DEF h
  <2>2. QED
    BY <1>2, <1>3, <2>1, CatJoins
<1> HIDE DEF h
<1>5. Len(h) = n + 1 /\ h[n + 1] = "=" /\ \A i \in 1..n : h[i] = k[i]
  BY <1>3 DEF Extends
<1>6. /\ f \in Seq(Token) /\ Len(f) = n + 1 + m /\ DOMAIN f = 1..(n + 1 + m)
      /\ \A i \in 1..(n + 1) : f[i] = h[i]
      /\ \A i \in 1..m : f[n + 1 + i] = v[i]
  BY <1>4, <1>5 DEF Joins
<1> HIDE DEF n, m
<1>7. Equals(f) = {n + 1}
  <2>1. n + 1 \in Equals(f)
    BY <1>1, <1>5, <1>6 DEF Equals
  <2>2. ASSUME NEW i \in 1..(n + 1 + m), i # n + 1 PROVE f[i] # "="
    <3>1. CASE i <= n
      BY <1>1, <1>5, <1>6, <3>1
    <3>2. CASE i > n + 1
      <4>1. i - (n + 1) \in 1..m /\ i = n + 1 + (i - (n + 1))
        BY <1>1, <3>2
      <4>2. QED
        BY <1>1, <1>6, <4>1
    <3>3. QED
      BY <1>1, <2>2, <3>1, <3>2
  <2>3. QED
    BY <1>6, <2>1, <2>2 DEF Equals
<1>8. SubSeq(f, 1, n) = k
  <2> DEFINE u == SubSeq(f, 1, n)
  <2>1. u \in Seq(Token) /\ Len(u) = n /\ \A i \in 1..n : u[i] = f[i]
    BY <1>1, <1>6
  <2> HIDE DEF u
  <2>2. Len(u) = Len(k) /\ \A i \in 1..Len(u) : u[i] = k[i]
    BY <1>1, <1>5, <1>6, <2>1 DEF n
  <2>3. QED
    BY <1>2, <2>1, <2>2, SeqEqual DEF u
<1>9. SubSeq(f, n + 2, Len(f)) = v
  <2> DEFINE u == SubSeq(f, n + 2, Len(f))
  <2>1. u \in Seq(Token) /\ Len(u) = m /\ \A i \in 1..m : u[i] = f[n + 1 + i]
    BY <1>1, <1>6
  <2> HIDE DEF u
  <2>2. Len(u) = Len(v) /\ \A i \in 1..Len(u) : u[i] = v[i]
    BY <1>1, <1>6, <2>1 DEF m
  <2>3. QED
    BY <1>2, <2>1, <2>2, SeqEqual DEF u
<1>10. QED
  BY <1>1, <1>6, <1>7, <1>8, <1>9 DEF n, Text

LEMMA EqualsOfPlain ==
  ASSUME NEW f \in Seq(Plain)
  PROVE  Equals(f) = {} /\ Param(f) = Nil
<1>1. \A i \in DOMAIN f : f[i] # "="
  BY DEF Plain
<1>2. Equals(f) = {}
  BY <1>1 DEF Equals
<1>3. QED
  BY <1>2 DEF Param, OneIf, Nil

\* A field with an "=" is a parameter, unless nothing is before it.
LEMMA ParamAtEquals ==
  ASSUME NEW k \in Seq(Plain), NEW v \in Seq(Plain)
  PROVE  Param(Cat(Add(k, "="), v)) = IF k = Nil THEN Nil ELSE One(Both(Decode(k), Decode(v)))
<1> DEFINE f == Cat(Add(k, "="), v)
           n == Len(k)
           i == CHOOSE i \in Equals(f) : TRUE
           test == \E j \in Equals(f) : j > 1
<1>1. /\ n \in Nat /\ Equals(f) = {n + 1}
      /\ SubSeq(f, 1, n) = k /\ SubSeq(f, n + 2, Len(f)) = v
  BY SplitAtEquals
<1>2. k = Nil <=> n = 0
  BY EmptySeq DEF Nil
<1>3. Param(f) = OneIf(test, <<Decode(SubSeq(f, 1, i - 1)), Decode(SubSeq(f, i + 1, Len(f)))>>)
  BY DEF Param
<1> HIDE DEF f, n
<1>4. i = n + 1
  BY <1>1
<1>5. test <=> k # Nil
  BY <1>1, <1>2
<1> HIDE DEF i, test
<1>6. i - 1 = n /\ i + 1 = n + 2
  BY <1>1, <1>4
<1>7. Param(f) = OneIf(test, <<Decode(k), Decode(v)>>)
  BY <1>1, <1>3, <1>6
<1>8. QED
  BY <1>5, <1>7 DEF OneIf, One, Nil, Both, f

-----------------------------------------------------------------------------
(* A form, field by field.                                                 *)

\* Where reading is after the pairs p, in the field f.
Fits(s, p, f) ==
    \/ f \in Seq(Plain) /\ s = InKey(p, f)
    \/ \E k, v \in Seq(Plain) :
          /\ f = Cat(Add(k, "="), v)
          /\ s = IF k = Nil THEN InKey(p, v) ELSE InValue(p, k, v)

Follows(query) ==
    \E fs \in Seq(Text), f \in Text, p \in Seq(Pair) :
        /\ Fields(query) = Add(fs, f)
        /\ Decoded(p) = ParamsOf(fs)
        /\ Fits(Scan(query), p, f)

\* When a field ends, the automaton has found its parameter.
LEMMA FoundOfFields ==
  ASSUME NEW fs \in Seq(Text), NEW f \in Text, NEW p \in Seq(Pair), NEW s,
         Decoded(p) = ParamsOf(fs), Fits(s, p, f)
  PROVE  Found(s) \in Seq(Pair) /\ Decoded(Found(s)) = ParamsOf(Add(fs, f))
<1> DEFINE ps == ParamsOf(fs)
<1>1. ps \in Seq(Pair) /\ ParamsOf(Add(fs, f)) = Cat(ps, Param(f))
  BY ParamsOfProperties
<1>2. Decoded(p) = ps
  OBVIOUS
<1> HIDE DEF ps
<1>3. Cat(ps, Nil) = ps
  BY <1>1, NilProperties
<1>4. CASE f \in Seq(Plain) /\ s = InKey(p, f)
  <2>1. Found(s) = p /\ Param(f) = Nil
    BY <1>4, StateFields, EqualsOfPlain
  <2>2. QED
    BY <1>1, <1>2, <1>3, <2>1
<1>5. ASSUME NEW k \in Seq(Plain), NEW v \in Seq(Plain), f = Cat(Add(k, "="), v),
             s = IF k = Nil THEN InKey(p, v) ELSE InValue(p, k, v)
      PROVE  Found(s) \in Seq(Pair) /\ Decoded(Found(s)) = ParamsOf(Add(fs, f))
  <2>1. Param(f) = IF k = Nil THEN Nil ELSE One(Both(Decode(k), Decode(v)))
    BY <1>5, ParamAtEquals
  <2>2. Found(s) = IF k = Nil THEN p ELSE Add(p, Both(k, v))
    BY <1>5, StateFields
  <2>3. k \in Text /\ v \in Text
    BY TextKinds
  <2>4. Both(k, v) \in Pair /\ Both(Decode(k), Decode(v)) \in Pair
    BY <2>3, CodeProperties, BothType
  <2>5. Decoded(Add(p, Both(k, v))) = Add(ps, Both(Decode(k), Decode(v)))
    BY <1>2, <2>3, DecodedProperties
  <2>6. Cat(ps, One(Both(Decode(k), Decode(v)))) = Add(ps, Both(Decode(k), Decode(v)))
    BY <1>1, <2>4, CatAdd
  <2>7. Add(p, Both(k, v)) \in Seq(Pair)
    BY <2>4, AddExtends
  <2>8. QED
    BY <1>1, <1>2, <1>3, <2>1, <2>2, <2>5, <2>6, <2>7
<1>6. QED
  BY <1>4, <1>5 DEF Fits

\* A token more of a field: the automaton goes on.
LEMMA FitsReadsOn ==
  ASSUME NEW p \in Seq(Pair), NEW f \in Text, NEW s, Fits(s, p, f),
         NEW t \in Token, t # "&", Once(Add(f, t))
  PROVE  Fits(Read(s, t), p, Add(f, t))
<1>0. t = "=" => Equals(f) = {}
  BY OnceOfAdd
<1>00. t = "=" \/ t \in Plain
  BY DEF Plain
<1>1. CASE f \in Seq(Plain) /\ s = InKey(p, f)
  <2>1. CASE t \in Plain
    <3>1. Read(s, t) = InKey(p, Add(f, t))
      BY <1>1, <2>1, ReadKey
    <3>2. Add(f, t) \in Seq(Plain)
      BY <1>1, <2>1, AddExtends
    <3>3. QED
      BY <3>1, <3>2 DEF Fits
  <2>2. CASE t = "="
    <3>1. Nil \in Seq(Plain) /\ "=" \in Token /\ "=" \notin Plain
      BY NilProperties, SpecialTokens DEF Plain
    <3>2. Read(s, t) = IF f = Nil THEN InKey(p, Nil) ELSE InValue(p, f, Nil)
      <4>1. CASE f = Nil
        <5>1. Read(InKey(p, f), "=") = InKey(p, Nil)
          BY <3>1, <4>1, ReadEnd
        <5>2. QED
          BY <1>1, <2>2, <4>1, <5>1
      <4>2. CASE f # Nil
        <5>1. Read(InKey(p, f), "=") = InValue(p, f, Nil)
          BY <4>2, ReadEquals
        <5>2. QED
          BY <1>1, <2>2, <4>2, <5>1
      <4>3. QED
        BY <4>1, <4>2
    <3>3. Add(f, t) = Cat(Add(f, "="), Nil)
      <4>1. Add(f, "=") \in Seq(Token)
        BY <3>1, AddExtends DEF Text
      <4>2. QED
        BY <2>2, <4>1, NilProperties
    <3>4. QED
      BY <1>1, <3>1, <3>2, <3>3 DEF Fits
  <2>3. QED
    BY <1>00, <2>1, <2>2
<1>2. ASSUME NEW k \in Seq(Plain), NEW v \in Seq(Plain), f = Cat(Add(k, "="), v),
             s = IF k = Nil THEN InKey(p, v) ELSE InValue(p, k, v)
      PROVE  Fits(Read(s, t), p, Add(f, t))
  <2>1. Equals(f) # {}
    <3>1. Equals(f) = {Len(k) + 1}
      BY <1>2, SplitAtEquals
    <3>2. QED
      BY <3>1
  <2>2. t \in Plain
    BY <1>0, <1>00, <2>1
  <2>3. Read(s, t) = IF k = Nil THEN InKey(p, Add(v, t)) ELSE InValue(p, k, Add(v, t))
    BY <1>2, <2>2, ReadKey, ReadValue
  <2>4. Add(v, t) \in Seq(Plain)
    BY <2>2, AddExtends
  <2>5. Add(f, t) = Cat(Add(k, "="), Add(v, t))
    <3>1. k \in Seq(Token) /\ v \in Seq(Token) /\ "=" \in Token
      BY TextKinds, SpecialTokens DEF Text
    <3>2. Add(k, "=") \in Seq(Token)
      BY <3>1, AddExtends
    <3>3. QED
      BY <1>2, <3>1, <3>2, CatAdd
  <2>6. QED
    BY <2>3, <2>4, <2>5 DEF Fits
<1>3. QED
  BY <1>1, <1>2 DEF Fits

\* A well-formed query is read field by field.
LEMMA FormsAreFollowed ==
  ASSUME NEW query \in Text, AllOnce(Fields(query))
  PROVE  Follows(query)
<1> DEFINE T == {q \in Text : AllOnce(Fields(q)) => Follows(q)}
<1>0. Nil \in Text /\ Nil \in Seq(Text) /\ Nil \in Seq(Pair) /\ Nil \in Seq(Plain)
  BY TextKinds, NilProperties
<1>1. Nil \in T
  <2>1. Fields(Nil) = Add(Nil, Nil) /\ Scan(Nil) = InKey(Nil, Nil)
    BY SplitProperties, ScanProperties DEF Fields, Blank
  <2>2. Decoded(Nil) = ParamsOf(Nil)
    BY DecodedProperties, ParamsOfProperties
  <2>3. Fits(InKey(Nil, Nil), Nil, Nil)
    BY <1>0, Zenon DEF Fits
  <2>4. Follows(Nil)
    BY <1>0, <2>1, <2>2, <2>3, Zenon DEF Follows
  <2>5. QED
    BY <1>0, <2>4
<1>2. ASSUME NEW q \in Seq(Token), q \in T, NEW t \in Token PROVE Add(q, t) \in T
  <2>0. q \in Text /\ Add(q, t) \in Text
    BY AddExtends DEF Text
  <2> SUFFICES ASSUME AllOnce(Fields(Add(q, t))) PROVE Follows(Add(q, t))
    BY <2>0
  <2>1. PICK gs \in Seq(Text), g \in Text : Fields(q) = Add(gs, g)
    <3>1. Fields(q) \in Seq(Text) /\ Fields(q) # Nil
      BY <2>0, SplitProperties DEF Fields, Parts
    <3>2. QED
      BY <3>1, NilOrAdd
  <2>2. Fields(Add(q, t)) = IF t = "&" THEN Add(Add(gs, g), Nil) ELSE Add(gs, Add(g, t))
    <3>1. Fields(Add(q, t)) = CutStep(Add(gs, g), t, "&")
      BY <2>0, <2>1, SplitProperties DEF Fields
    <3>2. QED
      BY <3>1, CutStepOfAdd
  <2>3. Add(gs, g) \in Seq(Text) /\ Add(g, t) \in Text
    BY AddExtends DEF Text
  <2>4. AllOnce(Fields(q))
    <3>1. CASE t = "&"
      BY <1>0, <2>1, <2>2, <2>3, <3>1, AllOnceOfAdd
    <3>2. CASE t # "&"
      <4>1. AllOnce(gs) /\ Once(Add(g, t))
        BY <2>2, <2>3, <3>2, AllOnceOfAdd
      <4>2. Once(g)
        BY <4>1, OnceOfAdd
      <4>3. QED
        BY <2>1, <4>1, <4>2, AllOnceOfAdd
    <3>3. QED
      BY <3>1, <3>2
  <2>5. PICK fs \in Seq(Text), f \in Text, p \in Seq(Pair) :
           /\ Fields(q) = Add(fs, f)
           /\ Decoded(p) = ParamsOf(fs)
           /\ Fits(Scan(q), p, f)
    BY <1>2, <2>4 DEF Follows
  <2>6. fs = gs /\ f = g
    <3>1. Add(fs, f) = Add(gs, g)
      BY <2>1, <2>5
    <3>2. QED
      BY <3>1, AddInjective
  <2>7. CASE t = "&"
    <3> DEFINE s == Scan(q)
    <3>1. Found(s) \in Seq(Pair) /\ Decoded(Found(s)) = ParamsOf(Add(fs, f))
      BY <2>5, FoundOfFields
    <3>2. Scan(Add(q, t)) = InKey(Found(s), Nil)
      BY <2>0, <2>7, ScanEnds
    <3>3. Fits(InKey(Found(s), Nil), Found(s), Nil)
      BY <1>0, Zenon DEF Fits
    <3>4. Fields(Add(q, t)) = Add(Add(fs, f), Nil) /\ Add(fs, f) \in Seq(Text)
      BY <2>2, <2>3, <2>6, <2>7
    <3> HIDE DEF s
    <3>5. QED
      BY <1>0, <3>1, <3>2, <3>3, <3>4 DEF Follows
  <2>8. CASE t # "&"
    <3>1. Once(Add(f, t)) /\ Add(f, t) \in Text
      BY <2>2, <2>3, <2>6, <2>8, AllOnceOfAdd
    <3>2. Fits(Read(Scan(q), t), p, Add(f, t))
      BY <2>5, <2>8, <3>1, FitsReadsOn
    <3>3. Scan(Add(q, t)) = Read(Scan(q), t)
      BY <2>0, ScanProperties
    <3>4. Fields(Add(q, t)) = Add(fs, Add(f, t))
      BY <2>2, <2>6, <2>8
    <3>5. QED
      BY <2>5, <3>1, <3>2, <3>3, <3>4 DEF Follows
  <2>9. QED
    BY <2>7, <2>8
<1> HIDE DEF T
<1>3. query \in T
  BY <1>1, <1>2, SeqSetInduction DEF Text
<1>4. QED
  BY <1>3 DEF T

\* A well-formed query is read as the form it stands for.
THEOREM FormsAreRead ==
  ASSUME NEW query \in Text, WellFormed(query)
  PROVE  Queries(query) = Reading(Params(query))
<1>1. AllOnce(Fields(query))
  BY DEF WellFormed, AllOnce, Once
<1>2. PICK fs \in Seq(Text), f \in Text, p \in Seq(Pair) :
         /\ Fields(query) = Add(fs, f)
         /\ Decoded(p) = ParamsOf(fs)
         /\ Fits(Scan(query), p, f)
  BY <1>1, FormsAreFollowed DEF Follows
<1>3. Decoded(Found(Scan(query))) = ParamsOf(Fields(query))
  BY <1>2, FoundOfFields
<1>4. Matches(query) = Found(Scan(query))
  BY MatchesAreFound
<1>5. QED
  BY <1>3, <1>4, QueriesAreRead, ParamsAreOfFields

-----------------------------------------------------------------------------
(* Numbers, comma by comma.                                                *)

\* A separator between two texts keeps their parts apart.
LEMMA SplitOfCat ==
  ASSUME NEW separator \in Token, NEW a \in Text, NEW b \in Text
  PROVE  Split(Cat(Cat(a, One(separator)), b), separator) =
            Cat(Split(a, separator), Split(b, separator))
<1> DEFINE c == Cat(a, One(separator))
           A == Split(a, separator)
           P(y) == Split(Cat(c, y), separator) = Cat(A, Split(y, separator))
           T == {y \in Text : P(y)}
<1>0. /\ A \in Seq(Text) /\ c \in Text /\ c = Add(a, separator)
      /\ Nil \in Text /\ Nil \in Seq(Text)
  <2>1. c = Add(a, separator)
    BY CatAdd DEF Text
  <2>2. Add(a, separator) \in Text
    BY AddExtends DEF Text
  <2>3. A \in Seq(Text)
    BY SplitProperties DEF Parts
  <2>4. QED
    BY <2>1, <2>2, <2>3, TextKinds, NilProperties
<1>1. Nil \in T
  <2>1. Cat(c, Nil) = c
    BY <1>0, NilProperties DEF Text
  <2>2. Split(c, separator) = Add(A, Nil)
    BY <1>0, SplitProperties DEF CutStep
  <2>3. Cat(A, Blank) = Add(A, Nil)
    BY <1>0, CatAdd, NilProperties DEF Blank
  <2>4. Split(Nil, separator) = Blank
    BY SplitProperties
  <2>5. QED
    BY <1>0, <2>1, <2>2, <2>3, <2>4
<1> HIDE DEF A, c
<1>2. ASSUME NEW y \in Seq(Token), y \in T, NEW t \in Token PROVE Add(y, t) \in T
  <2>1. y \in Text /\ Add(y, t) \in Text /\ Cat(c, y) \in Text
    BY <1>0, AddExtends, CatType DEF Text
  <2>2. Cat(c, Add(y, t)) = Add(Cat(c, y), t)
    BY <1>0, <2>1, CatAdd DEF Text
  <2>3. PICK bs \in Seq(Text), f \in Text : Split(y, separator) = Add(bs, f)
    <3>1. Split(y, separator) \in Seq(Text) /\ Split(y, separator) # Nil
      BY <2>1, SplitProperties DEF Parts
    <3>2. QED
      BY <3>1, NilOrAdd
  <2>4. Split(Cat(c, y), separator) = Add(Cat(A, bs), f)
    <3>1. Split(Cat(c, y), separator) = Cat(A, Add(bs, f))
      BY <1>2, <2>3
    <3>2. QED
      BY <1>0, <3>1, CatAdd
  <2>5. Cat(A, bs) \in Seq(Text)
    BY <1>0, CatType
  <2>6. Split(Add(y, t), separator) =
           IF t = separator THEN Add(Add(bs, f), Nil) ELSE Add(bs, Add(f, t))
    <3>1. Split(Add(y, t), separator) = CutStep(Add(bs, f), t, separator)
      BY <2>1, <2>3, SplitProperties
    <3>2. QED
      BY <3>1, CutStepOfAdd
  <2>7. Split(Cat(c, Add(y, t)), separator) =
           IF t = separator THEN Add(Add(Cat(A, bs), f), Nil) ELSE Add(Cat(A, bs), Add(f, t))
    <3>1. Split(Cat(c, Add(y, t)), separator) = CutStep(Add(Cat(A, bs), f), t, separator)
      BY <2>1, <2>2, <2>4, SplitProperties
    <3>2. QED
      BY <2>5, <3>1, CutStepOfAdd
  <2>8. Cat(A, Add(Add(bs, f), Nil)) = Add(Add(Cat(A, bs), f), Nil)
    <3>1. Add(bs, f) \in Seq(Text) /\ Cat(A, Add(bs, f)) = Add(Cat(A, bs), f)
      BY <1>0, AddExtends, CatAdd
    <3>2. QED
      BY <1>0, <3>1, CatAdd
  <2>9. Cat(A, Add(bs, Add(f, t))) = Add(Cat(A, bs), Add(f, t))
    <3>1. Add(f, t) \in Text
      BY AddExtends DEF Text
    <3>2. QED
      BY <1>0, <3>1, CatAdd
  <2>10. P(Add(y, t))
    BY <2>6, <2>7, <2>8, <2>9
  <2> HIDE DEF P
  <2>11. QED
    BY <2>1, <2>10
<1> HIDE DEF T
<1>3. b \in T
  BY <1>1, <1>2, SeqSetInduction DEF Text
<1>4. QED
  BY <1>3 DEF T, A, c

Splitting == [value \in Text |-> Split(value, ",")]
PartsOf(values) == FlattenSeq(Through(Splitting, values))

LEMMA PartsOfProperties ==
  /\ PartsOf(Nil) = Nil
  /\ \A vs \in Seq(Text) : PartsOf(vs) \in Seq(Text)
  /\ \A vs \in Seq(Text), v \in Text : PartsOf(Add(vs, v)) = Cat(PartsOf(vs), Split(v, ","))
<1>1. Splitting \in [Text -> Seq(Text)] /\ \A v \in Text : Splitting[v] = Split(v, ",")
  BY SplitProperties DEF Splitting, Parts
<1>2. Gathers(Splitting, Text, Text)
  BY <1>1, GatherProperties
<1>3. QED
  BY <1>1, <1>2, Zenon DEF Gathers, PartsOf

\* The commas divide the values again, wherever the values had commas of their own.
LEMMA SplitOfCommas ==
  ASSUME NEW values \in Seq(Text), values # Nil
  PROVE  Split(Commas(values), ",") = PartsOf(values)
<1> DEFINE P(vs) == vs # Nil => Split(Commas(vs), ",") = PartsOf(vs)
           T == {vs \in Seq(Text) : P(vs)}
<1>0. "," \in Token
  BY SpecialTokens
<1>1. Nil \in T
  BY NilProperties
<1>2. ASSUME NEW vs \in Seq(Text), vs \in T, NEW v \in Text PROVE Add(vs, v) \in T
  <2>1. Add(vs, v) \in Seq(Text)
    BY AddExtends
  <2>2. PartsOf(Add(vs, v)) = Cat(PartsOf(vs), Split(v, ","))
    BY PartsOfProperties
  <2>3. Commas(vs) \in Text /\ Split(v, ",") \in Seq(Text)
    BY CommasOfAdd, SplitProperties DEF Parts
  <2>4. CASE vs = Nil
    <3>1. Commas(Add(vs, v)) = v
      BY <2>4, CommasOfAdd
    <3>2. Cat(Nil, Split(v, ",")) = Split(v, ",") /\ PartsOf(vs) = Nil
      BY <2>3, <2>4, NilProperties, PartsOfProperties
    <3>3. P(Add(vs, v))
      BY <2>2, <3>1, <3>2
    <3> HIDE DEF P
    <3>4. QED
      BY <2>1, <3>3
  <2>5. CASE vs # Nil
    <3>1. Commas(Add(vs, v)) = Cat(Cat(Commas(vs), One(",")), v)
      BY <2>5, CommasOfAdd
    <3>2. Split(Commas(Add(vs, v)), ",") = Cat(Split(Commas(vs), ","), Split(v, ","))
      BY <1>0, <2>3, <3>1, SplitOfCat
    <3>3. Split(Commas(vs), ",") = PartsOf(vs)
      BY <1>2, <2>5
    <3>4. P(Add(vs, v))
      BY <2>2, <3>2, <3>3
    <3> HIDE DEF P
    <3>5. QED
      BY <2>1, <3>4
  <2>6. QED
    BY <2>4, <2>5
<1> HIDE DEF T
<1>3. values \in T
  BY <1>1, <1>2, SeqSetInduction
<1>4. QED
  BY <1>3 DEF T

\* stoi throws for an empty element.
LEMMA EmptyIsNoInt == ~IsInt(Nil)
<1>1. Len(Nil) = 0 /\ Nil = << >>
  BY DEF Nil
<1>2. \A tokens : Leading(Nil, tokens) = 0
  <2> SUFFICES ASSUME NEW tokens PROVE Leading(Nil, tokens) = 0
    OBVIOUS
  <2> DEFINE N == {n \in 0..Len(Nil) : n = Len(Nil) \/ Nil[n + 1] \notin tokens}
  <2>1. N = {0}
    BY <1>1
  <2>2. Leading(Nil, tokens) \in N
    <3>1. Leading(Nil, tokens) = Min(N)
      BY DEF Leading
    <3>2. N # {} /\ N \in SUBSET (0..0)
      BY <2>1
    <3> HIDE DEF N
    <3>3. QED
      BY <2>1, <3>1 DEF Min
  <2>3. QED
    BY <2>1, <2>2
<1>3. Unblanked(Nil) = << >>
  BY <1>1, <1>2 DEF Unblanked
<1>4. ~HasSign(Nil)
  BY <1>3 DEF HasSign
<1>5. Figures(Nil) = << >>
  BY <1>1, <1>2, <1>3, <1>4 DEF Figures
<1>6. QED
  BY <1>5 DEF IsInt

\* GetVal of a list is the numbers in the values, whatever field they came with.
THEOREM IntsOfReading ==
  ASSUME NEW params \in Seq(Pair), NEW name \in Names(params), NEW default,
         NEW parts, parts = PartsOf(Values(params, name))
  PROVE  Ints(Reading(params), name, default) =
            IF \A part \in Range(parts) : IsInt(part)
            THEN [i \in DOMAIN parts |-> Stoi(parts[i])] ELSE default
<1> DEFINE values == Values(params, name)
           list == Reading(params)
           text == Commas(values)
<1>1. values \in Seq(Text) /\ values # Nil
  BY WeighedType, NamesHaveValues
<1>2. name \in DOMAIN list /\ list[name] = text
  BY DEF Reading, Names
<1>3. Split(text, ",") = parts
  BY <1>1, SplitOfCommas
<1> HIDE DEF list, text, values
<1>4. AllNumbers(text) <=> \A part \in Range(parts) : IsInt(part)
  BY <1>3 DEF AllNumbers
<1>5. Numbers(text) = [i \in DOMAIN parts |-> Stoi(parts[i])]
  BY <1>3 DEF Numbers
<1>6. ASSUME text = << >> PROVE ~AllNumbers(text)
  <2>1. parts = Blank
    BY <1>3, <1>6, SplitProperties DEF Nil
  <2>2. Nil \in Range(Blank)
    BY DEF Blank, Add, Nil, Range
  <2>3. ~IsInt(Nil)
    BY EmptyIsNoInt
  <2>4. QED
    BY <1>4, <2>1, <2>2, <2>3
<1>7. Ints(list, name, default) = IF AllNumbers(text) THEN Numbers(text) ELSE default
  BY <1>2, <1>6 DEF Ints, IsFilled
<1>8. QED
  BY <1>4, <1>5, <1>7 DEF list
=============================================================================
