---------------------------- MODULE Messages_proofs ----------------------------
(***************************************************************************)
(* Proofs about Messages, for any parameters, headers and queries and any  *)
(* number of calls: every variable keeps its type, the URL a request       *)
(* reports stays the one it was sent with, only a URL that is too long     *)
(* loses a request, the headers and the parameters pushed on one side are  *)
(* those the other side reads, and a query is read as the form and the     *)
(* numbers it stands for.                                                  *)
(***************************************************************************)
EXTENDS Messages, Queries_proofs

Header == STRING \X STRING
ResponseRecord == [status : Codes, is_chunked : BOOLEAN]

-----------------------------------------------------------------------------
(* Types.                                                                  *)

\* What PushHeader takes of a list is in the list.
LEMMA AcceptedType ==
  ASSUME NEW list \in Seq(Header)
  PROVE  Accepted(list) \in Seq(Header) /\ Range(Accepted(list)) \subseteq Range(list)
<1> DEFINE I == {i \in 1..Len(list) : list[i][1] = BadName}
           bad == SelectInSeq(list, LAMBDA h : h[1] = BadName)
<1>1. Len(list) \in Nat /\ DOMAIN list = 1..Len(list) /\ I \in SUBSET (1..Len(list))
  OBVIOUS
<1>2. bad = IF I # {} THEN Min(I) ELSE 0
  BY DEF SelectInSeq
<1>3. I # {} => Min(I) \in I
  <2> HIDE DEF I
  <2>1. QED
    BY <1>1, MinOfRange
<1>4. bad = 0 \/ bad \in 1..Len(list)
  BY <1>2, <1>3
<1>5. Accepted(list) = IF bad = 0 THEN list ELSE SubSeq(list, 1, bad - 1)
  BY DEF Accepted
<1> HIDE DEF I, bad
<1>6. CASE bad = 0
  BY <1>5, <1>6
<1>7. CASE bad \in 1..Len(list)
  <2> DEFINE k == bad - 1
             t == SubSeq(list, 1, k)
  <2>1. k \in Nat /\ k <= Len(list) /\ bad # 0
    BY <1>7
  <2>2. t \in Seq(Header) /\ DOMAIN t = 1..k /\ \A i \in 1..k : t[i] = list[i]
    BY <2>1
  <2>3. Accepted(list) = t
    BY <1>5, <2>1
  <2> HIDE DEF t, k
  <2>4. Range(t) \subseteq Range(list)
    BY <1>1, <2>1, <2>2 DEF Range
  <2>5. QED
    BY <2>2, <2>3, <2>4
<1>8. QED
  BY <1>4, <1>6, <1>7

\* The types of the state that only some steps change.
LEMMA InitTypeOK == Init => TypeOK
<1> SUFFICES ASSUME Init PROVE TypeOK
  OBVIOUS
<1>1. NoUri \in Seq(STRING) /\ << <<"Host", "h">> >> \in Seq(Header)
  BY LiteralsAreStrings DEF Header
<1>2. Nothing \in Message
  BY <1>1 DEF Nothing, Message, Header
<1>3. /\ body \in [Sides -> Seq(STRING)]
      /\ responses \in Seq(ResponseRecord)
      /\ answer.status \in Codes \cup {0, 500} /\ answer.is_chunked \in BOOLEAN
  <2>1. /\ body = [s \in Sides |-> << >>] /\ responses = << >>
        /\ answer.status = 0 /\ answer.is_chunked = FALSE
    BY DEF Init
  <2>2. body \in [Sides -> Seq(STRING)] /\ responses \in Seq(ResponseRecord)
    <3>1. << >> \in Seq(STRING) /\ << >> \in Seq(ResponseRecord)
      BY EmptySeq
    <3>2. QED
      BY <2>1, <3>1
  <2>3. answer.is_chunked \in BOOLEAN
    BY <2>1
  <2>4. answer.status \in Codes \cup {0, 500}
    BY <2>1
  <2>5. QED
    BY <2>2, <2>3, <2>4
<1>4. ASSUME NEW query \in Seq(STRING)
      PROVE  [Nothing EXCEPT !.query = query] \in Message
  BY <1>2 DEF Message
<1>5. CASE own = TRUE
  <2>0. own \in BOOLEAN
    BY <1>5
  <2>1. /\ stage = "building" /\ url \in OwnQueries /\ uri = NoUri /\ calls = 0 /\ seen = Nothing
        /\ headers = [s \in Sides |-> IF s = "client" THEN << <<"Host", "h">> >> ELSE << >>]
    BY <1>5 DEF Init
  <2>2. headers \in [Sides -> Seq(STRING \X STRING)]
    BY <1>1, <2>1 DEF Header
  <2>3. calls \in 0..MaxCalls /\ url \in Seq(STRING)
    BY <2>1, MessageAssumption
  <2>4. QED
    BY <1>1, <1>2, <1>3, <2>0, <2>1, <2>2, <2>3 DEF TypeOK, Stages, ResponseRecord
<1>6. CASE own = FALSE
  <2>0. own \in BOOLEAN
    BY <1>6
  <2>1. /\ stage = "handling" /\ url = NoUri /\ uri \in ForeignQueries /\ calls = MaxCalls - 1
        /\ seen = [Nothing EXCEPT !.query = uri]
        /\ headers = [s \in Sides |-> << >>]
    BY <1>6 DEF Init
  <2>2. headers \in [Sides -> Seq(STRING \X STRING)]
    BY <2>1
  <2>3. calls \in 0..MaxCalls /\ uri \in Seq(STRING)
    BY <2>1, MessageAssumption, ContentAssumption
  <2>4. seen \in Message
    BY <1>4, <2>1, <2>3
  <2>5. QED
    BY <1>1, <1>3, <2>0, <2>1, <2>2, <2>3, <2>4 DEF TypeOK, Stages, ResponseRecord
<1>7. QED
  BY <1>5, <1>6 DEF Init

\* The lists given to PushParam can be written and read back.
LEMMA ListsAreParams ==
  ASSUME NEW params \in ParamLists
  PROVE  IsParams(params) /\ IsUnescaped(params)
<1>1. IsUnescaped(params)
  BY ContentAssumption DEF IsUnescaped, Unescaped, Escaped, Token
<1>2. Unescaped \subseteq Text
  BY SeqMonotonic DEF Unescaped, Text
<1>3. QED
  BY <1>1, <1>2 DEF IsParams, IsUnescaped

LEMMA PushParamKeepsTypes ==
  ASSUME TypeOK, NEW params \in ParamLists, PushParam(params)
  PROVE  TypeOK'
<1>1. IsParams(params)
  BY ListsAreParams
<1>2. url' \in Seq(STRING)
  BY <1>1, JoinType DEF PushParam, Text, Token
<1>3. calls' \in 0..MaxCalls
  BY MessageAssumption DEF TypeOK, PushParam, CanCall
<1>4. UNCHANGED <<stage, own, uri, headers, body, seen, responses, answer>>
  BY DEF PushParam
<1>5. QED
  BY <1>2, <1>3, <1>4 DEF TypeOK

LEMMA HeadersKeepTypes ==
  ASSUME TypeOK, NEW side \in Sides,
         \/ \E list \in HeaderLists : PushHeader(side, list)
         \/ SetContent(side)
         \/ \E type \in FileTypes, added \in BOOLEAN : SetFileContent(side, type, added)
  PROVE  TypeOK'
<1>1. UNCHANGED <<stage, own, url, uri, seen, responses, answer>> /\ CanCall(side)
  BY DEF PushHeader, SetContent, SetFileContent
<1>2. calls' \in 0..MaxCalls
  BY <1>1, MessageAssumption DEF TypeOK, CanCall
<1>3. headers \in [Sides -> Seq(Header)] /\ body \in [Sides -> Seq(STRING)]
  BY DEF TypeOK, Header
<1>4. "text" \in STRING /\ "file" \in STRING /\ \A type \in FileTypes : <<"content-type", type>> \in Header
  BY LiteralsAreStrings DEF Header
<1>5. headers' \in [Sides -> Seq(Header)]
  <2>1. CASE \E list \in HeaderLists : PushHeader(side, list)
    <3>1. PICK list \in HeaderLists : PushHeader(side, list)
      BY <2>1
    <3>2. Accepted(list) \in Seq(Header)
      BY ContentAssumption, AcceptedType DEF Header
    <3>3. headers[side] \o Accepted(list) \in Seq(Header)
      BY <1>3, <3>2
    <3>4. QED
      BY <1>3, <3>1, <3>3 DEF PushHeader
  <2>2. CASE SetContent(side)
    BY <1>3, <2>2 DEF SetContent
  <2>3. CASE \E type \in FileTypes, added \in BOOLEAN : SetFileContent(side, type, added)
    <3>1. PICK type \in FileTypes, added \in BOOLEAN : SetFileContent(side, type, added)
      BY <2>3
    <3>2. Append(headers[side], <<"content-type", type>>) \in Seq(Header)
      BY <1>3, <1>4
    <3>3. QED
      BY <1>3, <3>1, <3>2 DEF SetFileContent
  <2>4. QED
    BY <2>1, <2>2, <2>3
<1>6. body' \in [Sides -> Seq(STRING)]
  <2>1. Append(body[side], "text") \in Seq(STRING) /\ Append(body[side], "file") \in Seq(STRING)
    BY <1>3, <1>4
  <2>2. \/ body' = body
        \/ body' = [body EXCEPT ![side] = Append(body[side], "text")]
        \/ body' = [body EXCEPT ![side] = Append(body[side], "file")]
    BY DEF PushHeader, SetContent, SetFileContent
  <2>3. QED
    BY <1>3, <2>1, <2>2
<1>7. QED
  BY <1>1, <1>2, <1>5, <1>6 DEF TypeOK, Header

LEMMA SendingKeepsTypes ==
  ASSUME TypeOK, SendAsync \/ Connect
  PROVE  TypeOK'
<1>1. CASE SendAsync
  <2>1. uri' \in Seq(STRING)
    BY <1>1, LiteralsAreStrings DEF SendAsync, FullUrl, TypeOK
  <2>2. QED
    BY <1>1, <2>1 DEF SendAsync, TypeOK, Stages
<1>2. CASE Connect
  <2>1. seen' \in Message
    BY <1>2 DEF Connect, Write, TypeOK, Message, Sides
  <2>2. QED
    BY <1>2, <2>1 DEF Connect, TypeOK, Stages
<1>3. QED
  BY <1>1, <1>2

LEMMA RespondKeepsTypes ==
  ASSUME TypeOK, Respond
  PROVE  TypeOK'
<1>0. responses \in Seq(ResponseRecord)
  BY DEF TypeOK, ResponseRecord
<1>1. ASSUME Handling, responses' \in Seq(ResponseRecord)
      PROVE  TypeOK'
  <2>1. calls' \in 0..MaxCalls
    BY <1>1, MessageAssumption DEF TypeOK, Handling
  <2>2. QED
    BY <1>1, <2>1 DEF TypeOK, Handling, ResponseRecord
<1>2. ASSUME NEW base, NEW code \in Codes, base.is_chunked \in BOOLEAN
      PROVE  Append(responses, CopyOf(base, code)) \in Seq(ResponseRecord)
  <2>1. CopyOf(base, code) \in ResponseRecord
    BY <1>2 DEF CopyOf, ResponseRecord
  <2>2. QED
    BY <1>0, <2>1
<1>3. ASSUME NEW code \in Codes, MakeResponse(code) PROVE TypeOK'
  <2> DEFINE base == [is_chunked |-> FALSE]
  <2>1. Append(responses, CopyOf(base, code)) \in Seq(ResponseRecord)
    BY <1>2
  <2>2. QED
    BY <1>1, <1>3, <2>1 DEF MakeResponse
<1>4. ASSUME NEW o \in DOMAIN responses, NEW code \in Codes, DeriveResponse(o, code)
      PROVE  TypeOK'
  <2>1. responses[o] \in ResponseRecord
    BY <1>0
  <2>2. Append(responses, CopyOf(responses[o], code)) \in Seq(ResponseRecord)
    BY <1>2, <2>1 DEF ResponseRecord
  <2>3. QED
    BY <1>1, <1>4, <2>2 DEF DeriveResponse
<1>5. ASSUME NEW o \in DOMAIN responses, CopyResponse(o) PROVE TypeOK'
  <2>1. responses[o] \in ResponseRecord
    BY <1>0
  <2>2. responses[o].status \in Codes
    BY <2>1 DEF ResponseRecord
  <2>3. QED
    BY <1>4, <1>5, <2>2 DEF CopyResponse
<1>6. ASSUME NEW o \in DOMAIN responses, NEW code \in Codes, SetStatusCode(o, code)
      PROVE  TypeOK'
  <2>0. responses[o] \in ResponseRecord
    BY <1>0
  <2>1. [responses[o] EXCEPT !.status = code] \in ResponseRecord
    BY <2>0 DEF ResponseRecord
  <2>2. responses' = [responses EXCEPT ![o] = [responses[o] EXCEPT !.status = code]]
    BY <1>6 DEF SetStatusCode
  <2>3. QED
    BY <1>0, <1>1, <1>6, <2>1, <2>2 DEF SetStatusCode
<1>7. ASSUME NEW o \in DOMAIN responses, SetChunkCallback(o) PROVE TypeOK'
  <2> DEFINE new == [responses[o] EXCEPT !.is_chunked = TRUE]
  <2>0. responses[o] \in ResponseRecord
    BY <1>0
  <2>1. new \in ResponseRecord
    BY <2>0 DEF ResponseRecord
  <2>2. responses' = [responses EXCEPT ![o] = new]
    BY <2>0, <1>7 DEF SetChunkCallback, ResponseRecord
  <2> HIDE DEF new
  <2>3. responses' \in Seq(ResponseRecord)
    BY <1>0, <2>1, <2>2
  <2>4. QED
    BY <1>1, <1>7, <2>3, Zenon DEF SetChunkCallback
<1>8. ASSUME NEW o \in DOMAIN responses, Reply(o) PROVE TypeOK'
  <2>1. /\ stage' = "replied"
        /\ headers' = [headers EXCEPT !["server"] = WithDefaults(headers["server"])]
        /\ answer'.status = responses[o].status /\ answer'.is_chunked = responses[o].is_chunked
        /\ UNCHANGED <<own, url, pushes, uri, body, seen, responses, calls>>
    BY <1>8 DEF Reply
  <2>0. responses[o] \in ResponseRecord
    BY <1>0
  <2>2. responses[o].status \in Codes /\ responses[o].is_chunked \in BOOLEAN
    BY <2>0 DEF ResponseRecord
  <2>3. headers \in [Sides -> Seq(Header)] /\ DefaultHeaders \in Seq(Header) /\ "server" \in Sides
    BY LiteralsAreStrings DEF TypeOK, Header, Sides
  <2>4. WithDefaults(headers["server"]) \in Seq(Header)
    BY <2>3 DEF WithDefaults
  <2>5. headers' \in [Sides -> Seq(Header)]
    BY <2>1, <2>3, <2>4
  <2>6. QED
    BY <2>1, <2>2, <2>5 DEF TypeOK, Stages, Header
<1>9. CASE Throw
  <2>1. /\ stage' = "thrown" /\ answer'.status = 500 /\ answer'.is_chunked = FALSE
        /\ UNCHANGED <<own, url, pushes, uri, headers, body, seen, responses, calls>>
    BY <1>9 DEF Throw
  <2>2. QED
    BY <2>1 DEF TypeOK, Stages
<1>10. QED
  BY <1>3, <1>4, <1>5, <1>6, <1>7, <1>8, <1>9 DEF Respond

\* Every step keeps the types.
LEMMA NextKeepsTypes == TypeOK /\ [Next]_vars => TypeOK'
<1> SUFFICES ASSUME TypeOK, [Next]_vars PROVE TypeOK'
  OBVIOUS
<1>1. CASE Build
  BY <1>1, PushParamKeepsTypes, HeadersKeepTypes DEF Build
<1>2. CASE SendAsync \/ Connect
  BY <1>2, SendingKeepsTypes
<1>3. CASE Respond
  BY <1>3, RespondKeepsTypes
<1>4. CASE UNCHANGED vars
  BY <1>4 DEF vars, TypeOK
<1>5. QED
  BY <1>1, <1>2, <1>3, <1>4 DEF Next

\* Every variable keeps its type, whatever is pushed and read.
THEOREM TypesOK == Spec => []TypeOK
  BY InitTypeOK, NextKeepsTypes, PTL DEF Spec

-----------------------------------------------------------------------------
(* The URL.                                                                *)

\* The uri of the client's evhttp_request does not change once the server has the request.
UrlKept == own /\ Arrived => uri = seen.query

LEMMA InitUrlKept == Init => UrlKept
  BY DEF Init, UrlKept, Arrived

LEMMA NextKeepsUrl == UrlKept /\ [Next]_vars => UrlKept'
<1> SUFFICES ASSUME UrlKept, [Next]_vars PROVE UrlKept'
  OBVIOUS
<1>1. ASSUME UNCHANGED <<stage, own, uri, seen>> PROVE UrlKept'
  BY <1>1 DEF UrlKept, Arrived
<1>2. CASE Build
  BY <1>1, <1>2 DEF Build, PushParam, PushHeader, SetContent, SetFileContent
<1>3. CASE SendAsync
  BY <1>3 DEF SendAsync, UrlKept, Arrived
<1>4. CASE Connect
  BY <1>4 DEF Connect, Write, UrlKept, Arrived
<1>5. CASE Throw \/ \E o \in DOMAIN responses : Reply(o)
  BY <1>5 DEF Throw, Reply, UrlKept, Arrived
<1>6. CASE Handling
  BY <1>1, <1>6 DEF Handling
<1>7. CASE Respond
  BY <1>5, <1>6, <1>7
     DEF Respond, MakeResponse, DeriveResponse, CopyResponse, SetChunkCallback, SetStatusCode
<1>8. CASE UNCHANGED vars
  BY <1>1, <1>8 DEF vars
<1>9. QED
  BY <1>2, <1>3, <1>4, <1>7, <1>8 DEF Next

\* FullUrl, and the parameters read from it, are those of the request as it was sent,
\* whatever is pushed afterwards.
THEOREM UrlsAreSent == Spec => []FullUrlIsSent
<1>1. UrlKept => FullUrlIsSent
  BY DEF UrlKept, Arrived, FullUrl, FullUrlIsSent
<1>2. Spec => []UrlKept
  BY InitUrlKept, NextKeepsUrl, PTL DEF Spec
<1>3. QED
  BY <1>1, <1>2, PTL

-----------------------------------------------------------------------------
(* Headers, header by header.                                              *)

HeaderMap == UNION {[D -> STRING] : D \in SUBSET STRING}
NoHeaders == [n \in {} |-> ""]
AddHeader(map, h) ==
   [n \in DOMAIN map \cup {ToLower(h[1])} |-> IF n = ToLower(h[1]) THEN h[2] ELSE map[n]]
AddHeaders == [a \in HeaderMap \X Header |-> AddHeader(a[1], a[2])]

LEMMA ToLowerType ==
  ASSUME NEW name \in STRING
  PROVE  ToLower(name) \in STRING
  BY ContentAssumption DEF ToLower

LEMMA AddHeadersProperties ==
  /\ \A map \in HeaderMap, h \in Header : AddHeaders[<<map, h>>] = AddHeader(map, h)
  /\ Closed(AddHeaders, HeaderMap, Header)
  /\ NoHeaders \in HeaderMap
<1>1. ASSUME NEW map \in HeaderMap, NEW h \in Header PROVE AddHeader(map, h) \in HeaderMap
  <2>1. PICK D \in SUBSET STRING : map \in [D -> STRING]
    BY DEF HeaderMap
  <2>2. ToLower(h[1]) \in STRING
    BY ToLowerType DEF Header
  <2>3. D \cup {ToLower(h[1])} \in SUBSET STRING /\ h[2] \in STRING
    BY <2>2 DEF Header
  <2>4. AddHeader(map, h) \in [D \cup {ToLower(h[1])} -> STRING]
    BY <2>1, <2>3 DEF AddHeader
  <2>5. QED
    BY <2>3, <2>4 DEF HeaderMap
<1>2. \A map \in HeaderMap, h \in Header : AddHeaders[<<map, h>>] = AddHeader(map, h)
  BY DEF AddHeaders
<1>3. NoHeaders \in HeaderMap
  <2>1. NoHeaders \in [{} -> STRING]
    BY DEF NoHeaders
  <2>2. QED
    BY <2>1 DEF HeaderMap
<1>4. QED
  BY <1>1, <1>2, <1>3 DEF Closed

\* Headers is a fold of AddHeader.
LEMMA HeadersFolded ==
  ASSUME NEW list \in Seq(Header)
  PROVE  Headers(list) = Folded(AddHeaders, HeaderMap, NoHeaders, list)
<1> DEFINE Eq(h) == h = [s \in SUBSET DOMAIN list |->
                            IF s = {} THEN NoHeaders
                            ELSE AddHeader(h[s \ {Max(s)}], list[Max(s)])]
           iter == CHOOSE h : Eq(h)
<1>1. Headers(list) = iter[DOMAIN list]
  BY DEF Headers, FoldLeft, MapThenFoldSet, AddHeader, NoHeaders
<1>2. \A s \in SUBSET DOMAIN list : s # {} => list[Max(s)] \in Header
  BY MaxOfPositions
<1>3. Eq(iter)
  <2>1. PICK h \in [SUBSET DOMAIN list -> HeaderMap] :
              IsIteration(AddHeaders, NoHeaders, list, Len(list), h)
    BY AddHeadersProperties, IterationExists
  <2>2. ASSUME NEW s \in SUBSET DOMAIN list
        PROVE  h[s] = IF s = {} THEN NoHeaders
                      ELSE AddHeader(h[s \ {Max(s)}], list[Max(s)])
    <3>1. s \in SUBSET (1..Len(list)) /\ h[s \ {Max(s)}] \in HeaderMap
      OBVIOUS
    <3>2. QED
      BY <1>2, <2>1, <3>1, AddHeadersProperties DEF IsIteration
  <2>3. Eq(h)
    BY <2>2
  <2> HIDE DEF Eq
  <2>4. QED
    BY <2>3
<1> DEFINE h == iter
<1>4. h = [s \in SUBSET DOMAIN list |->
              IF s = {} THEN NoHeaders
              ELSE AddHeader(h[s \ {Max(s)}], list[Max(s)])]
  BY <1>3
<1> HIDE DEF iter, h, Eq
<1>5. Iterates(AddHeaders, HeaderMap, NoHeaders, list, h)
  BY <1>2, <1>4, AddHeadersProperties DEF Iterates
<1>6. h[DOMAIN list] = Folded(AddHeaders, HeaderMap, NoHeaders, list)
  BY <1>5, AddHeadersProperties, IterationFolds
<1>7. QED
  BY <1>1, <1>6 DEF h

\* Headers goes from left to right.
LEMMA HeadersProperties ==
  /\ Headers(Nil) = NoHeaders
  /\ \A list \in Seq(Header) : Headers(list) \in HeaderMap
  /\ \A list \in Seq(Header), h \in Header :
        Headers(Add(list, h)) = AddHeader(Headers(list), h)
<1> DEFINE Read_(list) == Folded(AddHeaders, HeaderMap, NoHeaders, list)
<1>1. Nil \in Seq(Header) /\ \A list \in Seq(Header), h \in Header : Add(list, h) \in Seq(Header)
  BY NilProperties, AddProperties
<1>2. \A list \in Seq(Header) : Headers(list) = Read_(list)
  BY HeadersFolded
<1>3. /\ Read_(Nil) = NoHeaders
      /\ \A list \in Seq(Header) : Read_(list) \in HeaderMap
      /\ \A list \in Seq(Header), h \in Header :
            Read_(Add(list, h)) = AddHeaders[<<Read_(list), h>>]
  BY AddHeadersProperties, FoldedProperties
<1> HIDE DEF Read_
<1>4. ASSUME NEW list \in Seq(Header), NEW h \in Header
      PROVE  Headers(Add(list, h)) = AddHeader(Headers(list), h)
  <2>1. Headers(Add(list, h)) = AddHeaders[<<Headers(list), h>>]
    BY <1>1, <1>2, <1>3
  <2>2. QED
    BY <1>2, <1>3, <2>1, AddHeadersProperties
<1>5. QED
  BY <1>1, <1>2, <1>3, <1>4, Zenon

\* The value under a name is that of the last header with the name.
Latest(list, i) ==
    \A j \in DOMAIN list : ToLower(list[j][1]) = ToLower(list[i][1]) => j <= i

Reads(list, map) ==
    /\ DOMAIN map = {ToLower(list[i][1]) : i \in DOMAIN list}
    /\ \A i \in DOMAIN list : Latest(list, i) => map[ToLower(list[i][1])] = list[i][2]

\* Headers reads the last header of each name.
LEMMA HeadersRead ==
  ASSUME NEW list \in Seq(Header)
  PROVE  Reads(list, Headers(list))
<1> DEFINE T == {s \in Seq(Header) : Reads(s, Headers(s))}
<1>1. Nil \in T
  <2>1. DOMAIN NoHeaders = {} /\ DOMAIN Nil = {} /\ Nil \in Seq(Header)
    BY NilProperties DEF NoHeaders
  <2>2. QED
    BY <2>1, HeadersProperties DEF Reads
<1>2. ASSUME NEW s \in Seq(Header), s \in T, NEW h \in Header
      PROVE  Add(s, h) \in T
  <2> DEFINE t == Add(s, h)
             n == Len(t)
             old == Headers(s)
             new == AddHeader(old, h)
  <2>0. t \in Seq(Header) /\ Extends(t, s, h)
    BY AddExtends, Zenon
  <2>2. Headers(t) = new
    BY HeadersProperties
  <2>3. Reads(s, old)
    BY <1>2
  <2> HIDE DEF t, old
  <2>1. /\ DOMAIN s = 1..Len(s) /\ DOMAIN t = 1..n /\ Len(s) \in Nat /\ n = Len(s) + 1
        /\ \A i \in 1..Len(s) : t[i] = s[i]
        /\ t[n] = h
    BY <2>0 DEF Extends
  <2>4. DOMAIN new = {ToLower(t[i][1]) : i \in DOMAIN t}
    <3>1. DOMAIN new = {ToLower(s[i][1]) : i \in DOMAIN s} \cup {ToLower(h[1])}
      BY <2>3 DEF AddHeader, Reads
    <3>2. DOMAIN t = DOMAIN s \cup {n} /\ \A i \in DOMAIN s : t[i] = s[i]
      BY <2>1
    <3>3. t[n] = h
      BY <2>1
    <3> HIDE DEF n, new
    <3>4. QED
      BY <3>1, <3>2, <3>3
  <2>5. ASSUME NEW i \in DOMAIN t, Latest(t, i)
        PROVE  new[ToLower(t[i][1])] = t[i][2]
    <3>1. CASE i = n
      BY <2>1, <3>1 DEF AddHeader
    <3>2. CASE i # n
      <4>1. i \in DOMAIN s /\ t[i] = s[i] /\ n \in DOMAIN t
        BY <2>1, <3>2
      <4>2. ToLower(h[1]) # ToLower(s[i][1])
        BY <2>1, <2>5, <4>1 DEF Latest
      <4>3. Latest(s, i)
        BY <2>1, <2>5, <4>1 DEF Latest
      <4>4. old[ToLower(s[i][1])] = s[i][2] /\ ToLower(s[i][1]) \in DOMAIN old
        BY <2>3, <4>1, <4>3 DEF Reads
      <4>5. QED
        BY <4>1, <4>2, <4>4 DEF AddHeader
    <3>3. QED
      BY <3>1, <3>2
  <2> HIDE DEF new
  <2>6. QED
    BY <2>0, <2>2, <2>4, <2>5 DEF Reads, t
<1> HIDE DEF T
<1>3. list \in T
  BY <1>1, <1>2, SeqSetInduction
<1>4. QED
  BY <1>3 DEF T

\* That is what was pushed last.
LEMMA HeadersAreLastPushed ==
  ASSUME NEW list \in Seq(Header)
  PROVE  Headers(list) = LastPushed(list)
<1> DEFINE names == {ToLower(list[i][1]) : i \in DOMAIN list}
           map == Headers(list)
<1>1. map \in HeaderMap
  BY HeadersProperties
<1>2. Reads(list, map)
  BY HeadersRead
<1> HIDE DEF map
<1>3. map = [n \in names |-> map[n]]
  BY <1>1, <1>2 DEF HeaderMap, Reads
<1>4. ASSUME NEW n \in names
      PROVE  map[n] = list[SelectLastInSeq(list, LAMBDA h : ToLower(h[1]) = n)][2]
  <2> DEFINE I == {i \in 1..Len(list) : ToLower(list[i][1]) = n}
  <2>1. Len(list) \in Nat /\ DOMAIN list = 1..Len(list)
    OBVIOUS
  <2>2. I # {} /\ I \in SUBSET (1..Len(list))
    BY <2>1
  <2>3. SelectLastInSeq(list, LAMBDA h : ToLower(h[1]) = n) = Max(I)
    BY <2>2 DEF SelectLastInSeq
  <2>4. Max(I) \in I /\ \A i \in I : i <= Max(I)
    <3> HIDE DEF I
    <3>1. QED
      BY <2>1, <2>2, MaxOfRange
  <2>5. Max(I) \in DOMAIN list /\ ToLower(list[Max(I)][1]) = n
    BY <2>1, <2>4
  <2>6. Latest(list, Max(I))
    BY <2>1, <2>4, <2>5 DEF Latest
  <2>7. QED
    BY <1>2, <2>3, <2>5, <2>6 DEF Reads
<1>5. QED
  BY <1>3, <1>4 DEF LastPushed, map

-----------------------------------------------------------------------------
(* Headers, from one side to the other.                                    *)

Ended  == stage \in {"replied", "thrown"}
\* What an application can have pushed.
Given  == UNION {Range(list) : list \in HeaderLists}
Typed  == {<<"content-type", type>> : type \in FileTypes}
Pushed == Given \cup Typed

\* What each side reads is the list the other one has, and the defaults come after
\* everything else.
HeadersKept ==
    /\ own /\ Arrived => seen.headers = headers["client"]
    /\ Ended => answer.headers = headers["server"]
    /\ stage = "replied" => \E list \in Seq(Header) : headers["server"] = list \o DefaultHeaders
    /\ stage # "replied" => Range(headers["server"]) \subseteq Pushed

LEMMA RangeOfConcat ==
  ASSUME NEW X, NEW s \in Seq(X), NEW t \in Seq(X)
  PROVE  Range(s \o t) \subseteq Range(s) \cup Range(t)
<1> DEFINE u == s \o t
<1>1. /\ Len(s) \in Nat /\ Len(t) \in Nat /\ DOMAIN s = 1..Len(s) /\ DOMAIN t = 1..Len(t)
      /\ DOMAIN u = 1..(Len(s) + Len(t))
      /\ \A i \in 1..(Len(s) + Len(t)) : u[i] = IF i <= Len(s) THEN s[i] ELSE t[i - Len(s)]
  OBVIOUS
<1> HIDE DEF u
<1>2. ASSUME NEW i \in DOMAIN u PROVE u[i] \in Range(s) \cup Range(t)
  <2>1. CASE i <= Len(s)
    BY <1>1, <2>1 DEF Range
  <2>2. CASE i > Len(s)
    <3>1. i - Len(s) \in DOMAIN t /\ u[i] = t[i - Len(s)]
      BY <1>1, <2>2
    <3>2. QED
      BY <3>1 DEF Range
  <2>3. QED
    BY <1>1, <2>1, <2>2
<1>3. Range(u) \subseteq Range(s) \cup Range(t)
  BY <1>2 DEF Range
<1>4. QED
  BY <1>3 DEF u

LEMMA InitHeadersKept == Init => HeadersKept
<1> SUFFICES ASSUME Init PROVE HeadersKept
  OBVIOUS
<1>1. CASE own = TRUE
  <2>1. stage = "building" /\ headers["server"] = << >>
    BY <1>1 DEF Init, Sides
  <2>2. Range(headers["server"]) = {}
    BY <2>1 DEF Range
  <2>3. QED
    BY <2>1, <2>2 DEF HeadersKept, Arrived, Ended
<1>2. CASE own = FALSE
  <2>1. stage = "handling" /\ headers["server"] = << >> /\ ~own
    BY <1>2 DEF Init, Sides
  <2>2. Range(headers["server"]) = {}
    BY <2>1 DEF Range
  <2>3. QED
    BY <2>1, <2>2 DEF HeadersKept, Ended
<1>3. QED
  BY <1>1, <1>2 DEF Init

\* A header is pushed before the message is written, or in the handler.
LEMMA PushKeepsHeaders ==
  ASSUME TypeOK, HeadersKept, NEW side \in Sides, CanCall(side),
         NEW list \in Seq(Header), Range(list) \subseteq Pushed,
         headers' = [headers EXCEPT ![side] = headers[side] \o list],
         UNCHANGED <<stage, own, seen, answer>>
  PROVE  HeadersKept'
<1>1. headers \in [Sides -> Seq(Header)] /\ "server" \in Sides /\ "client" \in Sides
  BY DEF TypeOK, Header, Sides
<1>2. stage \in {"building", "sent", "handling"}
  BY DEF CanCall
<1>3. side = "client" => ~Arrived
  BY DEF CanCall, Arrived
<1>4. side = "server" => headers'["client"] = headers["client"]
  BY <1>1
<1>5. own' /\ Arrived' => seen'.headers = headers'["client"]
  <2>1. side = "client" \/ side = "server"
    BY DEF Sides
  <2>2. QED
    BY <1>3, <1>4, <2>1 DEF HeadersKept, Arrived
<1>6. Range(headers'["server"]) \subseteq Pushed
  <2>1. Range(headers["server"]) \subseteq Pushed
    BY <1>2 DEF HeadersKept
  <2>2. headers["server"] \in Seq(Header)
    BY <1>1
  <2>3. Range(headers["server"] \o list) \subseteq Pushed
    BY <2>1, <2>2, RangeOfConcat
  <2>4. headers'["server"] \in {headers["server"], headers["server"] \o list}
    BY <1>1
  <2>5. QED
    BY <2>1, <2>3, <2>4
<1>7. QED
  BY <1>2, <1>5, <1>6 DEF HeadersKept, Ended

LEMMA BuildKeepsHeaders ==
  ASSUME TypeOK, HeadersKept, Build
  PROVE  HeadersKept'
<1>1. ASSUME UNCHANGED <<stage, own, seen, answer, headers>> PROVE HeadersKept'
  BY <1>1 DEF HeadersKept, Arrived, Ended
<1>2. ASSUME NEW params \in ParamLists, PushParam(params) PROVE HeadersKept'
  BY <1>1, <1>2 DEF PushParam
<1>3. ASSUME NEW side \in Sides, SetContent(side) PROVE HeadersKept'
  BY <1>1, <1>3 DEF SetContent
<1>4. ASSUME NEW side \in Sides, NEW list \in HeaderLists, PushHeader(side, list)
      PROVE  HeadersKept'
  <2>1. Accepted(list) \in Seq(Header) /\ Range(Accepted(list)) \subseteq Pushed
    BY ContentAssumption, AcceptedType DEF Header, Pushed, Given
  <2>2. QED
    BY <1>4, <2>1, PushKeepsHeaders DEF PushHeader
<1>5. ASSUME NEW side \in Sides, NEW type \in FileTypes, NEW added \in BOOLEAN,
             SetFileContent(side, type, added)
      PROVE  HeadersKept'
  <2> DEFINE h == <<"content-type", type>>
  <2>1. CASE type = "unknown"
    BY <1>1, <1>5, <2>1 DEF SetFileContent
  <2>2. CASE type # "unknown"
    <3>1. h \in Header /\ h \in Pushed
      <4>1. \A t \in FileTypes : <<"content-type", t>> \in Header
        BY LiteralsAreStrings DEF Header
      <4>2. h \in Typed
        BY DEF Typed
      <4>3. QED
        BY <4>1, <4>2 DEF Pushed
    <3>2. headers[side] \in Seq(Header)
      BY DEF TypeOK, Header
    <3>3. headers' = [headers EXCEPT ![side] = Append(headers[side], h)]
      BY <1>5, <2>2 DEF SetFileContent
    <3> HIDE DEF h
    <3>4. Append(headers[side], h) = headers[side] \o <<h>>
      BY <3>1, <3>2, AppendIsConcat
    <3>5. <<h>> \in Seq(Header) /\ Range(<<h>>) \subseteq Pushed
      BY <3>1 DEF Range
    <3>6. CanCall(side) /\ UNCHANGED <<stage, own, seen, answer>>
      BY <1>5 DEF SetFileContent
    <3> DEFINE list == <<h>>
    <3>7. headers' = [headers EXCEPT ![side] = headers[side] \o list]
      BY <3>3, <3>4
    <3>8. list \in Seq(Header) /\ Range(list) \subseteq Pushed
      BY <3>5
    <3> HIDE DEF list
    <3>9. QED
      BY <3>6, <3>7, <3>8, PushKeepsHeaders
  <2>3. QED
    BY <2>1, <2>2
<1>6. QED
  BY <1>2, <1>3, <1>4, <1>5 DEF Build

LEMMA SendingKeepsHeaders ==
  ASSUME TypeOK, HeadersKept, SendAsync \/ Connect
  PROVE  HeadersKept'
<1>1. CASE SendAsync
  BY <1>1 DEF SendAsync, HeadersKept, Arrived, Ended
<1>2. CASE Connect
  <2>1. /\ stage = "sent" /\ stage' \in {"refused", "handling"}
        /\ UNCHANGED <<own, headers, answer>>
        /\ stage' = "handling" => seen'.headers = headers["client"]
    BY <1>2 DEF Connect, Write
  <2>2. QED
    BY <2>1 DEF HeadersKept, Arrived, Ended
<1>3. QED
  BY <1>1, <1>2

LEMMA RespondKeepsHeaders ==
  ASSUME TypeOK, HeadersKept, Respond
  PROVE  HeadersKept'
<1>1. CASE Handling
  <2>1. UNCHANGED <<stage, own, seen, answer, headers>>
    BY <1>1 DEF Handling
  <2>2. QED
    BY <2>1 DEF HeadersKept, Arrived, Ended
<1>2. ASSUME NEW o \in DOMAIN responses, Reply(o) PROVE HeadersKept'
  <2>1. headers \in [Sides -> Seq(Header)] /\ "server" \in Sides
    BY DEF TypeOK, Header, Sides
  <2>2. /\ stage = "handling" /\ stage' = "replied"
        /\ headers' = [headers EXCEPT !["server"] = WithDefaults(headers["server"])]
        /\ answer'.headers = headers'["server"]
        /\ UNCHANGED <<own, seen>>
    BY <1>2 DEF Reply
  <2>3. headers'["server"] = headers["server"] \o DefaultHeaders
    BY <2>1, <2>2 DEF WithDefaults
  <2>4. headers'["client"] = headers["client"]
    BY <2>1, <2>2 DEF Sides
  <2>5. headers["server"] \in Seq(Header)
    BY <2>1
  <2>6. own' /\ Arrived' => seen'.headers = headers'["client"]
    BY <2>2, <2>4 DEF HeadersKept, Arrived
  <2>7. QED
    BY <2>2, <2>3, <2>5, <2>6 DEF HeadersKept, Ended
<1>3. CASE Throw
  <2>1. /\ stage = "handling" /\ stage' = "thrown" /\ answer'.headers = headers["server"]
        /\ UNCHANGED <<own, seen, headers>>
    BY <1>3 DEF Throw
  <2>2. QED
    BY <2>1 DEF HeadersKept, Arrived, Ended
<1>4. QED
  BY <1>1, <1>2, <1>3
     DEF Respond, MakeResponse, DeriveResponse, CopyResponse, SetChunkCallback, SetStatusCode

LEMMA NextKeepsHeaders == TypeOK /\ HeadersKept /\ [Next]_vars => HeadersKept'
<1> SUFFICES ASSUME TypeOK, HeadersKept, [Next]_vars PROVE HeadersKept'
  OBVIOUS
<1>1. CASE UNCHANGED vars
  BY <1>1 DEF vars, HeadersKept, Arrived, Ended
<1>2. QED
  BY <1>1, BuildKeepsHeaders, SendingKeepsHeaders, RespondKeepsHeaders DEF Next

\* The two sides hold one list of headers each, and nothing comes after the defaults.
THEOREM HeadersAreKept == Spec => []HeadersKept
  BY InitHeadersKept, NextKeepsHeaders, TypesOK, PTL DEF Spec

\* With the lists the readings arrive.
LEMMA HeadersOfMessages ==
  ASSUME TypeOK, HeadersKept
  PROVE  HeadersArrive
<1>1. headers["client"] \in Seq(Header) /\ headers["server"] \in Seq(Header)
  BY DEF TypeOK, Header, Sides
<1>2. QED
  BY <1>1, HeadersAreLastPushed DEF HeadersKept, HeadersArrive, Ended

\* What one side has pushed the other one reads, last for each name.
THEOREM HeadersDoArrive == Spec => []HeadersArrive
  BY HeadersOfMessages, HeadersAreKept, TypesOK, PTL

\* The last of the defaults' names is that of a default.
LEMMA DefaultNames ==
  /\ Len(DefaultHeaders) = 4 /\ DOMAIN DefaultHeaders = 1..4
  /\ \A i, j \in 1..4 : DefaultHeaders[i][1] = DefaultHeaders[j][1] => i = j
  /\ \A i \in 1..4 : DefaultHeaders[i][1] # "content-type"
  BY DEF DefaultHeaders

\* No two of these headers have one name, in small letters as they are.
Distinct(D) ==
    /\ \A i \in 1..Len(D) : ToLower(D[i][1]) = D[i][1]
    /\ \A i, j \in 1..Len(D) : D[i][1] = D[j][1] => i = j

\* What is at the end of a list wins, if its names differ.
LEMMA LastOnesCount ==
  ASSUME NEW list \in Seq(Header), NEW D \in Seq(Header), Distinct(D), NEW k \in 1..Len(D)
  PROVE  Headers(list \o D)[D[k][1]] = D[k][2]
<1> DEFINE u == list \o D
           n == Len(list)
<1>3. /\ u \in Seq(Header) /\ n \in Nat /\ Len(D) \in Nat /\ DOMAIN u = 1..(n + Len(D))
      /\ \A i \in 1..Len(D) : u[n + i] = D[i]
  <2>1. u \in Seq(Header) /\ Joins(u, list, D)
    BY CatJoins, Zenon DEF Cat
  <2> HIDE DEF u
  <2>2. QED
    BY <2>1 DEF Joins
<1> HIDE DEF u, n
<1>4. n + k \in DOMAIN u /\ u[n + k] = D[k]
  BY <1>3
<1>5. Latest(u, n + k)
  <2> SUFFICES ASSUME NEW j \in DOMAIN u, ToLower(u[j][1]) = ToLower(u[n + k][1]), j > n + k
               PROVE  FALSE
    BY <1>3 DEF Latest
  <2>1. PICK i \in 1..Len(D) : j = n + i
    <3>1. j - n \in 1..Len(D) /\ j = n + (j - n)
      BY <1>3
    <3>2. QED
      BY <3>1
  <2>2. D[i][1] = D[k][1]
    BY <1>3, <1>4, <2>1 DEF Distinct
  <2>3. QED
    BY <1>3, <2>1, <2>2 DEF Distinct
<1>6. Headers(u)[ToLower(u[n + k][1])] = u[n + k][2]
  BY <1>3, <1>4, <1>5, HeadersRead DEF Reads
<1>7. QED
  BY <1>4, <1>6 DEF u, Distinct

LEMMA DefaultsComeLast ==
  ASSUME NEW list \in Seq(Header), NEW k \in 1..4
  PROVE  Headers(list \o DefaultHeaders)[DefaultHeaders[k][1]] = DefaultHeaders[k][2]
<1>1. DefaultHeaders \in Seq(Header)
  BY LiteralsAreStrings DEF Header
<1>2. \A i \in 1..4 : ToLower(DefaultHeaders[i][1]) = DefaultHeaders[i][1]
  <2>1. \A i \in 1..4 : DefaultHeaders[i] \in Range(DefaultHeaders)
    BY DefaultNames DEF Range
  <2>2. QED
    BY <2>1, LowerAssumption DEF ToLower
<1>3. Distinct(DefaultHeaders) /\ k \in 1..Len(DefaultHeaders)
  BY <1>2, DefaultNames DEF Distinct
<1>4. QED
  BY <1>1, <1>3, LastOnesCount, Zenon

LEMMA DefaultsOfReplies ==
  ASSUME TypeOK, HeadersKept
  PROVE  DefaultsLast
<1>1. ASSUME stage = "replied", NEW d \in Range(DefaultHeaders)
      PROVE  Headers(answer.headers)[d[1]] = d[2]
  <2>1. PICK list \in Seq(Header) : answer.headers = list \o DefaultHeaders
    BY <1>1 DEF HeadersKept, Ended
  <2>2. PICK k \in 1..4 : d = DefaultHeaders[k]
    BY DefaultNames DEF Range
  <2>3. QED
    BY <2>1, <2>2, DefaultsComeLast
<1>2. ASSUME stage = "thrown"
      PROVE  Range(answer.headers) \cap Range(DefaultHeaders)
                \subseteq UNION {Range(list) : list \in HeaderLists}
  <2>1. Range(answer.headers) \subseteq Pushed
    BY <1>2 DEF HeadersKept, Ended
  <2>2. ASSUME NEW d \in Range(DefaultHeaders), NEW type PROVE d # <<"content-type", type>>
    <3>1. PICK k \in 1..4 : d = DefaultHeaders[k]
      BY DefaultNames DEF Range
    <3>2. d[1] # "content-type"
      BY <3>1, DefaultNames
    <3>3. QED
      BY <3>2
  <2>3. \A d \in Range(DefaultHeaders) : d \notin Typed
    BY <2>2 DEF Typed
  <2>4. QED
    BY <2>1, <2>3 DEF Pushed, Given
<1>3. QED
  BY <1>1, <1>2 DEF DefaultsLast

\* The cross-origin headers of a reply are the library's.
THEOREM DefaultsComeThrough == Spec => []DefaultsLast
  BY DefaultsOfReplies, HeadersAreKept, TypesOK, PTL

-----------------------------------------------------------------------------
(* Parameters.                                                             *)

\* What FullUrl makes of a query.
Fitting(query) == IF Len(query) <= UrlMax THEN query ELSE LostUri

\* The query that is on its way is that of the last list pushed in time.
ParamsKept ==
    /\ pushes \in Seq(ParamLists)
    /\ own /\ pushes # << >> =>
          /\ stage = "building" => url = Join(Last(pushes))
          /\ stage = "sent" => uri = Fitting(Join(Last(pushes)))
          /\ Arrived => seen.query = Join(Last(pushes))

LEMMA InitParamsKept == Init => ParamsKept
<1> SUFFICES ASSUME Init PROVE ParamsKept
  OBVIOUS
<1>1. pushes = << >>
  BY DEF Init
<1>2. QED
  BY <1>1 DEF ParamsKept

\* In time is before the request is sent.
LEMMA PushParamKeepsParams ==
  ASSUME ParamsKept, NEW params \in ParamLists, PushParam(params)
  PROVE  ParamsKept'
<1>1. CASE stage = "building"
  <2>1. /\ pushes' = Append(pushes, params) /\ url' = Join(params)
        /\ stage' = "building"
    BY <1>1 DEF PushParam
  <2>2. pushes' \in Seq(ParamLists) /\ Last(pushes') = params
    BY <2>1 DEF ParamsKept, Last
  <2>3. QED
    BY <2>1, <2>2 DEF ParamsKept, Arrived
<1>2. CASE stage # "building"
  <2>1. UNCHANGED <<pushes, stage, own, uri, seen>>
    BY <1>2 DEF PushParam
  <2>2. QED
    BY <1>2, <2>1 DEF ParamsKept, Arrived
<1>3. QED
  BY <1>1, <1>2

LEMMA SendingKeepsParams ==
  ASSUME ParamsKept, SendAsync \/ Connect
  PROVE  ParamsKept'
<1>1. CASE SendAsync
  <2>1. /\ stage = "building" /\ stage' = "sent" /\ uri' = Fitting(url)
        /\ UNCHANGED <<pushes, own, seen>>
    BY <1>1 DEF SendAsync, FullUrl, Fitting
  <2>2. QED
    BY <2>1 DEF ParamsKept, Arrived
<1>2. CASE Connect
  <2>1. /\ stage = "sent" /\ stage' \in {"refused", "handling"}
        /\ stage' = "handling" => uri # LostUri /\ seen'.query = uri
        /\ UNCHANGED <<pushes, own>>
    BY <1>2 DEF Connect, Write
  <2>2. QED
    BY <2>1 DEF ParamsKept, Arrived, Fitting
<1>3. QED
  BY <1>1, <1>2

LEMMA NextKeepsParams == ParamsKept /\ [Next]_vars => ParamsKept'
<1> SUFFICES ASSUME ParamsKept, [Next]_vars PROVE ParamsKept'
  OBVIOUS
<1>1. ASSUME UNCHANGED <<stage, own, url, pushes, uri, seen>> PROVE ParamsKept'
  BY <1>1 DEF ParamsKept, Arrived
<1>2. ASSUME stage = "handling", stage' \in {"replied", "thrown"}, UNCHANGED <<own, pushes, seen>>
      PROVE  ParamsKept'
  BY <1>2 DEF ParamsKept, Arrived
<1>3. CASE Build
  <2>1. ASSUME NEW side \in Sides,
               \/ \E list \in HeaderLists : PushHeader(side, list)
               \/ SetContent(side)
               \/ \E type \in FileTypes, added \in BOOLEAN : SetFileContent(side, type, added)
        PROVE  ParamsKept'
    BY <1>1, <2>1 DEF PushHeader, SetContent, SetFileContent
  <2>2. QED
    BY <1>3, <2>1, PushParamKeepsParams DEF Build
<1>4. CASE Respond
  <2>1. CASE Handling
    BY <1>1, <2>1 DEF Handling
  <2>2. CASE Throw \/ \E o \in DOMAIN responses : Reply(o)
    BY <1>2, <2>2 DEF Throw, Reply
  <2>3. QED
    BY <1>4, <2>1, <2>2
       DEF Respond, MakeResponse, DeriveResponse, CopyResponse, SetChunkCallback, SetStatusCode
<1>5. CASE UNCHANGED vars
  BY <1>1, <1>5 DEF vars
<1>6. QED
  BY <1>3, <1>4, <1>5, SendingKeepsParams DEF Next

\* The last list pushed before a request is sent is the one that is on its way.
THEOREM ParamsAreKept == Spec => []ParamsKept
  BY InitParamsKept, NextKeepsParams, PTL DEF Spec

\* What a server reads of a query that PushParam has written.
THEOREM JoinedAreRead ==
  ASSUME NEW params \in ParamLists
  PROVE  Queries(Join(params)) = Reading(Sendable(params))
<1> DEFINE keys == Written(params)
           query == Join(params)
<1>1. IsParams(params) /\ IsUnescaped(params)
  BY ListsAreParams
<1>2. keys \in Seq(DOMAIN params)
  BY WrittenType
<1>3. query \in Text /\ query = JoinOf(params, keys)
  BY <1>1, JoinType, JoinFolds
<1>4. Decoded(Found(Scan(JoinOf(params, keys)))) = SendableOf(params, keys)
  BY <1>1, <1>2, JoinedAreSendable
<1>5. Sendable(params) = SendableOf(params, keys)
  <2>1. \A i \in DOMAIN keys : keys[i] \in DOMAIN params
    BY <1>2
  <2> HIDE DEF keys
  <2>2. Through(Sending(params), keys) =
           [i \in DOMAIN keys |-> OneIf(keys[i] # << >>, <<keys[i], params[keys[i]]>>)]
    BY <2>1 DEF Through, Sending
  <2>3. Sendable(params) =
           FlattenSeq([i \in DOMAIN keys |-> OneIf(keys[i] # << >>, <<keys[i], params[keys[i]]>>)])
    BY DEF Sendable, keys
  <2>4. QED
    BY <2>2, <2>3 DEF SendableOf
<1> HIDE DEF keys, query
<1>6. Queries(query) = Reading(Decoded(Matches(query))) /\ Matches(query) = Found(Scan(query))
  BY <1>3, QueriesAreRead, MatchesAreFound
<1>7. QED
  BY <1>3, <1>4, <1>5, <1>6 DEF query

\* The parameters of the last list are what the server is told.
THEOREM ParamsDoArrive == Spec => []ParamsArrive
<1>1. ASSUME ParamsKept PROVE ParamsArrive
  <2> SUFFICES ASSUME own, Arrived, pushes # << >>
               PROVE  Queries(seen.query) = Reading(Sendable(Last(pushes)))
    BY DEF ParamsArrive
  <2>1. Last(pushes) \in ParamLists
    BY <1>1 DEF ParamsKept, Last
  <2>2. seen.query = Join(Last(pushes))
    BY <1>1 DEF ParamsKept
  <2>3. QED
    BY <2>1, <2>2, JoinedAreRead
<1>2. QED
  BY <1>1, ParamsAreKept, PTL

-----------------------------------------------------------------------------
(* URLs that are too long.                                                 *)

\* No query is written that looks like the URL that is lost.
LEMMA JoinedIsNotLost ==
  ASSUME NEW params \in ParamLists
  PROVE  Join(params) # LostUri
<1>1. Join(params) = Nil \/ HasEquals(Join(params))
  BY ListsAreParams, JoinHasEquals
<1>2. LostUri # Nil /\ ~HasEquals(LostUri)
  <2>1. LostUri # Nil
    BY DEF LostUri, Nil
  <2>2. DOMAIN LostUri = {1} /\ LostUri[1] = ""
    BY DEF LostUri
  <2>3. QED
    BY <2>1, <2>2 DEF HasEquals
<1>3. QED
  BY <1>1, <1>2

\* A request without parameters of its own is on its way with the URL it was made with.
RefusalsKept ==
    /\ own /\ pushes = << >> =>
          /\ stage = "building" => url \in OwnQueries
          /\ stage = "sent" => uri \in OwnQueries
    /\ LongUrlsAreRefused

LEMMA InitRefusalsKept == Init => RefusalsKept
  BY DEF Init, RefusalsKept, LongUrlsAreRefused

LEMMA SendingKeepsRefusals ==
  ASSUME ParamsKept, RefusalsKept, SendAsync \/ Connect
  PROVE  RefusalsKept'
<1>1. CASE SendAsync
  <2>1. /\ stage = "building" /\ stage' = "sent" /\ uri' = Fitting(url)
        /\ UNCHANGED <<pushes, own>>
    BY <1>1 DEF SendAsync, FullUrl, Fitting
  <2>2. url \in OwnQueries => uri' = url
    BY <2>1, MessageAssumption DEF Fitting
  <2>3. QED
    BY <2>1, <2>2 DEF RefusalsKept, LongUrlsAreRefused
<1>2. CASE Connect
  <2>1. /\ stage = "sent" /\ stage' \in {"refused", "handling"}
        /\ stage' = "refused" <=> uri = LostUri
        /\ UNCHANGED <<pushes, own>>
    BY <1>2 DEF Connect
  <2>2. CASE own /\ pushes # << >>
    <3> DEFINE query == Join(Last(pushes))
    <3>1. Last(pushes) \in ParamLists
      BY <2>2 DEF ParamsKept, Last
    <3>2. uri = Fitting(query) /\ query # LostUri
      BY <2>1, <2>2, <3>1, JoinedIsNotLost DEF ParamsKept
    <3>3. query \in Text
      BY <3>1, ListsAreParams, JoinType
    <3> HIDE DEF query
    <3>4. Len(query) \in Nat
      BY <3>3 DEF Text
    <3>5. stage' = "refused" <=> Len(query) > UrlMax
      BY <2>1, <3>2, <3>4, MessageAssumption DEF Fitting
    <3>6. QED
      BY <2>1, <2>2, <3>5 DEF RefusalsKept, LongUrlsAreRefused, query
  <2>3. CASE own /\ pushes = << >>
    <3>1. uri # LostUri
      BY <2>1, <2>3, MessageAssumption DEF RefusalsKept
    <3>2. QED
      BY <2>1, <2>3, <3>1 DEF RefusalsKept, LongUrlsAreRefused
  <2>4. CASE ~own
    BY <2>1, <2>4 DEF RefusalsKept, LongUrlsAreRefused
  <2>5. QED
    BY <2>2, <2>3, <2>4
<1>3. QED
  BY <1>1, <1>2

LEMMA NextKeepsRefusals == ParamsKept /\ RefusalsKept /\ [Next]_vars => RefusalsKept'
<1> SUFFICES ASSUME ParamsKept, RefusalsKept, [Next]_vars PROVE RefusalsKept'
  OBVIOUS
<1>1. ASSUME UNCHANGED <<stage, own, url, pushes, uri>> PROVE RefusalsKept'
  BY <1>1 DEF RefusalsKept, LongUrlsAreRefused
<1>2. CASE Build
  <2>1. ASSUME NEW params \in ParamLists, PushParam(params) PROVE RefusalsKept'
    <3>1. CASE stage = "building"
      <4>1. stage' = "building" /\ pushes' = Append(pushes, params)
        BY <2>1, <3>1 DEF PushParam
      <4>2. pushes' # << >>
        BY <4>1 DEF ParamsKept
      <4>3. QED
        BY <4>1, <4>2 DEF RefusalsKept, LongUrlsAreRefused
    <3>2. CASE stage # "building"
      <4>1. UNCHANGED <<stage, own, pushes, uri>>
        BY <2>1, <3>2 DEF PushParam
      <4>2. QED
        BY <3>2, <4>1 DEF RefusalsKept, LongUrlsAreRefused
    <3>3. QED
      BY <3>1, <3>2
  <2>2. QED
    BY <1>1, <1>2, <2>1 DEF Build, PushHeader, SetContent, SetFileContent
<1>3. CASE Throw \/ \E o \in DOMAIN responses : Reply(o)
  <2>1. stage = "handling" /\ stage' \in {"replied", "thrown"} /\ UNCHANGED <<own, pushes>>
    BY <1>3 DEF Throw, Reply
  <2>2. QED
    BY <2>1 DEF RefusalsKept, LongUrlsAreRefused
<1>4. CASE Handling
  BY <1>1, <1>4 DEF Handling
<1>5. CASE Respond
  BY <1>3, <1>4, <1>5
     DEF Respond, MakeResponse, DeriveResponse, CopyResponse, SetChunkCallback, SetStatusCode
<1>6. CASE UNCHANGED vars
  BY <1>1, <1>6 DEF vars
<1>7. QED
  BY <1>2, <1>5, <1>6, SendingKeepsRefusals DEF Next

\* Only the list pushed last before a request is sent decides whether it is refused.
THEOREM LongUrlsDoFail == Spec => []LongUrlsAreRefused
<1>1. RefusalsKept => LongUrlsAreRefused
  BY DEF RefusalsKept
<1>2. Spec => []RefusalsKept
  BY ParamsAreKept, InitRefusalsKept, NextKeepsRefusals, PTL DEF Spec
<1>3. QED
  BY <1>1, <1>2, PTL

-----------------------------------------------------------------------------
(* Forms and numbers.                                                      *)

\* A well-formed query is read as its form, whoever sent it.
THEOREM FormsAreParsed == Spec => []FormsParsed
<1>1. ASSUME TypeOK PROVE FormsParsed
  <2>1. seen.query \in Text
    BY <1>1 DEF TypeOK, Message, Text, Token
  <2>2. QED
    BY <2>1, FormsAreRead DEF FormsParsed
<1>2. QED
  BY <1>1, TypesOK, PTL

\* IntsRead, of one query and one name.
NumbersRead(query, name) ==
    LET values == Values(Params(query), name)
        parts  == FlattenSeq([n \in DOMAIN values |-> Split(values[n], ",")])
    IN Ints(Queries(query), name, << >>) =
          IF \A part \in Range(parts) : IsInt(part)
          THEN [i \in DOMAIN parts |-> Stoi(parts[i])] ELSE << >>

\* It holds of every well-formed query.
LEMMA NumbersAreRead ==
  ASSUME NEW query \in Text, WellFormed(query), NEW name \in DOMAIN Queries(query)
  PROVE  NumbersRead(query, name)
<1> DEFINE params == Params(query)
           values == Values(params, name)
           parts  == FlattenSeq([n \in DOMAIN values |-> Split(values[n], ",")])
<1>1. params \in Seq(Pair)
  <2>1. Fields(query) \in Seq(Text)
    BY SplitProperties DEF Fields, Parts
  <2>2. QED
    BY <2>1, ParamsOfProperties, ParamsAreOfFields
<1>2. Queries(query) = Reading(params)
  BY FormsAreRead
<1>3. NumbersRead(query, name) <=>
         Ints(Queries(query), name, << >>) =
            IF \A part \in Range(parts) : IsInt(part)
            THEN [i \in DOMAIN parts |-> Stoi(parts[i])] ELSE << >>
  BY DEF NumbersRead
<1> HIDE DEF params
<1>4. name \in Names(params)
  BY <1>2 DEF Reading, Names
<1>5. values \in Seq(Text)
  BY <1>1, WeighedType
<1> HIDE DEF values
<1>6. parts = PartsOf(values)
  <2>1. \A n \in DOMAIN values : values[n] \in Text
    BY <1>5
  <2>2. Through(Splitting, values) = [n \in DOMAIN values |-> Split(values[n], ",")]
    BY <2>1 DEF Through, Splitting
  <2>3. QED
    BY <2>2 DEF PartsOf
<1> HIDE DEF parts
<1>7. parts = PartsOf(Values(params, name))
  BY <1>6 DEF values
<1>8. Ints(Reading(params), name, << >>) =
         IF \A part \in Range(parts) : IsInt(part)
         THEN [i \in DOMAIN parts |-> Stoi(parts[i])] ELSE << >>
  BY <1>1, <1>4, <1>7, IntsOfReading
<1>9. QED
  BY <1>2, <1>3, <1>8

\* Query<vector<int>> is all the numbers sent for a name, or the default.
THEOREM IntsAreRead == Spec => []IntsRead
<1>1. ASSUME TypeOK PROVE IntsRead
  <2>1. seen.query \in Text
    BY <1>1 DEF TypeOK, Message, Text, Token
  <2>2. Arrived /\ WellFormed(seen.query) =>
           \A name \in DOMAIN Queries(seen.query) : NumbersRead(seen.query, name)
    BY <2>1, NumbersAreRead
  <2>3. QED
    BY <2>2 DEF IntsRead, NumbersRead
<1>2. QED
  BY <1>1, TypesOK, PTL
=============================================================================
