-------------------------------- MODULE Messages --------------------------------
(***************************************************************************)
(* What is in the messages of one exchange: a request made with a Client,  *)
(* or by any other program, and the reply of a handler                     *)
(* (src/request_base.cpp, src/request.cpp, src/response.cpp).              *)
(*                                                                         *)
(* Copies of a Request share its evhttp_uri, and all the Responses made    *)
(* for a request share its evhttp_request, with one list of headers and    *)
(* one output buffer; a status, and whether it is streamed, belong to one  *)
(* Response each.  The URL of a request is fixed when it is sent, its headers and   *)
(* its content when the connection is made.                                *)
(***************************************************************************)
EXTENDS Queries

CONSTANTS
    OwnQueries,         \* the queries of the URLs given to the Client
    ForeignQueries,     \* what other programs send to the server
    ParamLists,         \* lists of parameters for PushParam
    HeaderLists,        \* lists of headers for PushHeader: <<name, value>>, in key order
    BadName,            \* a name evhttp_add_header rejects
    Lower,              \* tolower, on the names it changes
    UrlMax,             \* bound: tokens of a query that fit into FullUrl's buffer
    MaxCalls            \* bound: the application's calls in one exchange

\* The empty string FullUrl returns for a URL that is too long.
LostUri == <<"">>

\* CreateRequest throws for a URL that is too long.
ASSUME MessageAssumption ==
    /\ UrlMax \in Nat
    /\ MaxCalls \in Nat \ {0}
    /\ \A query \in OwnQueries :
          query \in Seq(STRING) /\ Len(query) <= UrlMax /\ query # LostUri

\* What the messages are made of.  No list holds an escaped token: in an application's text
\* "%26" is three characters, of which evhttp_uriencode escapes the first.
ASSUME ContentAssumption ==
    /\ \A query \in ForeignQueries : query \in Seq(STRING)
    /\ \A list \in HeaderLists : list \in Seq(STRING \X STRING)
    /\ \A params \in ParamLists : \A key \in DOMAIN params :
          {key, params[key]} \subseteq Seq(STRING \ {e[2] : e \in Escapes})
    /\ \A name \in DOMAIN Lower : Lower[name] \in STRING

VARIABLES
    stage,      \* how far the exchange is
    own,        \* it was begun by a Client
    url,        \* e_uri_, shared by the client's copies of the Request
    pushes,     \* the lists given to PushParam before the request was sent
    uri,        \* the uri of the client's evhttp_request
    headers,    \* output_headers, of the client's and of the server's evhttp_request
    body,       \* their output_buffer
    seen,       \* the request as the server received it
    responses,  \* the Response objects the handler has made
    answer,     \* the reply as it was sent
    calls

vars == <<stage, own, url, pushes, uri, headers, body, seen, responses, answer, calls>>

-----------------------------------------------------------------------------
NoUri   == <<"no uri">>
Codes   == {200, 404}
Sides   == {"client", "server"}
Stages  == {"building", "sent", "refused", "handling", "replied", "thrown"}
Message == [query : Seq(STRING), headers : Seq(STRING \X STRING), body : Seq(STRING)]
Nothing == [query |-> NoUri, headers |-> << >>, body |-> << >>]

TypeOK ==
    /\ stage \in Stages /\ own \in BOOLEAN
    /\ url \in Seq(STRING) /\ uri \in Seq(STRING)
    /\ headers \in [Sides -> Seq(STRING \X STRING)]
    /\ body \in [Sides -> Seq(STRING)]
    /\ seen \in Message
    /\ responses \in Seq([status : Codes, is_chunked : BOOLEAN])
    /\ answer.status \in Codes \cup {0, 500} /\ answer.is_chunked \in BOOLEAN
    /\ calls \in 0..MaxCalls

\* RequestBase(url, handler, is_chunked), with the header CreateRequest adds; or
\* RequestBase(evhttp_request), for a request from elsewhere, whose handler makes one
\* call in this model.
Init ==
    /\ pushes = << >>
    /\ body = [s \in Sides |-> << >>]
    /\ responses = << >>
    /\ answer = [status |-> 0, headers |-> << >>, body |-> << >>, is_chunked |-> FALSE]
    /\ \/ /\ stage = "building"
          /\ own = TRUE
          /\ url \in OwnQueries
          /\ uri = NoUri
          /\ headers = [s \in Sides |-> IF s = "client" THEN << <<"Host", "h">> >> ELSE << >>]
          /\ seen = Nothing
          /\ calls = 0
       \/ /\ stage = "handling"
          /\ own = FALSE
          /\ url = NoUri
          /\ uri \in ForeignQueries
          /\ headers = [s \in Sides |-> << >>]
          /\ seen = [Nothing EXCEPT !.query = uri]
          /\ calls = MaxCalls - 1

-----------------------------------------------------------------------------
(* Reading a message.                                                      *)

ToLower(name) == IF name \in DOMAIN Lower THEN Lower[name] ELSE name

\* RequestBase::Headers: the last of several with one name.
Headers(list) ==
    FoldLeft(LAMBDA map, h : [n \in DOMAIN map \cup {ToLower(h[1])} |->
                                 IF n = ToLower(h[1]) THEN h[2] ELSE map[n]],
             [n \in {} |-> ""], list)

\* The URL is always put together from e_uri_.
FullUrl_M == IF Len(url) <= UrlMax THEN url ELSE LostUri

\* There is no room for the last character.
ShortUrl_M == IF stage # "building" THEN uri ELSE IF Len(url) < UrlMax THEN url ELSE LostUri

\* RequestBase::FullUrl: once it was sent, the URL is the one that was sent.
FullUrl ==
    IF stage # "building" THEN uri
    ELSE IF Len(url) <= UrlMax THEN url ELSE LostUri

-----------------------------------------------------------------------------
(* Writing a message, on either side.                                      *)

\* The application has an object to call: a Request until the connection is made, a
\* Response in the handler.
CanCall(side) ==
    /\ calls < MaxCalls
    /\ calls' = calls + 1
    /\ IF side = "client" THEN stage \in {"building", "sent"}
                          ELSE stage = "handling" /\ responses # << >>

\* A list is pushed header by header: the first that is rejected throws and those
\* before it stay.
Accepted(list) ==
    LET bad == SelectInSeq(list, LAMBDA h : h[1] = BadName)
    IN IF bad = 0 THEN list ELSE SubSeq(list, 1, bad - 1)

PushHeader(side, list) ==
    /\ CanCall(side)
    /\ headers' = [headers EXCEPT ![side] = @ \o Accepted(list)]
    /\ UNCHANGED <<stage, own, url, pushes, uri, body, seen, responses, answer>>

\* Content is added to what the buffer holds.
SetContent(side) ==
    /\ CanCall(side)
    /\ body' = [body EXCEPT ![side] = Append(@, "text")]
    /\ UNCHANGED <<stage, own, url, pushes, uri, headers, seen, responses, answer>>

FileTypes == {"text/css", "unknown"}    \* one in content_types_, one that is not

\* A file that could be opened: its type is pushed if content_types_ has its
\* extension, then evbuffer_add_file adds it or fails.  One that could not be opened
\* changes nothing.
SetFileContent(side, type, added) ==
    /\ CanCall(side)
    /\ headers' = IF type = "unknown" THEN headers
                  ELSE [headers EXCEPT ![side] = Append(@, <<"content-type", type>>)]
    /\ body' = IF added THEN [body EXCEPT ![side] = Append(@, "file")] ELSE body
    /\ UNCHANGED <<stage, own, url, pushes, uri, seen, responses, answer>>

-----------------------------------------------------------------------------
(* The client.                                                             *)

\* PushParam: the list becomes the query, in place of the one that was there.
PushParam(params) ==
    /\ CanCall("client")
    /\ url' = Join(params)
    /\ pushes' = IF stage = "building" THEN Append(pushes, params) ELSE pushes
    /\ UNCHANGED <<stage, own, uri, headers, body, seen, responses, answer>>

\* evhttp_make_request copies the URL.
SendAsync ==
    /\ stage = "building"
    /\ stage' = "sent"
    /\ uri' = FullUrl
    /\ UNCHANGED <<own, url, pushes, headers, body, seen, responses, answer, calls>>

\* The headers are written when the request is sent; later ones stay behind.
Write_M == seen' = [query |-> uri, headers |-> SubSeq(headers["client"], 1, 1), body |-> body["client"]]

\* libevent writes what the evhttp_request holds when the connection is made.
Write == seen' = [query |-> uri, headers |-> headers["client"], body |-> body["client"]]

\* The server's libevent turns away a request without a URL.
Connect ==
    /\ stage = "sent"
    /\ IF uri = LostUri
       THEN stage' = "refused" /\ UNCHANGED seen
       ELSE stage' = "handling" /\ Write
    /\ UNCHANGED <<own, url, pushes, uri, headers, body, responses, answer, calls>>

-----------------------------------------------------------------------------
(* The server's handler.                                                   *)

\* The status is not set.
CopyOf_M(base, code) == [status |-> 0, is_chunked |-> base.is_chunked]

\* Response(const RequestBase&, int), with what a copy of a RequestBase takes over: with
\* is_chunked the chunk callback, which ServerReply calls.
CopyOf(base, code) == [status |-> code, is_chunked |-> base.is_chunked]

Handling ==
    /\ stage = "handling"
    /\ calls < MaxCalls
    /\ calls' = calls + 1
    /\ UNCHANGED <<stage, own, url, pushes, uri, headers, body, seen, answer>>

\* From the Request, which streams nothing.
MakeResponse(code) ==
    /\ Handling
    /\ responses' = Append(responses, CopyOf([is_chunked |-> FALSE], code))

\* From another Response, with a status of its own or as a copy of it.
DeriveResponse(o, code) ==
    /\ Handling
    /\ responses' = Append(responses, CopyOf(responses[o], code))
CopyResponse(o) == DeriveResponse(o, responses[o].status)

SetStatusCode(o, code) ==
    /\ Handling
    /\ responses' = [responses EXCEPT ![o].status = code]

\* Any std::function makes a Response a stream, an empty one too.
SetChunkCallback(o) ==
    /\ Handling
    /\ responses' = [responses EXCEPT ![o].is_chunked = TRUE]

DefaultHeaders == <<
    <<"access-control-allow-credentials", "true">>,
    <<"access-control-allow-headers", "Origin, Accept, ...">>,
    <<"access-control-allow-methods", "GET, POST, ...">>,
    <<"access-control-allow-origin", "*">> >>

\* What the provers do not know of a literal.
ASSUME LiteralsAreStrings ==
    /\ NoUri \in Seq(STRING) /\ LostUri \in Seq(STRING)
    /\ \A text \in {"Host", "h", "content-type", "text", "file"} \cup FileTypes : text \in STRING
    /\ DefaultHeaders \in Seq(STRING \X STRING)

\* Their names have no capitals for tolower to change.
ASSUME LowerAssumption == \A h \in Range(DefaultHeaders) : h[1] \notin DOMAIN Lower

\* The application's headers come after the defaults.
WithDefaults_M(list) == DefaultHeaders \o list

WithDefaults(list) == list \o DefaultHeaders

\* The handler returns a Response, and Response::Send calls Reply.
Reply(o) ==
    /\ stage = "handling"
    /\ stage' = "replied"
    /\ headers' = [headers EXCEPT !["server"] = WithDefaults(@)]
    /\ answer' = [status |-> responses[o].status, headers |-> headers'["server"],
                  body |-> body["server"], is_chunked |-> responses[o].is_chunked]
    /\ UNCHANGED <<own, url, pushes, uri, body, seen, responses, calls>>

\* It throws, and the catch clause answers with what the evhttp_request holds.
Throw ==
    /\ stage = "handling"
    /\ stage' = "thrown"
    /\ answer' = [status |-> 500, headers |-> headers["server"],
                  body |-> body["server"], is_chunked |-> FALSE]
    /\ UNCHANGED <<own, url, pushes, uri, headers, body, seen, responses, calls>>

-----------------------------------------------------------------------------
Build ==
    \/ \E params \in ParamLists : PushParam(params)
    \/ \E side \in Sides :
          \/ \E list \in HeaderLists : PushHeader(side, list)
          \/ SetContent(side)
          \/ \E type \in FileTypes, added \in BOOLEAN : SetFileContent(side, type, added)

Respond ==
    \/ \E code \in Codes : MakeResponse(code)
    \/ \E o \in DOMAIN responses :
          \/ CopyResponse(o) \/ SetChunkCallback(o) \/ Reply(o)
          \/ \E code \in Codes : DeriveResponse(o, code) \/ SetStatusCode(o, code)
    \/ Throw

Next == Build \/ SendAsync \/ Connect \/ Respond

Spec == Init /\ [][Next]_vars

-----------------------------------------------------------------------------
(* Properties.                                                             *)

Arrived == stage \in {"handling", "replied", "thrown"}

\* The keys and values of a list as a server can be told them: in key order, without
\* the empty key, which no query can hold.
Sendable(params) ==
    LET keys == Written(params)
    IN FlattenSeq([i \in DOMAIN keys |-> OneIf(keys[i] # << >>, <<keys[i], params[keys[i]]>>)])

\* The parameters of the last PushParam before a request was sent reach the server's
\* Queries() as they were given, whatever characters other than NUL they hold and whatever
\* was pushed before or after; an array key arrives under its name.
ParamsArrive ==
    own /\ Arrived /\ pushes # << >> => Queries(seen.query) = Reading(Sendable(Last(pushes)))

\* A well-formed query of any program is read as the form it stands for: the last plain
\* value of a name and all of its array's values after it.
FormsParsed ==
    Arrived /\ WellFormed(seen.query) => Queries(seen.query) = Reading(Params(seen.query))

\* Query<vector<int>> is the numbers sent for a name, each of them, in the order in which
\* they were sent and however they were spread over the fields, or, if one of them is no
\* int, the default.
IntsRead ==
    Arrived /\ WellFormed(seen.query) =>
        \A name \in DOMAIN Queries(seen.query) :
            LET values == Values(Params(seen.query), name)
                parts  == FlattenSeq([n \in DOMAIN values |-> Split(values[n], ",")])
            IN Ints(Queries(seen.query), name, << >>) =
                  IF \A part \in Range(parts) : IsInt(part)
                  THEN [i \in DOMAIN parts |-> Stoi(parts[i])] ELSE << >>

\* What was pushed last for each name, whatever its capitals.
LastPushed(list) ==
    [n \in {ToLower(list[i][1]) : i \in DOMAIN list} |->
        list[SelectLastInSeq(list, LAMBDA h : ToLower(h[1]) = n)][2]]

\* Either side reads the headers the other one pushed last, those pushed between
\* SendAsync and the connection and those of a list that failed half-way included.
HeadersArrive ==
    /\ own /\ Arrived => Headers(seen.headers) = LastPushed(headers["client"])
    /\ stage \in {"replied", "thrown"} => Headers(answer.headers) = LastPushed(headers["server"])

\* The cross-origin headers of a returned Response are the library's, whatever the
\* application had pushed; a 500 has none of them unless the application pushed it.
DefaultsLast ==
    /\ stage = "replied" =>
          \A d \in Range(DefaultHeaders) : Headers(answer.headers)[d[1]] = d[2]
    /\ stage = "thrown" =>
          Range(answer.headers) \cap Range(DefaultHeaders)
              \subseteq UNION {Range(list) : list \in HeaderLists}

\* The URL a client's Request reports after it was sent, and with it the parameters its
\* Response reports, is the one the server has seen, although PushParam still changes
\* e_uri_.
FullUrlIsSent == own /\ Arrived => FullUrl = seen.query

\* A request is turned away exactly if the parameters last pushed before it was sent made
\* its URL too long for FullUrl: whatever was pushed before them or is pushed after, no
\* other request is lost, and none goes out with a part of its URL.
LongUrlsAreRefused ==
    own /\ stage \notin {"building", "sent"} =>
        (stage = "refused" <=> pushes # << >> /\ Len(Join(Last(pushes))) > UrlMax)

\* request.h says of PushParam: "Push the parameter to sending request parameters".
PushedParamsArrive ==
    own /\ Arrived =>
        \A i \in DOMAIN pushes : \A key \in DOMAIN pushes[i] :
            key # << >> => Name(key) \in DOMAIN Queries(seen.query)
=============================================================================
