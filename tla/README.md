# A TLA+ verification of easy_http

easy_http is a C++ HTTP server and client on top of libevent. This directory
holds TLA+ models of its control flow, the TLC runs that check them on small
instances, and theorems about them that the TLA+ proof system checks for every
value of the constants. Paths like `server.cpp` are relative to the
repository's `src/` or `include/easy_http/` directory.

## 1. The system

| component | files | state | operations |
|---|---|---|---|
| Server replies | `server.cpp`, `request_base.cpp`, `response.cpp` | the `evhttp_request` libevent owns; the `CallBackContainer` the application's copies of `Request`/`Response` own; the `chunk_req_state` and timer that own themselves | `Server::RequestHandler`, `Response::Send`, `RequestBase::Reply`, `http_chunked_trickle_cb`, `OnReplyComplete` |
| Server life cycle | `server.cpp` | `is_started_`, `e_base_`, `e_http_server_`, the SIGINT event | `Start`, `Stop`, `~Server`, `do_term` |
| Dispatch | `server.cpp`, `controller.*`, `route.*`, `middleware.*` | the vectors of routes and controllers, the middleware lists | `Get` ... `Delete`, `RegisterController`, `AddMiddleware`, `IsMatch`, `CallHandler`, `Handle` |
| Client requests | `client.*`, `request.*`, `request_base.cpp` | the client's event base; per request the `Request` object with its container, the `evhttp_request`, the `evhttp_connection` | `CreateRequest`, `Send`, `SendAsync`, `Wait`, `Cancel`, `IsComplete`, `ResponseHandle`, `ResponseChunkedHandle`, `ResponseErrorHandle`, destruction |
| Message contents | `request_base.*`, `request.*`, `response.*` | the `evhttp_uri` the copies of a `Request` share; the output headers and the output buffer all `Response`s of a request share; status, `is_chunked_` and chunk callback of each `Response` | `Queries`, `Headers`, `FullUrl`, `Query`, `Header`, `PushHeader`, `PushParam`, `SetContent`, `SetFileContent`, `SetStatusCode`, `SetChunkCallback`, `Reply` |
| EvRequest | `ev_request.*` | an earlier form of `RequestBase` | compiled, used by nothing |
| Files and time | `utils.*` | none | `open_file`, `str2time` |

**How they interact.** A `Server` registers one generic callback with libevent.
Everything on the server side then runs in callbacks of one event loop inside
`Server::Start`: the loop calls `Server::RequestHandler`, which wraps the
`evhttp_request` in a `Request`, asks the dispatch for a `Response`, and sends
it; a chunked `Response` leaves a timer behind whose callback pulls the
application's chunks. The `Request`, the `Response`, the timer and libevent
share the same `evhttp_request` by raw pointer, and libevent has a raw pointer
to the container.

A `Client` has an event base and no thread. The base runs only while some `Send`
or `Wait` is in `event_base_dispatch`; it then serves every request of that
client, and any completed request ends the dispatch, whoever waits in it.
Response handlers run inside the dispatch and may call back into the client.
Errors are C++ exceptions thrown through libevent's C frames.

**What is hard.** Not threads: the library has none. What is hard is that
callbacks come in any order (ticks, disconnects, completions, signals), that
a message is put together by many calls on objects that share parts, that
three owners with different life times point at the same objects, that code
re-enters the loop it runs in, and that an exception may leave the loop at
several points. PROJECT.json lists these hazards with their lines.

## 2. What makes each component correct

- *Server replies*: an armed timer points at a live request; each chunk is on the
  wire once and in order; a reply is only ended whole, and once; every request
  is released in the end; completion is reported only for a written reply, into
  memory that is still there.
- *Server life cycle*: what `Start` acquires is released once by `Stop` or
  `~Server`; pointers are not used after `Stop`; a failed `Start` leaves nothing.
- *Dispatch*: the first matching route answers, then the first matching
  controller, else 404; a middleware sees exactly the requests its predecessors
  pass on, in order of registration, and the handler comes last.
- *Client requests*: a connection and a request are freed once, by whoever owns
  them; a blocked `Send` always has something to wait for; a `Send` that
  returns has delivered its response or left a reason why not; handlers run one
  at a time, for requests in flight only, and `IsComplete` is true exactly when
  the handler of the whole response has returned.
- *Message contents*: parameters and headers arrive as they were pushed, whatever
  characters they hold and in whatever order the calls came; arrays and numbers
  are read in full; the URL a request reports is the one that was sent; no request
  is lost unless its own URL is too long.

## 3. Modules

| module | what it is |
|---|---|
| `ReplyContract` | abstract: what the server promises about each reply |
| `ServerReply` | the callbacks of the server's event loop |
| `ServerReply_proofs` | its theorems, with the refinement of `ReplyContract` |
| `RequestContract` | abstract: what the client promises about its handlers |
| `ClientRequests` | the requests of one client |
| `ClientRequests_proofs` | its theorems, with the refinement of `RequestContract` |
| `Dispatch` | registration, matching, and the calls of middlewares and handlers |
| `Dispatch_proofs` | its theorems |
| `ServerLifecycle` | Start, Stop and destruction of one server object |
| `ServerLifecycle_proofs` | its theorems |
| `Queries` | the query of a URL as pure operators: how it is written and how it is read, and a reference reading |
| `Messages` | what the two messages of one exchange hold |
| `FoldLemmas` | lemmas about sequences, folds and induction that the next two rest on |
| `Queries_proofs` | what is written and read, for texts of any length |
| `Messages_proofs` | the theorems of `Messages` |
| `MC*` | bounded instances for TLC |

A definition whose name ends in `_M` is a wrong version of the definition that
follows it: a plausible bug, put in its place to see that a property notices.
No specification uses one.

### ServerReply

One action is one libevent callback, which is atomic because the loop has one
thread. The model's unit is the request; several requests share the loop.

| model | code |
|---|---|
| `HandlerReplies`, `NoRoute`, `HandlerStreams` | `Server::RequestHandler` ending in `Response::Send`, a 404 or a chunked `Reply`; the catch clause's 500 is a `HandlerReplies` |
| `HandlerEscapes` | a handler throws something that is not a `std::exception` |
| `Tick` = `TickSends`, `TickLoses`, `TickEnds`; `TickEscapes` | `http_chunked_trickle_cb`, by what `get_chunk` returns and whether the connection is there; it throws, which an empty function given to `SetChunkCallback` does at its first call |
| `SendDone`, `Disconnect` | libevent: `evhttp_send_done` with `OnReplyComplete`, `evhttp_connection_fail` |
| `DropCopy` | the application destroys its copies of `Request` and `Response` |
| `Interrupt`, `Stop` | `do_term`; `Server::Stop` after dispatch |

`evreq` is libevent's request (`detached`: the connection is gone and the timer
owns it), `timer` the timer and the state it belongs to, `container` the
`CallBackContainer`. A chunk is its position in what the callback will produce;
what the callback will produce (`source`) is chosen when the handler returns.
A write to a freed container may go unnoticed or end the process: both happen.

### ClientRequests

| model | code |
|---|---|
| `CreateRequest`, `SendAsync`, `SendFails`, `SendBlocks`, `SendRefused`, `SendReturns`, `Wait`, `WaitReturns` | the calls of `client.cpp` and `request_base.cpp`; `Send` and `Wait` are split at `event_base_dispatch` |
| `CancelNew`, `CancelQueued`, `Drop`, `DestroyClient` | `Cancel`, the destructors, in handlers too |
| `UseFreed` | a call through `e_request_` after libevent freed it, or `Cancel` and `Send` in the handler of the response |
| `SendAgain` | `Send` or `SendAsync` of a request that is in flight, or after "Request failed!" |
| `UseAfterClient` | `CreateRequest`, `Send`, `Cancel` or `Wait` after `~Client` |
| `Poll`, `Data`, `PeerCloses` | libevent: a round of events, a part of a response for which no callback is due, an idle connection closed |
| `Respond`, `Chunk`, `Fail` and `HandlerFinishes`, `ChunkFinishes`, `HandlerThrows` | `ResponseHandle`, `ResponseChunkedHandle`, `ResponseErrorHandle`, split around the application's handler |
| `EnterOrphan`, `HandlerOrphaned` | the same with a container that is gone |

While `handler` is set the application's calls are steps inside that handler.
A request that failed to be sent (`failed`) still points at its connection, one
whose handler threw (`lost`) does not, so only the second can be sent again.
`fault` records the first undefined behaviour; nothing is modelled beyond it.

### Dispatch

Each call of a middleware or handler is a frame of `stack`, so that the
application's own code (return, throw, catch, call next again, register more) is
interleaved with the library's at every point. A pattern is the set of paths it
matches; a route with `BadPattern` makes `IsMatch` throw. `mark` remembers what
was registered when the request came in: a history variable for the properties.

| model | code |
|---|---|
| `AddRoute`, `RegisterController`, `AddMiddleware` | `Get` ... `Delete`, `RegisterController`, the three `AddMiddleware`s with `Link` for the list |
| `RouteAnswers`, `ControllerAnswers`, `NothingMatches` | `Server::RequestHandler`'s three outcomes |
| `Serve`, `Handle`, `CallRoute`, `CallController`, `CallNext`, `CallLast` | `Route::CallHandler`, `Controller::CallHandler` and `Handle`, `Middleware::CallHandler` |
| `SendReply`, `Escape` | the reply or the 500 of the catch clause; anything else leaves `Start` |

### ServerLifecycle

The n-th `Start` allocates base n and evhttp n; the two pointers of the server
hold such a number or 0. Each early return of `Start` is an action:
`StartFailsEarly`, `BaseFails`, `HttpFails`, `BindFails`, `ListenedInVain`;
`StartRuns` enters dispatch, `DispatchEnds` leaves it.

### Queries and Messages

A text is a sequence of tokens: the characters that mean something to
`PushParam`, `Queries` or `stoi` (`&`, `=`, `,`, `[]`, `+`, `-`, the blank and the
digits), their escaped forms, and others that stand for text no conversion
changes. `stoi` skips blanks, takes a sign and the digits after it, and throws
without a digit or for a number that is no int. `Messages` begins
with a `Request` a `Client` has made (`own`), or with a query any program has
sent, and ends with the reply, the 500, or a request that was turned away.

| model | code |
|---|---|
| `Join`, `Encode` | `Request::PushParam`, `evhttp_uriencode` |
| `Read`, `Matches`, `Put`, `Queries` | `RequestBase::Queries`: the regular expression as an automaton, then the body of its loop |
| `Split`, `Stoi`, `IsInt`, `Numbers`, `Ints` | `getline`, `GetVal<int>`, `GetVal<vector<int>>`, and the `GetVal` that turns exceptions into the default |
| `PushParam`, `PushHeader`, `SetContent`, `SetFileContent`, `SetStatusCode`, `SetChunkCallback` | the setters, on the client's `Request` until the connection is made and on the handler's `Response`s |
| `SendAsync`, `Connect` | `SendAsync`, which fixes the URL; libevent, which then writes headers and content as they are when it has connected |
| `MakeResponse`, `DeriveResponse`, `CopyResponse` | `Response(const RequestBase&, int)` from a `Request` or another `Response`, and copies; with `is_chunked` goes the chunk callback, which may be empty (`ServerReply`'s `TickEscapes`) |
| `Reply`, `Throw` | `RequestBase::Reply` with its cross-origin headers; the catch clause of `Server::RequestHandler` |
| `Headers`, `FullUrl` | the readers, on either side |

`Params`, `Values`, `Commas` and `Reading` in `Queries` are not code: they say what
a form stands for, field by field, where the code goes through it from left to
right.

### How the modules compose

`ServerReply` implements `ReplyContract` and `ClientRequests` implements
`RequestContract` (`ContractSpec` in each, checked and proved).
The modules otherwise meet at a narrow place each. `Dispatch` decides what
`ServerReply` calls `Handle(r)`: a `SendReply` of `Dispatch` is one
`HandlerReplies`, `NoRoute` or `HandlerStreams`, its `Escape` a `HandlerEscapes`.
A `DispatchEnds` of `ServerLifecycle` is `Interrupt` or an escape of
`ServerReply`, and its `Stop` is `Stop` there. `Messages` follows one exchange
through both sides: its `SendAsync` is that of `ClientRequests`, its `Handling`
steps are the application's code between an `Arrive` and a `SendReply` or an
`Escape` of `Dispatch`, its `Reply` what `ServerReply` calls `SendReply` or
`SendReplyStart`. When a client and a server meet over the network is left to
either: any order of events.

## 4. Runs

| run | what it shows |
|---|---|
| `server` | two requests, streams of up to three chunks with or without data: timers hold live requests, the wire holds what was produced, an end means a whole stream, a finished reply is not touched, the refinement of `ReplyContract`, and, under fairness, release of every request |
| `client_careful` | three requests, one chunked, an application that takes the care of section 5, servers that keep connections alive: no fault, a blocked `Send` always has something to wait for and leaves nothing behind, and every `Send` ends unless its own server goes on for ever |
| `client_uncareful` | the same without any care and with servers that close, so with every behaviour of `client_careful`: ownership up to the first fault, which requests end a dispatch, why a `Send` may deliver nothing, a base an exception has left, and the refinement of `RequestContract` |
| `dispatch` | a server and two controllers, two paths and methods, a literal pattern, one that matches everything and one that does not compile, three routes or middlewares, three calls |
| `lifecycle` | five Starts, with Stops anywhere |
| `messages` | up to four calls in one exchange, in every order, with ten lists of parameters or headers that hold every special token and one that is too long; every query of up to four tokens, and those of two or three of twelve kinds of fields |
| `server_container`, `client_double_free`, `client_delivers`, `lifecycle_port`, `lifecycle_running`, `messages_params` | findings, below |

**Bounds.** All requests of a module start out alike, and requests interact in
pairs: a `Send` and the request whose completion ends its dispatch, a stream and
the loop another reply brings down. Two suffice for the server; the client has a
third because a nested `Send` in the handler of one while another blocks takes
three. Two chunks make order, loss and repetition visible, the third allows a
chunk without data between two with it. In `dispatch` three objects are enough
for a controller with a middleware and a route, for two middlewares before one
handler, and for a route that shadows another; three calls are enough for a
chain of two and a handler, or for a second call of next. Five Starts leave
room for the longest story found, started, ended, failed, stopped, started, with
one to spare. In `messages` four calls allow two pushes before and one after
`SendAsync` with one in the handler, or a chain of two derived `Response`s with
a setter between them; a query of another program is read before anything else,
so such an exchange has one call only. Three fields are enough for an array
element, a plain value and another element of one name. `UrlMax` of 12 tokens
stands for `URL_MAX`: one list of parameters is longer by one token and one just
fits. `IntMax` of 21 stands for `INT_MAX`: the fields hold 22, which is no int,
and -22, which is the smallest. `MaxChunks`,
`MaxObjects`, `MaxCalls`, `UrlMax` and `MaxStarts` are the only bounds in guards;
each is a constant about which the theorems assume only that it is a natural
number (`MaxCalls` a positive one).

**Deadlock** is not checked: a program may stop calling, a process may die, and
every request of an instance may be finished. What must not stop is stated as
`EveryRequestReleased` and `SendEnds`.

**Symmetry** is used in `dispatch`, which checks invariants only.

**Fairness.** On the server, `WF(Tick)`: the chunk timer is armed with no
delay, then with 30 ms after each chunk, and the loop runs what is due; a
chunk callback is assumed to return false in the end, as a `source` is finite.
And a reply that was handed over is written or its connection fails, since
libevent gives each server connection a write timeout of 50 s by default.
Nothing is assumed of handlers, peers, signals or the application. On the
client, the loop processes active events and returns when told to, handlers
end, and a request in flight gets an event as long as some dispatch runs: a part
of its response, the response, or an error, the timeout if nothing else. That is
strong fairness of a poll that finds the event, as another request's completion
may end the dispatch first. No more can be assumed, since libevent's timeouts
are of inactivity and every part that arrives starts them again: a server that
sends parts for ever keeps its `Send` blocked for ever, through
`ResponseChunkedHandle` or below any callback, and `SendEnds` says so.

## 5. Assumptions

- libevent is modelled from its 2.2 interface, the one `evhttp_connection_free_on_completion`,
  `evhttp_request_set_on_complete_cb` and the error callback belong to.
- `ServerReply` models `Stop` only after dispatch was left; `ServerLifecycle`
  has the other case, which is a finding.
- In `Dispatch` a `Route&` is used before the next registration in its table, and a
  handler that runs where it is stored does not grow its own table. Both are
  undefined behaviour in the code otherwise (hazard at `server.cpp:206`).
- `Careful` in `ClientRequests` is the care the library leaves to an application;
  no operation asks for it, and without it each of these is a step of the model
  that ends in a fault. The application calls nothing of a `Request` whose
  `evhttp_request` libevent has freed (`FullUrl` and `SetContent` included), and in
  the handler of its response neither `Cancel` nor `Send`; it sends a `Request` once,
  and not again after "Request failed!"; it destroys the `Client` outside of
  handlers, and from then on neither uses it nor sends, cancels or waits for a
  `Request` it has made; it keeps a `Request` while it is in flight; and it does not
  cancel the one it is sending or handling. `NoFault`, and the theorem
  `CarefulClientsSafe`, are about such applications; what goes wrong for others is
  in the hazards without a property.
- `ServerCloses`: a server may answer `Connection: close`.
- libevent may find out inside `evhttp_make_request` that it cannot connect, and
  call the error callback from there; in the model such an error comes from the
  loop (`Fail`) or as the -1 of the call (`SendFails`).
- `Messages` has no methods: that libevent sends the content of a `GET` as it does
  that of a `POST`, and drops that of a reply to `HEAD`, is left to it. Escapes are
  one token each, the blank stands for whatever `isspace` accepts, and malformed
  escapes and characters outside ASCII are among the text that no conversion
  changes. A text has no NUL: `Queries` would cut a key or a value there.
- `FullUrl` of a client's `Request` is read while libevent has its `evhttp_request`;
  afterwards it is a `UseFreed` of `ClientRequests`.
- A header name is either good or `BadName`, one that `evhttp_add_header` rejects.
  The headers libevent adds itself (`Date`, `Content-Length`, `Connection`) are left out.

## 6. Findings

- **`server_container`**: `OnReplyComplete` writes to a container that the handler's
  local `Response` took with it. Every handler like the one in `README.md` does this.
- **`client_double_free`**: libevent, asked to free the connection on completion,
  and `Send` both free it when the server closes the connection.
- **`client_delivers`**: a `Send` may return without a response and without an
  exception, since the result of `event_base_dispatch` is ignored and any request
  ends the dispatch of any other. The theorem `UndeliveredHasACause` says that
  there is no other way.
- **`lifecycle_port`**: after Start, SIGINT, Start (which fails) and Stop the port is
  still held, for good.
- **`lifecycle_running`**: `Stop` during `Start` frees the running base.
- **`messages_params`**: `PushParam` replaces what earlier calls have pushed, and the
  query of the URL the request was made with. Pushed in one list, or in the last
  call, parameters arrive (`ParamsArrive`).

Seen but not a run of its own: `client.h` line 12 promises one connection that is
kept open, and `client.cpp` line 124 makes one per request. `request_base.h` line
41 says "set" of `SetContent`, which appends, to a buffer all responses to a
request share. `request_base.h` line 60 says that header names are converted to
lowercase in both directions; only the reading side does it, which is enough for
`HeadersArrive`. `SetChunkCallback` accepts an empty function, and the reply then
ends the event loop with the timer's first tick (`TickEscapes`).

## 7. Proofs

Each `*_proofs` module shows `Spec => []Inv` from an inductive invariant by one
lemma or step per action, then derives the properties of the runs from it.

- *ServerReply*, `IInv`: the checked invariants plus `LifeCycle`, which says which
  combinations of request, timer and flags exist. `StreamFaithful` alone is not
  inductive: that a tick's chunk is beyond all those written needs the type of
  `pos`, and that none is missing before it needs that an attached request was
  not released. From `IInv` follow `TimersSafe`, `StreamsFaithful`, `EndsAreWhole`,
  `RepliesEndOnce` and `ServerKeepsContract`, for any number of requests and chunks.
- *ClientRequests*, `IInv`: `Ownership` needs that a running handler belongs to
  its request (`HandlerOwnsRequest`), and the results about careful applications
  need that such an application has the `Request` of everything in flight
  (`KeepsRequests`), that its `Client` outlives a running handler (`KeepsClient`) and
  that the connection of a `Send` that is told to return cannot be freed by an
  event still active (`SenderOwnsConnection`). These parts are implications from
  `Careful` and `~ServerCloses`, so one invariant serves all four kinds of
  environment. `ClientKeepsContract` has one lemma per group of actions; what it
  needs of `IInv` is `ExitMeansComplete`, without which a request that failed could
  count as answered, and that no handler runs on a base an exception has left, as
  the contract's service has then ended. Results: `OwnershipHolds`, `ExitsComplete`,
  `SendsLeaveNothing`, `SendersServed`, `CarefulClientsSafe`,
  `UndeliveredHasACause`, `StuckIsForGood`, `ClientKeepsContract`.
- *Dispatch*, `DInv`: the middlewares of a holder form one list from its head in
  the order of registration (`Lists`), an object is in one place of one table
  (`Tables`), and each frame knows what is left of its list, runs below all that
  comes before, and belongs to what the search has found (`FramesOK`). The last
  part speaks of what was registered before `mark` only, since the tables grow
  during the calls. Results: `HandlersGuarded`, `CallsNest`, `FirstMatchFound`,
  `NotFoundIsTrue`.
- *ServerLifecycle*, `LInv`: what is allocated was allocated by a failed Start or
  before one, or is what a started server points to, and a started server holds
  the port, which is why two Starts cannot succeed in a row. Results:
  `NothingFreedTwice`, `OnlyFailuresLeak`.
- *Messages*: four inductive invariants beside `TypeOK`. `UrlKept`: the uri of the
  client's `evhttp_request` stays the one the server has seen. `HeadersKept`: the
  server has the client's list of headers, the answer is the handler's, in a reply
  the defaults are its last four, and before that it holds only what the
  application can have pushed. `ParamsKept`: what is in `e_uri_`, then in the
  `evhttp_request`, then with the server is the query written for the last list
  pushed in time. `RefusalsKept` adds that a request without a list of its own is on
  its way with the URL it was made with; that no query looks like the URL that is
  lost is `JoinHasEquals`. None of the properties is inductive without them, since
  `PushParam` and `PushHeader` go on after the message has left. Results: `TypesOK`,
  `UrlsAreSent`, `LongUrlsDoFail`, `HeadersDoArrive`, `DefaultsComeThrough`,
  `ParamsDoArrive`, `FormsAreParsed`, `IntsAreRead`.
- *Queries*, for texts of any length. The library's induction theorems take an
  operator, which the provers cannot instantiate, so `FoldLemmas` states induction
  about sets: a set of naturals, or of sequences, that has the first and with each
  element the next has them all (`NatSetInduction`, `SeqSetInduction`, from the
  well-foundedness of `<`). `FoldLeft` is defined by a recursive function on sets of
  positions; `IterationExists` and `IterationFolds` show that such a function exists
  and takes one step per element (`FoldedProperties`), and `FlattenProperties` does
  the same for `FlattenSeq`. With that each fold of `Queries` becomes one equation for
  the empty text and one for a token more, and the results are inductions over
  the text:
  `JoinedAreSendable` (the matches in what `PushParam` writes are, decoded, what it
  was given), `QueriesAreRead` (the map the loop builds is the reading of all
  matches), `FormsAreRead` (after each token the automaton is where `Fits` says, in
  the field `Split` is in), and `IntsOfReading` (commas divide an array again, `SplitOfCommas`).

What the proofs assume of the constants is named in the modules: that the bounds
are numbers, and that what the application and other programs send is made of
strings (`MessageAssumption`, `ContentAssumption`, `KeyAssumption`, `IntAssumption`).
Two parts say more. The URL a request is made with fits into `FullUrl`'s buffer, as
`CreateRequest` throws otherwise. And a list for `PushParam` has no escaped token in
it: an application that means the three characters of `%26` has another token for
them, as `evhttp_uriencode` escapes the percent sign and the text comes back
unchanged. `TokensAreStrings` and
`LiteralsAreStrings` say of literals what the provers do not know, and
`LowerAssumption` that the names of the library's headers have no capitals. TLC
evaluates all of them.

Only model-checked are the two liveness properties, `EveryRequestReleased` and
`SendEnds`: they rest on fairness and on which actions are enabled, which the
prover does not handle. The runs that expect a violation have nothing to prove;
where the code does keep a part of the promise that part is a theorem
(`CarefulClientsSafe`, `UndeliveredHasACause`, `OnlyFailuresLeak`, `ParamsDoArrive`).

## 8. Not modelled

- `EvRequest`: compiled, installed with its header, and used by nothing, the examples
  included; and it could not run. Its chunked `Reply` gives an empty buffer to
  `evhttp_send_reply_chunk_with_cb`, which returns at once, so the callback that
  would go on never runs; its destructor reads a null pointer after a move;
  `ResponseChunkedHandler` casts `this` to an `EvRequest**`; `Ongoing` has no
  definition. What its methods share with `RequestBase` is modelled there.
- `utils.*`: stateless wrappers of system calls. `open_file` is seen through
  `SetFileContent`; `str2time` is not called.
- `Scheme`, `User`, `Host`, `Port`, `ResponseCode`, `ConnectionPort` and
  `ConnectionAddress` hand on what libevent has parsed. `Query` of other types than
  strings and `vector<int>`, and `UrlVars`, are single conversions.
- The move constructor and assignment of `RequestBase`: `Request` and `Response`
  copy instead of moving, so nothing reaches them.
- `Response::Send` called by the application: the models have the one call the
  server makes.
- `GetController`, `GetMiddlewareByType`: they only read.
- The bytes of replies, the wording of errors, log output, TLS (there is none).
- The leak of `event_config` and of the SIGINT event on `Start`'s error paths.
- Examples and build files.

## 9. Plan

Done, in this order, the most important behaviour first: `ServerReply` with
`ReplyContract`, `ClientRequests`, `Dispatch`, `ServerLifecycle`, the theorems of
each, `Queries` and `Messages`, `RequestContract` with the proof that
`ClientRequests` implements it, and the theorems about what messages hold. What
could still be added:

1. A composition of `ServerReply` with `ServerLifecycle`: replies of one Start
   and Stop of the next, detached requests and their timers across the two.
2. A second reply to one request, by an application that calls `Response::Send`
   itself.
3. `UrlVars` and the guards of `Dispatch` that keep a `Route&` valid, as steps that
   may go wrong instead of assumptions.
