-------------------------------- MODULE Dispatch --------------------------------
(***************************************************************************)
(* How a Server finds the code that answers a request, and in which order  *)
(* that code runs: Server::RequestHandler (src/server.cpp), the routes and *)
(* their middlewares (src/route.cpp, src/middleware.cpp), the controllers  *)
(* (src/controller.cpp).                                                   *)
(*                                                                         *)
(* Handlers and middlewares are application code.  They run to their end   *)
(* one inside the other, and while they run they may register more routes  *)
(* and middlewares, call next as often as they like, throw, and catch what *)
(* was thrown below them.  A request is dispatched against tables and      *)
(* lists that may grow under it.                                           *)
(***************************************************************************)
EXTENDS Naturals, SequencesExt

CONSTANTS
    Server, Controllers,    \* the objects with a routes_ vector
    Paths, Methods,         \* what requests ask for
    Patterns,               \* regular expressions, as sets of paths
    BadPattern,             \* a text std::regex rejects
    NoRequest,
    MaxObjects,             \* bound: routes and middlewares, and controllers, registered
    MaxCalls                \* bound: calls into handlers and middlewares per request

ASSUME DispatchAssumption ==
    /\ Server \notin Controllers
    /\ Patterns \subseteq SUBSET Paths /\ BadPattern \notin Patterns
    /\ NoRequest \notin [path : Paths, method : Methods]
    /\ MaxObjects \in Nat /\ MaxCalls \in Nat
    /\ Controllers \cap Nat = {}

\* Routes and middlewares are numbered in the order in which they are registered.
Objects  == 1..MaxObjects
Holders  == Objects \cup Controllers    \* what has a middleware_chain_
Owners   == Controllers \cup {Server}
Requests == [path : Paths, method : Methods]

\* A running call of a middleware, or (mw = 0) of the handler of a route.
Frames == [of : Holders, mw : 0..MaxObjects, then : 0..MaxObjects]

VARIABLES
    made,           \* how many objects are registered
    table,          \* routes_, of the server and of each controller
    controllers,    \* controllers_
    url, method,    \* of a route: url_, method_
    head,           \* of a route or a controller: middleware_chain_ (0: null)
    next,           \* of a middleware: next_ (0: null)
    last,           \* of a middleware: whose handler last_ calls (0: no middleware)
    phase,          \* where the callback is
    request,        \* the request it handles
    stack,          \* the calls that are running, outermost first
    status,         \* the response the innermost call was handed by the last one it made
    calls,          \* calls made for this request
    mark            \* made, when the request came in

registered == <<made, table, controllers, url, method, head, next, last>>
running    == <<phase, request, stack, status, calls, mark>>
vars       == <<registered, running>>

Phases == {"idle", "running", "returned",
           "thrown",     \* a std::exception is on its way up
           "escaping",   \* something else is
           "dead"}       \* and has left Server::Start

TypeOK ==
    /\ made \in 0..MaxObjects
    /\ table \in [Owners -> Seq(1..made)]
    /\ controllers \in Seq(Controllers)
    /\ url \in [Objects -> Patterns \cup {BadPattern}]
    /\ method \in [Objects -> Methods]
    /\ head \in [Holders -> 0..made]
    /\ next \in [Objects -> 0..made]
    /\ last \in [Objects -> Holders \cup {0}]
    /\ phase \in Phases
    /\ request \in Requests \cup {NoRequest}
    /\ stack \in Seq(Frames)
    /\ status \in {"none", "own", "notfound"}
    /\ calls \in Nat
    /\ mark \in 0..made
    /\ phase = "idle" <=> request = NoRequest
    /\ phase = "running" => stack # << >>
    /\ phase \in {"idle", "returned", "dead"} => stack = << >>

Init ==
    /\ made = 0
    /\ table = [o \in Owners |-> << >>]
    /\ controllers = << >>
    /\ url = [n \in Objects |-> BadPattern]
    /\ method \in {[n \in Objects |-> m] : m \in Methods}
    /\ head = [h \in Holders |-> 0]
    /\ next = [n \in Objects |-> 0]
    /\ last = [n \in Objects |-> 0]
    /\ phase = "idle"
    /\ request = NoRequest
    /\ stack = << >>
    /\ status = "none"
    /\ calls = 0
    /\ mark = 0

\* Definitions whose name ends in _M are wrong on purpose: each is the definition
\* that follows it with one plausible bug, and breaks one property.

-----------------------------------------------------------------------------
(* Registration: before Start, or in application code that Start runs.     *)

AppRuns == phase \in {"idle", "running"}

\* The innermost call is a handler that runs where it is stored, in the routes_ of
\* o.  Through a middleware it would be a copy that runs.
InPlace(o) ==
    /\ stack # << >>
    /\ Last(stack).mw = 0
    /\ Last(stack).of \in Range(table[o])
    /\ head[Last(stack).of] = 0

\* Server::Get ... Delete and Controller::Get ... Delete.  push_back may move the
\* routes; a handler that is running in place would lose its captures, so it is
\* assumed to leave its own table alone.
AddRoute(o, p, m) ==
    /\ AppRuns
    /\ made < MaxObjects
    /\ ~InPlace(o)
    /\ made' = made + 1
    /\ table' = [table EXCEPT ![o] = Append(@, made')]
    /\ url' = [url EXCEPT ![made'] = p]
    /\ method' = [method EXCEPT ![made'] = m]
    /\ UNCHANGED <<controllers, head, next, last, running>>

RegisterController(c) ==
    /\ AppRuns
    /\ Len(controllers) < MaxObjects
    /\ controllers' = Append(controllers, c)
    /\ UNCHANGED <<made, table, url, method, head, next, last, running>>

\* The new middleware becomes the first of the list.
Link_M(h, n) ==
    /\ head' = [head EXCEPT ![h] = n]
    /\ next' = [next EXCEPT ![n] = head[h]]

\* It becomes the last one, found by following next_ from the head.
Link(h, n) ==
    IF head[h] = 0
    THEN head' = [head EXCEPT ![h] = n] /\ UNCHANGED next
    ELSE /\ \E t \in 1..made :
               /\ last[t] = h /\ next[t] = 0
               /\ next' = [next EXCEPT ![t] = n]
         /\ UNCHANGED head

\* Route::AddMiddleware, on the Route& that the registration returned: it is valid
\* until the next registration in the same table.  Controller::AddMiddleware.
AddMiddleware(h) ==
    /\ AppRuns
    /\ made < MaxObjects
    /\ h \in Controllers \/ \E o \in Owners : table[o] # << >> /\ h = Last(table[o])
    /\ made' = made + 1
    /\ last' = [last EXCEPT ![made'] = h]
    /\ Link(h, made')
    /\ UNCHANGED <<table, controllers, url, method, running>>

-----------------------------------------------------------------------------
(* Matching.                                                               *)

Throws(r)     == url[r] = BadPattern                      \* std::regex_error
UrlIs(r, q)   == ~Throws(r) /\ q.path \in url[r]          \* regex_match on the path
IsMatch(r, q) == UrlIs(r, q) /\ q.method = method[r]

\* The loop over the routes of o goes past the i-th one.
Past(o, q, i) == ~Throws(table[o][i]) /\ ~IsMatch(table[o][i], q)

\* It stops at a route that matches, whether or not an earlier one does.
StopsAt_M(o, q, i) == ~Past(o, q, i)

StopsAt(o, q, i) ==
    /\ ~Past(o, q, i)
    /\ \A j \in 1..(i - 1) : Past(o, q, j)

\* Controller::IsMatch compares the URL and not the method.
Claims_M(c, q) == \E i \in DOMAIN table[c] : Throws(table[c][i]) \/ UrlIs(table[c][i], q)

\* Controller::IsMatch does not return false.
Claims(c, q) == \E i \in DOMAIN table[c] : ~Past(c, q, i)

-----------------------------------------------------------------------------
(* Calls.                                                                  *)

\* The call of a middleware looks at next_ once, when it begins.
MiddlewareCall(m) == [of |-> last[m], mw |-> m, then |-> next[m]]
HandlerCall(r)    == [of |-> r, mw |-> 0, then |-> 0]

Enter(f) ==
    /\ calls < MaxCalls
    /\ calls' = calls + 1
    /\ stack' = Append(stack, f)
    /\ phase' = "running"
    /\ status' = "none"

Throw(kind) == phase' = kind /\ status' = "none"

NotFound ==
    /\ phase' = IF stack = << >> THEN "returned" ELSE "running"
    /\ status' = "notfound"
    /\ UNCHANGED <<stack, calls>>

\* The handler is called first thing.
CallRoute_M(r) == Enter(HandlerCall(r))

\* Route::CallHandler.
CallRoute(r) == Enter(IF head[r] = 0 THEN HandlerCall(r) ELSE MiddlewareCall(head[r]))

\* The loop over the routes of o stops at a route that does not compile or matches.
Serve(o, q) ==
    \E i \in DOMAIN table[o] :
        /\ StopsAt(o, q, i)
        /\ IF Throws(table[o][i])
           THEN Throw("thrown") /\ UNCHANGED <<stack, calls>>
           ELSE CallRoute(table[o][i])

\* Controller::Handle looks the request up again.
Handle(c, q) ==
    IF \A i \in DOMAIN table[c] : Past(c, q, i) THEN NotFound ELSE Serve(c, q)

\* Controller::CallHandler.
CallController(c, q) == IF head[c] = 0 THEN Handle(c, q) ELSE Enter(MiddlewareCall(head[c]))

\* What the std::function next of a middleware call does: Middleware::CallHandler of
\* the next one, or last_.
CallLast(h) == IF h \in Controllers THEN Handle(h, request) ELSE Enter(HandlerCall(h))
CallNext(f) == IF f.then # 0 THEN Enter(MiddlewareCall(f.then)) ELSE CallLast(f.of)

-----------------------------------------------------------------------------
(* Server::RequestHandler: the routes first, then the controllers, else 404.*)

Arrive(q) ==
    /\ phase = "idle"
    /\ request' = q
    /\ mark' = made
    /\ UNCHANGED registered

RouteAnswers(q) ==
    /\ Arrive(q)
    /\ Serve(Server, q)

NoRoute(q) == \A i \in DOMAIN table[Server] : Past(Server, q, i)

\* The loop over the controllers stops at the first that claims the request, or whose
\* IsMatch throws.
ControllerAnswers(q) ==
    /\ Arrive(q)
    /\ NoRoute(q)
    /\ \E k \in DOMAIN controllers :
          /\ Claims(controllers[k], q)
          /\ \A j \in 1..(k - 1) : ~Claims(controllers[j], q)
          /\ IF \E i \in DOMAIN table[controllers[k]] :
                    StopsAt(controllers[k], q, i) /\ Throws(table[controllers[k]][i])
             THEN Throw("thrown") /\ UNCHANGED <<stack, calls>>
             ELSE CallController(controllers[k], q)

NothingMatches(q) ==
    /\ Arrive(q)
    /\ NoRoute(q)
    /\ \A k \in DOMAIN controllers : ~Claims(controllers[k], q)
    /\ NotFound

\* The request's state stays behind.
Finish_M == phase' = "idle" /\ UNCHANGED <<stack, request, status, calls, mark>>

Finish ==
    /\ phase' = "idle"
    /\ request' = NoRequest
    /\ status' = "none"
    /\ calls' = 0
    /\ mark' = 0
    /\ UNCHANGED stack

\* Response::Send, or, in the catch clause, a reply with status 500.
SendReply ==
    /\ phase = "returned" \/ (phase = "thrown" /\ stack = << >>)
    /\ Finish
    /\ UNCHANGED registered

\* Anything but a std::exception goes past the catch clause.
Escape ==
    /\ phase = "escaping" /\ stack = << >>
    /\ phase' = "dead"
    /\ UNCHANGED <<registered, request, stack, status, calls, mark>>

-----------------------------------------------------------------------------
(* The application's code.                                                 *)

\* A middleware calls next.
Next_(f) ==
    /\ phase = "running"
    /\ f.mw # 0
    /\ CallNext(f)
    /\ UNCHANGED <<registered, request, mark>>

\* The innermost call returns a response of its own, or the one it was handed.
Return(s) ==
    /\ phase = "running"
    /\ s \in {"own", status} \ {"none"}
    /\ stack' = Front(stack)
    /\ phase' = IF Len(stack) = 1 THEN "returned" ELSE "running"
    /\ status' = s
    /\ UNCHANGED <<registered, request, calls, mark>>

\* It throws, or what was thrown below passes through it.
ThrowUp(kind) ==
    /\ phase = "running" \/ (phase = kind /\ stack # << >>)
    /\ Throw(kind)
    /\ stack' = Front(stack)
    /\ UNCHANGED <<registered, request, calls, mark>>

\* A middleware catches what was thrown in the next it called.
Catch ==
    /\ phase \in {"thrown", "escaping"} /\ stack # << >>
    /\ phase' = "running"
    /\ UNCHANGED <<registered, request, stack, status, calls, mark>>

-----------------------------------------------------------------------------
Register ==
    \/ \E o \in Owners, p \in Patterns \cup {BadPattern}, m \in Methods : AddRoute(o, p, m)
    \/ \E c \in Controllers : RegisterController(c)
    \/ \E h \in Holders : AddMiddleware(h)

Callback ==
    \/ \E q \in Requests : RouteAnswers(q) \/ ControllerAnswers(q) \/ NothingMatches(q)
    \/ SendReply
    \/ Escape

Application ==
    \/ stack # << >> /\ Next_(Last(stack))
    \/ \E s \in {"own", "notfound"} : Return(s)
    \/ \E kind \in {"thrown", "escaping"} : ThrowUp(kind)
    \/ Catch

Next == Register \/ Callback \/ Application

Spec == Init /\ [][Next]_vars

-----------------------------------------------------------------------------
(* Properties.                                                             *)

\* The middlewares of h that were registered when the request came in.
Guards(h) == {n \in 1..mark : last[n] = h}

Below(k) == {stack[j].mw : j \in 1..(k - 1)}

\* A handler only runs inside every middleware that its route, and the controller of
\* the route, had when the request came in, whatever was registered, called, thrown
\* and caught since.
HandlerBehindChain ==
    \A k \in DOMAIN stack : stack[k].mw = 0 =>
        /\ Guards(stack[k].of) \subseteq Below(k)
        /\ \A c \in Controllers :
              stack[k].of \in Range(table[c]) => Guards(c) \subseteq Below(k)

\* Calls nest like the lists say: those of one route or controller in the order in
\* which its middlewares were registered, the handler after them, those of the
\* controller outside of those of its route, and no other route's.
Onion ==
    \A j, k \in DOMAIN stack : j < k =>
        /\ stack[j].mw # 0
        /\ stack[j].of = stack[k].of => stack[k].mw = 0 \/ stack[j].mw < stack[k].mw
        /\ stack[j].of # stack[k].of =>
              stack[j].of \in Controllers /\ stack[k].of \in Range(table[stack[j].of])

\* The routes that are looked at before the i-th route of o.
Before(o, i) ==
    {table[o][j] : j \in 1..(i - 1)}
    \cup IF o = Server THEN {}
         ELSE Range(table[Server]) \cup
              UNION {Range(table[controllers[k]]) :
                        k \in {k \in DOMAIN controllers :
                                  \A j \in 1..k : controllers[j] # o}}

\* The code that runs belongs to a route that matches the request, and none of those
\* registered before the request came in that are looked at earlier does: routes of
\* the server before controllers, each in the order of registration.
FirstMatch ==
    \A k \in DOMAIN stack, o \in Owners : \A i \in DOMAIN table[o] :
        stack[k].of = table[o][i] =>
            /\ IsMatch(table[o][i], request)
            /\ \A r \in Before(o, i) : r <= mark => ~Throws(r) /\ ~IsMatch(r, request)

\* The library answers 404 only if no route of the server or of a registered controller
\* matches; in particular a controller never claims a request and then does not find it.
NotFoundMeansNone ==
    status = "notfound" =>
        \A o \in {Server} \cup Range(controllers) :
            \A r \in Range(table[o]) : ~IsMatch(r, request)
=============================================================================
