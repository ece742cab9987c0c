---------------------------- MODULE Dispatch_proofs ----------------------------
(***************************************************************************)
(* Theorems about Dispatch, for any routes, middlewares, controllers and   *)
(* patterns: its type invariant, and that handlers are found, guarded and  *)
(* nested the way its properties say.                                      *)
(***************************************************************************)
EXTENDS Dispatch, SequenceTheorems, TLAPS

(* The list of h is made of its middlewares, in the order of their numbers.*)
Lists ==
    /\ \A n \in Objects : last[n] # 0 => n <= made
    /\ \A h \in Holders : head[h] # 0 => last[head[h]] = h
    /\ \A h \in Holders, n \in Objects : last[n] = h => head[h] # 0 /\ head[h] <= n
    /\ \A n \in Objects : next[n] # 0 => n < next[n] /\ last[n] # 0 /\ last[next[n]] = last[n]
    /\ \A m, n \in Objects :
          m < n /\ last[m] # 0 /\ last[m] = last[n] => next[m] # 0 /\ next[m] <= n

(* A route is in one table, once.                                          *)
Tables ==
    /\ \A o \in Owners : \A i \in DOMAIN table[o] : last[table[o][i]] = 0
    /\ \A o, p \in Owners : \A i \in DOMAIN table[o], j \in DOMAIN table[p] :
          table[o][i] = table[p][j] => o = p /\ i = j

(* A running call knows all that is left of its list, as far as it existed *)
(* when the request came in.                                               *)
Chained(f) ==
    /\ f.mw # 0 => last[f.mw] = f.of
    /\ f.mw = 0 => f.then = 0 /\ f.of \notin Controllers
    /\ f.then # 0 => f.mw < f.then /\ last[f.then] = f.of
    /\ \A n \in Guards(f.of) : f.mw # 0 => n <= f.mw \/ (f.then # 0 /\ f.then <= n)

(* With B around it, it runs inside all that it has to run inside.         *)
Guarded(f, B) ==
    /\ \A n \in Guards(f.of) : f.mw = 0 \/ n < f.mw => n \in B
    /\ \A c \in Controllers : f.of \in Range(table[c]) => Guards(c) \subseteq B

Passed(r, q)   == ~Throws(r) /\ ~IsMatch(r, q)
Preferred(o, i, q) == \A r \in Before(o, i) : r <= mark => Passed(r, q)

(* It belongs to what the search for q has found, or to the controller     *)
(* that the search has gone into and will not leave with a 404.            *)
ChosenController(c, q) ==
    /\ c \in Controllers
    /\ c \in Range(controllers)
    /\ Preferred(c, 1, q)
    /\ Claims(c, q)

ChosenRoute(r, q) ==
    \E o \in Owners : \E i \in DOMAIN table[o] :
        /\ r = table[o][i]
        /\ IsMatch(r, q)
        /\ Preferred(o, i, q)
        /\ o = Server \/ o \in Range(controllers)

Chosen(f, q) == ChosenController(f.of, q) \/ ChosenRoute(f.of, q)

FramesOK ==
    \A k \in DOMAIN stack :
        Chained(stack[k]) /\ Guarded(stack[k], Below(k)) /\ Chosen(stack[k], request)

(* The library's own 404 is the answer to the request, not handed around.  *)
NotFoundLast == status = "notfound" => phase = "returned" /\ NotFoundMeansNone

\* The inductive invariant.
DInv == TypeOK /\ Lists /\ Tables /\ FramesOK /\ Onion /\ NotFoundLast

-----------------------------------------------------------------------------
LEMMA ZeroIsNoHolder == 0 \notin Holders /\ Objects \cap Controllers = {} /\ Server \notin Controllers
  BY DispatchAssumption DEF Holders, Objects

LEMMA InitDInv == Init => DInv
<1> SUFFICES ASSUME Init PROVE DInv
  OBVIOUS
<1> USE DEF Init
<1>1. TypeOK
  <2>1. made \in 0..MaxObjects /\ made = 0
    BY DispatchAssumption
  <2>2. table \in [Owners -> Seq(1..made)] /\ controllers \in Seq(Controllers)
    OBVIOUS
  <2>3. url \in [Objects -> Patterns \cup {BadPattern}] /\ method \in [Objects -> Methods]
    OBVIOUS
  <2>4. head \in [Holders -> 0..made] /\ next \in [Objects -> 0..made]
    BY <2>1
  <2>5. last \in [Objects -> Holders \cup {0}]
    OBVIOUS
  <2>6. stack \in Seq(Frames) /\ stack = << >>
    OBVIOUS
  <2>7. phase = "idle" /\ request = NoRequest /\ status = "none" /\ calls = 0
        /\ mark \in 0..made
    BY <2>1
  <2>8. QED
    BY <2>1, <2>2, <2>3, <2>4, <2>5, <2>6, <2>7 DEF TypeOK, Phases
<1>2. Lists
  BY ZeroIsNoHolder DEF Lists
<1>3. Tables
  BY DEF Tables
<1>4. FramesOK /\ Onion /\ NotFoundLast
  BY DEF FramesOK, Onion, NotFoundLast
<1>5. QED
  BY <1>1, <1>2, <1>3, <1>4 DEF DInv

-----------------------------------------------------------------------------
(* Registering.  What all registrations have in common: the tables grow at *)
(* their ends, by objects that are newer than all there were.              *)

Longer(s, t) ==
    /\ \A i \in DOMAIN s : i \in DOMAIN t /\ t[i] = s[i]
    /\ \A i \in DOMAIN t : i \in DOMAIN s \/ \A j \in DOMAIN s : j < i

Grows ==
    /\ made' \in Nat /\ made <= made'
    /\ \A o \in Owners :
          /\ Longer(table[o], table'[o])
          /\ \A i \in DOMAIN table'[o] : i \in DOMAIN table[o] \/ table'[o][i] > made
    /\ Longer(controllers, controllers')
    /\ \A n \in 1..made : url'[n] = url[n] /\ method'[n] = method[n] /\ last'[n] = last[n]
    /\ \A n \in Objects : last'[n] # last[n] => n > made
    /\ UNCHANGED running

LEMMA Appending ==
  ASSUME NEW S, NEW s \in Seq(S), NEW e
  PROVE  /\ Longer(s, Append(s, e))
         /\ \A i \in DOMAIN Append(s, e) : i \in DOMAIN s \/ Append(s, e)[i] = e
         /\ Append(s, e) \in Seq(S \cup {e})
<1>1. /\ Len(s) \in Nat /\ DOMAIN s = 1..Len(s)
      /\ DOMAIN Append(s, e) = 1..(Len(s) + 1)
      /\ \A i \in 1..Len(s) : Append(s, e)[i] = s[i]
      /\ Append(s, e)[Len(s) + 1] = e
  OBVIOUS
<1>2. s \in Seq(S \cup {e})
  BY SeqMonotonic
<1>3. Append(s, e) \in Seq(S \cup {e})
  BY <1>2
<1>4. QED
  BY <1>1, <1>3 DEF Longer

LEMMA Same == ASSUME NEW s, NEW n \in Nat, DOMAIN s = 1..n PROVE Longer(s, s)
  BY DEF Longer

(* The types of the sequences, as the provers want them.                   *)
Shaped ==
    /\ \A o \in Owners : Len(table[o]) \in Nat /\ DOMAIN table[o] = 1..Len(table[o])
    /\ \A o \in Owners : \A i \in DOMAIN table[o] : table[o][i] \in 1..made
    /\ Len(controllers) \in Nat /\ DOMAIN controllers = 1..Len(controllers)
    /\ \A k \in DOMAIN controllers : controllers[k] \in Controllers
    /\ Len(stack) \in Nat /\ DOMAIN stack = 1..Len(stack)
    /\ \A k \in DOMAIN stack : stack[k] \in Frames
    /\ made \in Nat /\ made <= MaxObjects /\ mark \in Nat /\ mark <= made

LEMMA Shapes == TypeOK => Shaped
<1> SUFFICES ASSUME TypeOK PROVE Shaped
  OBVIOUS
<1>1. /\ \A o \in Owners : table[o] \in Seq(1..made)
      /\ controllers \in Seq(Controllers) /\ stack \in Seq(Frames)
      /\ made \in 0..MaxObjects /\ mark \in 0..made
  BY DEF TypeOK
<1>2. made \in Nat /\ made <= MaxObjects /\ mark \in Nat /\ mark <= made
  BY <1>1, DispatchAssumption
<1>3. \A o \in Owners : Len(table[o]) \in Nat /\ DOMAIN table[o] = 1..Len(table[o])
  BY <1>1
<1>4. \A o \in Owners : \A i \in DOMAIN table[o] : table[o][i] \in 1..made
  BY <1>1
<1>5. Len(controllers) \in Nat /\ DOMAIN controllers = 1..Len(controllers)
      /\ \A k \in DOMAIN controllers : controllers[k] \in Controllers
  BY <1>1
<1>6. Len(stack) \in Nat /\ DOMAIN stack = 1..Len(stack)
      /\ \A k \in DOMAIN stack : stack[k] \in Frames
  BY <1>1
<1>7. QED
  BY <1>2, <1>3, <1>4, <1>5, <1>6 DEF Shaped

LEMMA ShapesNext == TypeOK' => Shaped'
  BY Shapes, PTL

(* What was preferred to everything before it stays so: what comes before  *)
(* it now is new, or was before it.                                        *)
LEMMA GrowsKeepsPreferred ==
  ASSUME Shaped, Shaped', Grows, NEW o \in Owners, o = Server \/ o \in Range(controllers),
         NEW i, i \in DOMAIN table[o] \/ i = 1, NEW q \in Requests, Preferred(o, i, q)
  PROVE  Preferred(o, i, q)'
<1> SUFFICES ASSUME NEW r \in Before(o, i)', r <= mark PROVE Passed(r, q)'
  BY DEF Preferred, Grows, running
<1> USE DEF Shaped
<1>1. \A p \in Owners : \A j \in DOMAIN table'[p] :
         table'[p][j] <= mark => j \in DOMAIN table[p] /\ table[p][j] = table'[p][j]
  BY DEF Grows, Longer
<1>2. r \in Before(o, i)
  <2>1. CASE r \in {table'[o][j] : j \in 1..(i - 1)}
    <3>1. PICK j \in 1..(i - 1) : r = table'[o][j]
      BY <2>1
    <3>2. i \in DOMAIN table[o] /\ j \in DOMAIN table[o]
      BY <3>1
    <3>3. r = table[o][j]
      BY <3>1, <3>2 DEF Grows, Longer
    <3>4. QED
      BY <3>1, <3>3 DEF Before
  <2>2. CASE o # Server /\ r \in Range(table'[Server])
    <3>1. PICK j \in DOMAIN table'[Server] : r = table'[Server][j]
      BY <2>2 DEF Range
    <3>2. j \in DOMAIN table[Server] /\ table[Server][j] = r
      BY <1>1, <3>1 DEF Owners
    <3>3. QED
      BY <2>2, <3>2 DEF Before, Range
  <2>3. CASE o # Server /\ \E k \in DOMAIN controllers' :
                (\A j \in 1..k : controllers'[j] # o) /\ r \in Range(table'[controllers'[k]])
    <3>1. PICK k \in DOMAIN controllers' :
                (\A j \in 1..k : controllers'[j] # o) /\ r \in Range(table'[controllers'[k]])
      BY <2>3
    <3>2. PICK m \in DOMAIN controllers : controllers[m] = o
      BY <2>3 DEF Range
    <3>3. k \in DOMAIN controllers
      <4>1. m \in DOMAIN controllers' /\ controllers'[m] = o
        BY <3>2 DEF Grows, Longer
      <4>2. ASSUME k \notin DOMAIN controllers PROVE FALSE
        <5>1. m < k
          BY <3>1, <3>2, <4>2 DEF Grows, Longer
        <5>2. QED
          BY <3>1, <4>1, <5>1
      <4>3. QED
        BY <4>2
    <3>4. controllers'[k] = controllers[k] /\ controllers[k] \in Owners
          /\ \A j \in 1..k : j \in DOMAIN controllers /\ controllers[j] # o
      <4>1. DOMAIN controllers = 1..Len(controllers) /\ Len(controllers) \in Nat
            /\ \A j \in DOMAIN controllers : controllers[j] \in Controllers
        BY DEF Shaped
      <4>2. \A j \in DOMAIN controllers : controllers'[j] = controllers[j]
        BY DEF Grows, Longer
      <4>3. \A j \in 1..k : j \in DOMAIN controllers
        BY <3>3, <4>1
      <4>4. QED
        BY <3>1, <3>3, <4>1, <4>2, <4>3 DEF Owners
    <3>5. PICK j \in DOMAIN table'[controllers[k]] : r = table'[controllers[k]][j]
      BY <3>1, <3>4 DEF Range
    <3>6. j \in DOMAIN table[controllers[k]] /\ table[controllers[k]][j] = r
      BY <1>1, <3>4, <3>5
    <3>7. r \in Range(table[controllers[k]])
      BY <3>6 DEF Range
    <3>8. QED
      BY <2>3, <3>3, <3>4, <3>7 DEF Before
  <2>4. QED
    BY <2>1, <2>2, <2>3 DEF Before
<1>3. r \in 1..made
  <2>1. \A p \in Owners : \A j \in DOMAIN table[p] : table[p][j] \in 1..made
    OBVIOUS
  <2>2. \A k \in DOMAIN controllers : controllers[k] \in Owners
    BY DEF Owners
  <2>3. \A p \in Owners : Range(table[p]) \subseteq 1..made
    BY <2>1 DEF Range
  <2>4. \A j \in 1..(i - 1) : table[o][j] \in 1..made
    OBVIOUS
  <2>5. Server \in Owners
    BY DEF Owners
  <2>6. QED
    BY <1>2, <2>2, <2>3, <2>4, <2>5 DEF Before
<1>4. Passed(r, q)
  BY <1>2 DEF Preferred
<1>5. QED
  BY <1>3, <1>4 DEF Passed, Throws, IsMatch, UrlIs, Grows

(* Before the newest object, nothing changes about who belongs where.      *)
LEMMA GrowsKeepsMembers ==
  ASSUME TypeOK, TypeOK', Lists, Grows
  PROVE  /\ \A h : Guards(h)' = Guards(h)
         /\ \A o \in Owners, r \in 1..made :
               r \in Range(table[o]) <=> r \in Range(table'[o])
         /\ \A c : c \in Range(controllers) => c \in Range(controllers')
         /\ \A n \in 1..made : /\ Throws(n)' <=> Throws(n)
                               /\ \A q : IsMatch(n, q)' <=> IsMatch(n, q)
<1> USE DEF Shaped
<1>1. Shaped /\ Shaped'
  BY Shapes, ShapesNext
<1>2. mark' = mark /\ 1..mark \subseteq 1..made
  BY <1>1 DEF Grows, running
<1>3. \A n \in 1..mark : last'[n] = last[n]
  BY <1>1, <1>2 DEF Grows
<1>4. ASSUME NEW h PROVE Guards(h)' = Guards(h)
  BY <1>2, <1>3 DEF Guards
<1>5. ASSUME NEW o \in Owners, NEW r \in 1..made
      PROVE  r \in Range(table[o]) <=> r \in Range(table'[o])
  <2>1. ASSUME r \in Range(table[o]) PROVE r \in Range(table'[o])
    BY <2>1 DEF Grows, Longer, Range
  <2>2. ASSUME r \in Range(table'[o]) PROVE r \in Range(table[o])
    <3>1. PICK j \in DOMAIN table'[o] : table'[o][j] = r
      BY <2>2 DEF Range
    <3>2. j \in DOMAIN table[o]
      BY <1>1, <3>1 DEF Grows
    <3>3. table[o][j] = r
      BY <3>1, <3>2 DEF Grows, Longer
    <3>4. QED
      BY <3>2, <3>3 DEF Range
  <2>3. QED
    BY <2>1, <2>2
<1>6. ASSUME NEW c \in Range(controllers) PROVE c \in Range(controllers')
  BY DEF Grows, Longer, Range
<1>7. \A n \in 1..made : (Throws(n)' <=> Throws(n)) /\ \A q : (IsMatch(n, q)' <=> IsMatch(n, q))
  BY DEF Throws, IsMatch, UrlIs, Grows
<1>8. QED
  BY <1>4, <1>5, <1>6, <1>7

LEMMA GrowsPreserves ==
  ASSUME DInv, TypeOK', Grows, phase \in {"idle", "running"}
  PROVE  FramesOK' /\ Onion' /\ NotFoundLast'
<1> USE DEF DInv
<1>1. Shaped /\ Shaped'
  BY Shapes, ShapesNext
<1>2. UNCHANGED running
  BY DEF Grows
<1>3. ASSUME NEW k \in DOMAIN stack
      PROVE  (Chained(stack[k]) /\ Guarded(stack[k], Below(k)) /\ Chosen(stack[k], request))'
  <2> DEFINE f == stack[k]
  <2>1. Chained(f) /\ Guarded(f, Below(k)) /\ Chosen(f, request)
    BY DEF FramesOK
  <2>2. f \in Frames /\ stack'[k] = f /\ request' = request /\ Below(k)' = Below(k)
    BY <1>1, <1>2 DEF Shaped, running, Below
  <2>3. f.of \in Holders /\ f.mw \in 0..MaxObjects /\ f.then \in 0..MaxObjects
    BY <2>2 DEF Frames
  <2>4. f.of \in 1..made \/ f.of \in Controllers
    BY <1>1, <2>1 DEF Chosen, ChosenController, ChosenRoute, Shaped
  <2>5. /\ f.mw # 0 => f.mw \in 1..made
        /\ f.then # 0 => f.then \in 1..made
    BY <1>1, <2>1, <2>3, ZeroIsNoHolder DEF Chained, Lists, Objects, Shaped
  <2>6. Guards(f.of)' = Guards(f.of)
    <3>1. \A h : Guards(h)' = Guards(h)
      BY GrowsKeepsMembers
    <3>2. QED
      BY <2>2, <3>1
  <2>7. Chained(stack[k])'
    <3>1. /\ f.mw # 0 => last'[f.mw] = f.of
          /\ f.mw = 0 => f.then = 0 /\ f.of \notin Controllers
          /\ f.then # 0 => f.mw < f.then /\ last'[f.then] = f.of
      BY <2>1, <2>5 DEF Chained, Grows
    <3>2. \A n \in Guards(f.of)' : f.mw # 0 => n <= f.mw \/ (f.then # 0 /\ f.then <= n)
      BY <2>1, <2>6 DEF Chained
    <3>3. QED
      BY <2>2, <3>1, <3>2 DEF Chained
  <2>8. Guarded(stack[k], Below(k))'
    <3>1. \A n \in Guards(f.of)' : f.mw = 0 \/ n < f.mw => n \in Below(k)
      BY <2>1, <2>6 DEF Guarded
    <3>2. ASSUME NEW c \in Controllers, f.of \in Range(table'[c])
          PROVE  Guards(c)' \subseteq Below(k)
      <4>1. c \in Owners
        BY DEF Owners
      <4>2. f.of \in 1..made'
        BY <1>1, <3>2, <4>1 DEF Shaped, Range
      <4>3. f.of \in 1..made
        BY <2>4, <4>2, DispatchAssumption
      <4>4. f.of \in Range(table[c])
        BY <3>2, <4>1, <4>3, GrowsKeepsMembers
      <4>5. Guards(c)' = Guards(c)
        BY GrowsKeepsMembers
      <4>6. QED
        BY <2>1, <4>4, <4>5 DEF Guarded
    <3>3. QED
      BY <2>2, <3>1, <3>2 DEF Guarded
  <2>9. Chosen(stack[k], request)'
    <3>1. CASE stack # << >> /\ ChosenController(f.of, request)
      <4>1. request \in Requests
        BY <1>1, <3>1 DEF TypeOK, Shaped
      <4>2. f.of \in Controllers /\ f.of \in Owners /\ f.of \in Range(controllers)
        BY <3>1 DEF ChosenController, Owners
      <4>3. Preferred(f.of, 1, request)'
        BY <1>1, <3>1, <4>1, <4>2, <2>2, GrowsKeepsPreferred DEF ChosenController
      <4>4. PICK i \in DOMAIN table[f.of] : ~Past(f.of, request, i)
        BY <3>1 DEF ChosenController, Claims
      <4>5. i \in DOMAIN table'[f.of] /\ table'[f.of][i] = table[f.of][i]
            /\ table[f.of][i] \in 1..made
        BY <1>1, <4>2 DEF Grows, Longer, Shaped
      <4>6. ~Past(f.of, request, i)'
        BY <2>2, <4>4, <4>5, GrowsKeepsMembers DEF Past
      <4>7. ChosenController(f.of, request)'
        BY <2>2, <4>2, <4>3, <4>5, <4>6, GrowsKeepsMembers DEF ChosenController, Claims
      <4>8. QED
        BY <2>2, <4>7 DEF Chosen
    <3>2. CASE stack # << >> /\ ChosenRoute(f.of, request)
      <4>1. request \in Requests
        BY <1>1, <3>2 DEF TypeOK, Shaped
      <4>2. PICK o \in Owners : \E i \in DOMAIN table[o] :
                /\ f.of = table[o][i]
                /\ IsMatch(f.of, request)
                /\ Preferred(o, i, request)
                /\ o = Server \/ o \in Range(controllers)
        BY <3>2 DEF ChosenRoute
      <4>3. PICK i \in DOMAIN table[o] :
                /\ f.of = table[o][i]
                /\ IsMatch(f.of, request)
                /\ Preferred(o, i, request)
                /\ o = Server \/ o \in Range(controllers)
        BY <4>2
      <4>4. i \in DOMAIN table'[o] /\ f.of = table'[o][i] /\ f.of \in 1..made
        BY <1>1, <4>3 DEF Grows, Longer, Shaped
      <4>5. IsMatch(f.of, request)'
        BY <2>2, <4>3, <4>4, GrowsKeepsMembers
      <4>6. Preferred(o, i, request)'
        BY <1>1, <2>2, <4>1, <4>3, GrowsKeepsPreferred
      <4>7. o = Server \/ o \in Range(controllers')
        BY <4>3, GrowsKeepsMembers
      <4>8. ChosenRoute(f.of, request)'
        BY <2>2, <4>4, <4>5, <4>6, <4>7 DEF ChosenRoute
      <4>9. QED
        BY <2>2, <4>8 DEF Chosen
    <3>3. stack # << >>
      BY <1>1 DEF Shaped
    <3>4. QED
      BY <2>1, <3>1, <3>2, <3>3 DEF Chosen
  <2>10. QED
    BY <2>7, <2>8, <2>9
<1>4. FramesOK'
  BY <1>2, <1>3 DEF FramesOK, running
<1>5. Onion'
  <2> SUFFICES ASSUME NEW j \in DOMAIN stack, NEW k \in DOMAIN stack, j < k
               PROVE  /\ stack[j].mw # 0
                      /\ stack[j].of = stack[k].of => stack[k].mw = 0 \/ stack[j].mw < stack[k].mw
                      /\ stack[j].of # stack[k].of =>
                            /\ stack[j].of \in Controllers
                            /\ stack[k].of \in Range(table'[stack[j].of])
    BY <1>2 DEF Onion, running
  <2>1. /\ stack[j].mw # 0
        /\ stack[j].of = stack[k].of => stack[k].mw = 0 \/ stack[j].mw < stack[k].mw
        /\ stack[j].of # stack[k].of =>
              stack[j].of \in Controllers /\ stack[k].of \in Range(table[stack[j].of])
    BY DEF Onion
  <2>2. ASSUME NEW c \in Controllers, NEW r \in Range(table[c]) PROVE r \in Range(table'[c])
    BY <2>2 DEF Grows, Longer, Range, Owners
  <2>3. QED
    BY <2>1, <2>2
<1>6. NotFoundLast'
  BY <1>2 DEF NotFoundLast, running
<1>7. QED
  BY <1>4, <1>5, <1>6

LEMMA AddRoutePreserves ==
  ASSUME DInv, NEW o \in Owners, NEW p \in Patterns \cup {BadPattern}, NEW m \in Methods,
         AddRoute(o, p, m)
  PROVE  DInv'
<1> USE DEF DInv
<1>1. Shaped
  BY Shapes
<1>2. /\ made \in Nat /\ made' = made + 1 /\ made' \in Objects /\ made' \in 1..made'
      /\ made' \in 0..MaxObjects /\ 1..made \subseteq 1..made' /\ 0..made \subseteq 0..made'
  BY <1>1, DispatchAssumption DEF AddRoute, Shaped, Objects
<1>3. table[o] \in Seq(1..made) /\ 1..made \cup {made'} \subseteq 1..made'
  BY <1>2 DEF TypeOK
<1>4. /\ Longer(table[o], table'[o])
      /\ \A i \in DOMAIN table'[o] : i \in DOMAIN table[o] \/ table'[o][i] = made'
      /\ table'[o] \in Seq(1..made \cup {made'})
  <2>1. table'[o] = Append(table[o], made')
    BY DEF AddRoute, TypeOK
  <2>2. /\ Longer(table[o], Append(table[o], made'))
        /\ \A i \in DOMAIN Append(table[o], made') :
              i \in DOMAIN table[o] \/ Append(table[o], made')[i] = made'
        /\ Append(table[o], made') \in Seq(1..made \cup {made'})
    BY <1>3, Appending
  <2>3. QED
    BY <2>1, <2>2
<1>5. \A u \in Owners : u # o => table'[u] = table[u] /\ Longer(table[u], table'[u])
  BY <1>1 DEF AddRoute, TypeOK, Longer, Shaped
<1>6. \A n \in 1..made : n # made' /\ n \in Objects
  BY <1>1, <1>2, DispatchAssumption DEF Shaped, Objects
<1>7. Grows
  <2>1. Longer(controllers, controllers')
    BY <1>1 DEF AddRoute, Longer, Shaped
  <2>2. \A u \in Owners : \A i \in DOMAIN table'[u] : i \in DOMAIN table[u] \/ table'[u][i] > made
    BY <1>2, <1>4, <1>5
  <2>3. \A n \in 1..made : url'[n] = url[n] /\ method'[n] = method[n] /\ last'[n] = last[n]
    BY <1>6 DEF AddRoute, TypeOK
  <2>4. QED
    BY <1>2, <1>4, <1>5, <2>1, <2>2, <2>3 DEF Grows, AddRoute
<1>8. TypeOK'
  <2>1. \A u \in Owners : table'[u] \in Seq(1..made')
    <3>1. Seq(1..made) \subseteq Seq(1..made')
      BY <1>2, SeqMonotonic
    <3>2. Seq(1..made \cup {made'}) \subseteq Seq(1..made')
      BY <1>3, SeqMonotonic
    <3>3. QED
      BY <1>4, <1>5, <3>1, <3>2 DEF TypeOK
  <2>2. table' \in [Owners -> Seq(1..made')]
    BY <2>1 DEF AddRoute, TypeOK
  <2>3. url' \in [Objects -> Patterns \cup {BadPattern}] /\ method' \in [Objects -> Methods]
    BY DEF AddRoute, TypeOK
  <2>4. head' \in [Holders -> 0..made'] /\ next' \in [Objects -> 0..made']
    BY <1>2 DEF AddRoute, TypeOK
  <2>5. mark' \in 0..made'
    BY <1>2 DEF AddRoute, TypeOK, running
  <2>6. QED
    BY <1>2, <2>2, <2>3, <2>4, <2>5 DEF TypeOK, AddRoute, running
<1>9. Lists'
  BY <1>2 DEF Lists, AddRoute, TypeOK
<1>10. Tables'
  <2>1. last[made'] = 0
    BY <1>2 DEF Lists
  <2>2. \A u \in Owners : \A i \in DOMAIN table'[u] :
           \/ i \in DOMAIN table[u] /\ table'[u][i] = table[u][i] /\ table[u][i] # made'
           \/ u = o /\ i = Len(table[o]) + 1 /\ table'[u][i] = made'
    <3>1. DOMAIN table'[o] = 1..(Len(table[o]) + 1) /\ table'[o][Len(table[o]) + 1] = made'
      BY <1>3 DEF AddRoute, TypeOK
    <3>2. QED
      BY <1>1, <1>4, <1>5, <1>6, <3>1 DEF Longer, Shaped
  <2>3. \A u \in Owners : \A i \in DOMAIN table'[u] : last'[table'[u][i]] = 0
    BY <2>1, <2>2 DEF Tables, AddRoute
  <2>4. QED
    BY <2>2, <2>3 DEF Tables
<1>11. QED
  BY <1>7, <1>8, <1>9, <1>10, GrowsPreserves DEF AddRoute, AppRuns

LEMMA RegisterControllerPreserves ==
  ASSUME DInv, NEW c \in Controllers, RegisterController(c)
  PROVE  DInv'
<1> USE DEF DInv
<1>1. Shaped
  BY Shapes
<1>2. Longer(controllers, controllers') /\ controllers' \in Seq(Controllers)
  <2>1. controllers \in Seq(Controllers) /\ controllers' = Append(controllers, c)
    BY DEF RegisterController, TypeOK
  <2>2. QED
    BY <2>1, Appending
<1>3. Grows
  BY <1>1, <1>2 DEF RegisterController, Grows, Longer, Shaped
<1>4. TypeOK'
  BY <1>2 DEF RegisterController, TypeOK, running
<1>5. Lists' /\ Tables'
  BY DEF RegisterController, Lists, Tables
<1>6. QED
  BY <1>3, <1>4, <1>5, GrowsPreserves DEF RegisterController, AppRuns

LEMMA AddMiddlewarePreserves ==
  ASSUME DInv, NEW h \in Holders, AddMiddleware(h)
  PROVE  DInv'
<1> USE DEF DInv
<1>1. Shaped
  BY Shapes
<1> DEFINE n == made + 1
<1>2. /\ made \in Nat /\ made' = n /\ n \in Objects /\ n \in 1..made'
      /\ n \in 0..MaxObjects /\ 1..made \subseteq 1..made' /\ 0..made \subseteq 0..made'
  BY <1>1, DispatchAssumption DEF AddMiddleware, Shaped, Objects
<1>3. \A k \in 1..made : k # n /\ k \in Objects
  BY <1>1, <1>2, DispatchAssumption DEF Shaped, Objects
<1>4. last' = [last EXCEPT ![n] = h] /\ Link(h, n)
  BY <1>2 DEF AddMiddleware
<1>5. Grows
  BY <1>1, <1>2, <1>3, <1>4 DEF AddMiddleware, Grows, Longer, Shaped, TypeOK
<1>6. /\ head' \in [Holders -> 0..made'] /\ next' \in [Objects -> 0..made']
      /\ last' \in [Objects -> Holders \cup {0}]
  <2>1. head \in [Holders -> 0..made'] /\ next \in [Objects -> 0..made']
    BY <1>2 DEF TypeOK
  <2>2. head' \in [Holders -> 0..made'] /\ next' \in [Objects -> 0..made']
    BY <1>2, <1>4, <2>1 DEF Link
  <2>3. last' \in [Objects -> Holders \cup {0}]
    BY <1>4 DEF TypeOK
  <2>4. QED
    BY <2>2, <2>3
<1>7. TypeOK'
  <2>1. Seq(1..made) \subseteq Seq(1..made')
    BY <1>2, SeqMonotonic
  <2>2. table' \in [Owners -> Seq(1..made')]
    BY <2>1 DEF AddMiddleware, TypeOK
  <2>3. mark' \in 0..made' /\ made' \in 0..MaxObjects
    BY <1>2 DEF AddMiddleware, TypeOK, running
  <2>4. QED
    BY <1>6, <2>2, <2>3 DEF TypeOK, AddMiddleware, running
<1>8. Tables'
  <2>1. \A o \in Owners : \A i \in DOMAIN table[o] : table[o][i] # n
    BY <1>1, <1>3 DEF Shaped
  <2>2. QED
    BY <1>4, <2>1 DEF Tables, AddMiddleware, TypeOK
<1>9. Lists'
  <2>1. last[n] = 0 /\ next[n] = 0 /\ h # 0
    BY <1>2, ZeroIsNoHolder DEF Lists, TypeOK
  <2>2. \A k \in Objects : last[k] # 0 => k < n
    BY <1>2 DEF Lists, Objects
  <2>3. \A k \in Objects : last'[k] = IF k = n THEN h ELSE last[k]
    BY <1>2, <1>4 DEF TypeOK
  <2>7. \A k \in Objects : next[k] # 0 => next[k] \in Objects /\ next[k] # n /\ k # n
    <3>1. \A k \in Objects : next[k] \in 0..made
      BY DEF TypeOK
    <3>2. QED
      BY <1>2, <1>3, <2>1, <3>1
  <2>4. CASE head[h] = 0
    <3>1. \A g \in Holders : head'[g] = IF g = h THEN n ELSE head[g]
      BY <1>4, <2>4 DEF Link, TypeOK
    <3>2. next' = next /\ \A k \in Objects : last[k] # h
      BY <1>4, <2>4 DEF Link, Lists
    <3>3. \A k \in Objects : last'[k] # 0 => k <= made'
      BY <1>2, <2>2, <2>3 DEF Objects
    <3>4. \A g \in Holders : head'[g] # 0 => last'[head'[g]] = g
      <4>1. ASSUME NEW g \in Holders, g # h, head[g] # 0 PROVE last'[head[g]] = g
        <5>1. head[g] \in Objects /\ last[head[g]] = g /\ head[g] # n
          BY <1>2, <1>3, <2>1, <4>1, ZeroIsNoHolder DEF Lists, TypeOK, Objects
        <5>2. QED
          BY <2>3, <5>1
      <4>2. QED
        BY <1>2, <2>3, <3>1, <4>1
    <3>5. \A g \in Holders, k \in Objects : last'[k] = g => head'[g] # 0 /\ head'[g] <= k
      BY <1>2, <2>3, <3>1, <3>2 DEF Lists, Objects
    <3>6. \A k \in Objects : next'[k] # 0 => k < next'[k] /\ last'[k] # 0 /\ last'[next'[k]] = last'[k]
      BY <2>3, <2>7, <3>2 DEF Lists
    <3>7. \A j, k \in Objects :
             j < k /\ last'[j] # 0 /\ last'[j] = last'[k] => next'[j] # 0 /\ next'[j] <= k
      BY <1>2, <2>2, <2>3, <3>2 DEF Lists, Objects
    <3>8. QED
      BY <3>3, <3>4, <3>5, <3>6, <3>7 DEF Lists
  <2>5. CASE head[h] # 0
    <3>1. PICK t \in 1..made : last[t] = h /\ next[t] = 0 /\ next' = [next EXCEPT ![t] = n]
      BY <1>4, <2>5 DEF Link
    <3>2. head' = head /\ t \in Objects /\ t < n
          /\ \A k \in Objects : next'[k] = IF k = t THEN n ELSE next[k]
      BY <1>2, <1>3, <1>4, <2>5, <3>1 DEF Link, TypeOK, Objects
    <3>3. \A k \in Objects : last[k] = h => k <= t
      BY <2>1, <3>1, <3>2 DEF Lists, Objects
    <3>4. \A k \in Objects : last'[k] # 0 => k <= made'
      BY <1>2, <2>2, <2>3 DEF Objects
    <3>5. \A g \in Holders : head[g] # 0 => head[g] \in Objects /\ head[g] # n /\ head[g] <= made
      BY <1>2, <1>3 DEF TypeOK, Objects
    <3>6. \A g \in Holders : head'[g] # 0 => last'[head'[g]] = g
      BY <2>3, <3>2, <3>5 DEF Lists
    <3>7. \A g \in Holders, k \in Objects : last'[k] = g => head'[g] # 0 /\ head'[g] <= k
      BY <1>2, <2>3, <2>5, <3>2, <3>5 DEF Lists, TypeOK
    <3>8. t # n /\ last'[t] = h /\ last'[n] = h /\ h # 0
      BY <1>2, <1>3, <2>1, <2>3, <3>1, <3>2
    <3>9. ASSUME NEW k \in Objects, next'[k] # 0
          PROVE  k < next'[k] /\ last'[k] # 0 /\ last'[next'[k]] = last'[k]
      <4>1. CASE k = t
        BY <3>2, <3>8, <4>1
      <4>2. CASE k # t
        <5>1. next'[k] = next[k] /\ next[k] \in Objects /\ next[k] # n /\ k # n
          BY <2>7, <3>2, <3>9, <4>2
        <5>2. k < next[k] /\ last[k] # 0 /\ last[next[k]] = last[k]
          BY <3>9, <5>1 DEF Lists
        <5>3. QED
          BY <2>3, <5>1, <5>2
      <4>3. QED
        BY <4>1, <4>2
    <3>10. ASSUME NEW j \in Objects, NEW k \in Objects, j < k, last'[j] # 0, last'[j] = last'[k]
           PROVE  next'[j] # 0 /\ next'[j] <= k
      <4>1. j # n
        BY <1>2, <2>2, <2>3, <3>10 DEF Objects
      <4>2. CASE k # n
        <5>1. last[j] # 0 /\ last[j] = last[k]
          BY <2>3, <3>10, <4>1, <4>2
        <5>2. next[j] # 0 /\ next[j] <= k
          BY <3>10, <5>1 DEF Lists
        <5>3. QED
          BY <3>1, <3>2, <5>2
      <4>3. CASE k = n /\ j # t
        <5>1. last[j] = h /\ j < t
          BY <2>3, <3>3, <3>10, <4>1, <4>3, <3>2 DEF Objects
        <5>2. next[j] # 0 /\ next[j] <= t
          BY <2>1, <3>1, <3>2, <5>1 DEF Lists
        <5>3. next'[j] = next[j] /\ t < k
          BY <3>2, <4>3
        <5>4. next[j] \in Nat /\ t \in Nat /\ k \in Nat
          BY <2>7, <3>2, <5>2, DispatchAssumption DEF Objects
        <5>5. QED
          BY <5>2, <5>3, <5>4
      <4>4. CASE k = n /\ j = t
        BY <1>2, <3>2, <4>4
      <4>5. QED
        BY <4>2, <4>3, <4>4
    <3>11. QED
      BY <3>4, <3>6, <3>7, <3>9, <3>10 DEF Lists
  <2>6. QED
    BY <2>4, <2>5
<1>10. QED
  BY <1>5, <1>7, <1>8, <1>9, GrowsPreserves DEF AddMiddleware, AppRuns

-----------------------------------------------------------------------------
(* Calling.  A call that is entered with all the others around it.         *)

LEMMA StackGrows ==
  ASSUME NEW S, NEW s \in Seq(S), NEW e \in S
  PROVE  /\ Append(s, e) \in Seq(S) /\ Append(s, e) # << >>
         /\ DOMAIN Append(s, e) = 1..(Len(s) + 1) /\ Len(s) \in Nat /\ DOMAIN s = 1..Len(s)
         /\ \A k \in 1..Len(s) : Append(s, e)[k] = s[k]
         /\ Append(s, e)[Len(s) + 1] = e
  OBVIOUS

(* What is said of a call does not depend on the running calls.            *)
LEMMA SameSearch ==
  ASSUME UNCHANGED registered, UNCHANGED <<request, mark>>, NEW f, NEW B
  PROVE  /\ Chained(f) => Chained(f)'
         /\ Guarded(f, B) => Guarded(f, B)'
         /\ Chosen(f, request) => Chosen(f, request)'
<1> USE DEF registered
<1>1. \A h : Guards(h)' = Guards(h)
  BY DEF Guards
<1>2. Chained(f) => Chained(f)'
  BY <1>1 DEF Chained
<1>3. Guarded(f, B) => Guarded(f, B)'
  BY <1>1 DEF Guarded
<1>4. \A r : Passed(r, request)' <=> Passed(r, request)
  BY DEF Passed, Throws, IsMatch, UrlIs
<1>5. \A o, i : Before(o, i)' = Before(o, i)
  BY DEF Before
<1>6. \A o, i : Preferred(o, i, request)' <=> Preferred(o, i, request)
  BY <1>4, <1>5 DEF Preferred
<1>7. \A c : Claims(c, request)' <=> Claims(c, request)
  BY DEF Claims, Past, Throws, IsMatch, UrlIs
<1>8. \A r : IsMatch(r, request)' <=> IsMatch(r, request)
  BY DEF IsMatch, UrlIs, Throws
<1>9. ChosenController(f.of, request) => ChosenController(f.of, request)'
  BY <1>6, <1>7 DEF ChosenController
<1>10. ChosenRoute(f.of, request) => ChosenRoute(f.of, request)'
  BY <1>6, <1>8 DEF ChosenRoute
<1>11. QED
  BY <1>2, <1>3, <1>9, <1>10 DEF Chosen

(* The middlewares that are running.                                       *)
Around == {stack[j].mw : j \in DOMAIN stack}

Fits(f, g) ==
    /\ f.mw # 0
    /\ f.of = g.of => g.mw = 0 \/ f.mw < g.mw
    /\ f.of # g.of => f.of \in Controllers /\ g.of \in Range(table[f.of])

LEMMA EnterKeepsFrames ==
  ASSUME DInv, NEW f \in Frames, NEW B, B = Around,
         UNCHANGED registered, stack' = Append(stack, f),
         stack = << >> \/ UNCHANGED <<request, mark>>,
         Chained(f)', Guarded(f, B)', Chosen(f, request)',
         \A j \in DOMAIN stack : Fits(stack[j], f)
  PROVE  FramesOK' /\ Onion'
<1> USE DEF DInv
<1>0. PICK n : n = Len(stack) + 1
  OBVIOUS
<1>1. /\ DOMAIN stack' = 1..n /\ Len(stack) \in Nat /\ DOMAIN stack = 1..Len(stack)
      /\ \A k \in 1..Len(stack) : stack'[k] = stack[k]
      /\ stack'[n] = f
  <2>1. stack \in Seq(Frames)
    BY DEF TypeOK
  <2>2. QED
    BY <1>0, <2>1, StackGrows
<1>2. \A k \in DOMAIN stack : Below(k)' = Below(k)
  BY <1>1 DEF Below
<1>3. Below(n)' = B
  <2>1. Below(n)' = {stack'[j].mw : j \in 1..Len(stack)}
    BY <1>0, <1>1 DEF Below
  <2>2. QED
    BY <1>1, <2>1 DEF Around
<1>4. ASSUME NEW k \in DOMAIN stack
      PROVE  (Chained(stack[k]) /\ Guarded(stack[k], Below(k)) /\ Chosen(stack[k], request))'
  <2>1. UNCHANGED <<request, mark>>
    BY <1>1
  <2>2. Chained(stack[k]) /\ Guarded(stack[k], Below(k)) /\ Chosen(stack[k], request)
    BY DEF FramesOK
  <2>3. PICK g, C : g = stack[k] /\ C = Below(k)
    OBVIOUS
  <2>4. Chained(g)' /\ Guarded(g, C)' /\ Chosen(g, request)'
    BY <2>1, <2>2, <2>3, SameSearch
  <2>5. stack'[k] = g /\ Below(k)' = C
    BY <1>1, <1>2, <2>3
  <2>6. QED
    BY <2>4, <2>5
<1>5. FramesOK'
  <2> SUFFICES ASSUME NEW k \in 1..n
               PROVE  (Chained(stack[k]) /\ Guarded(stack[k], Below(k)) /\ Chosen(stack[k], request))'
    BY <1>1 DEF FramesOK
  <2>1. CASE k \in DOMAIN stack
    BY <1>4, <2>1
  <2>2. CASE k = n
    BY <1>1, <1>3, <2>2
  <2>3. QED
    BY <1>0, <1>1, <2>1, <2>2
<1>6. Onion'
  <2>1. \A j, k \in DOMAIN stack : j < k => Fits(stack[j], stack[k])
    BY DEF Onion, Fits
  <2>2. \A j, k \in 1..n : j < k => Fits(stack'[j], stack'[k])
    BY <1>0, <1>1, <2>1
  <2>3. QED
    BY <1>1, <2>2 DEF Onion, Fits, registered
<1>7. QED
  BY <1>5, <1>6

(* A middleware's call knows what is left of its list.                     *)
LEMMA MiddlewareFits ==
  ASSUME TypeOK, Lists, UNCHANGED registered, NEW m \in Objects, last[m] # 0,
         mark' \in Nat, mark' <= made,
         NEW f, f = MiddlewareCall(m)
  PROVE  f \in Frames /\ Chained(f)' /\ f.of = last[m] /\ f.mw = m /\ f.then = next[m]
<1>1. f.of = last[m] /\ f.mw = m /\ f.then = next[m]
  BY DEF MiddlewareCall
<1>2. next[m] \in 0..made /\ last[m] \in Holders /\ made \in 0..MaxObjects
      /\ m \in 1..MaxObjects
  BY DEF TypeOK, Objects
<1>3. m \in 0..MaxObjects /\ next[m] \in 0..MaxObjects /\ 1..mark' \subseteq Objects
  BY <1>2, DispatchAssumption DEF Objects
<1>4. f \in Frames
  BY <1>2, <1>3 DEF MiddlewareCall, Frames
<1>5. m # 0
  BY <1>2
<1>6. f.then # 0 => f.mw < f.then /\ last[f.then] = f.of
  BY <1>1 DEF Lists
<1>7. \A n \in 1..mark' : last[n] = f.of => n <= f.mw \/ (f.then # 0 /\ f.then <= n)
  BY <1>1, <1>3 DEF Lists, Objects
<1>8. Chained(f)'
  BY <1>1, <1>5, <1>6, <1>7 DEF Chained, Guards, registered
<1>9. QED
  BY <1>1, <1>4, <1>8

HandlerOrList(r) ==
    IF head[r] = 0 THEN HandlerCall(r) ELSE MiddlewareCall(head[r])

(* The call of a route that the search for q has found.                    *)
LEMMA RouteFits ==
  ASSUME TypeOK, Lists, Tables, UNCHANGED registered,
         NEW o \in Owners, NEW i \in DOMAIN table[o], NEW q \in Requests,
         IsMatch(table[o][i], q), \A j \in 1..(i - 1) : Passed(table[o][j], q),
         Preferred(o, 1, q)', o = Server \/ o \in Range(controllers),
         mark' \in Nat, mark' <= made,
         NEW B, o \in Controllers => Guards(o)' \subseteq B,
         NEW f, f = HandlerOrList(table[o][i])
  PROVE  /\ f \in Frames /\ Chained(f)' /\ Guarded(f, B)' /\ Chosen(f, q)'
         /\ f.of = table[o][i]
<1>1. Shaped
  BY Shapes
<1>2. PICK r : r = table[o][i]
  OBVIOUS
<1>3. r \in 1..made /\ r \in Objects /\ r \in Holders /\ r \notin Controllers
      /\ 0 \in 0..MaxObjects /\ 1..mark' \subseteq Objects
  BY <1>1, <1>2, DispatchAssumption DEF Shaped, Objects, Holders
<1>4. f \in Frames /\ Chained(f)' /\ f.of = r /\ \A n \in Guards(r)' : f.mw # 0 /\ f.mw <= n
  <2>1. CASE head[r] = 0
    <3>1. f = [of |-> r, mw |-> 0, then |-> 0]
      BY <1>2, <2>1 DEF HandlerOrList, HandlerCall
    <3>2. f \in Frames /\ f.of = r /\ f.mw = 0 /\ f.then = 0
      BY <1>3, <3>1 DEF Frames
    <3>3. \A n \in Guards(r)' : FALSE
      BY <1>3, <2>1 DEF Lists, Guards, registered
    <3>4. Chained(f)'
      BY <1>3, <3>2, <3>3 DEF Chained
    <3>5. QED
      BY <3>2, <3>3, <3>4
  <2>2. CASE head[r] # 0
    <3>1. head[r] \in Objects /\ last[head[r]] = r /\ r # 0
      <4>1. head[r] \in 0..made /\ made \in 0..MaxObjects
        BY <1>3 DEF TypeOK
      <4>2. head[r] \in Objects
        BY <2>2, <4>1, DispatchAssumption DEF Objects
      <4>3. last[head[r]] = r
        BY <1>3, <2>2 DEF Lists
      <4>4. r # 0
        BY <1>3, ZeroIsNoHolder
      <4>5. QED
        BY <4>2, <4>3, <4>4
    <3>2. f = MiddlewareCall(head[r])
      BY <1>2, <2>2 DEF HandlerOrList
    <3>3. f \in Frames /\ Chained(f)' /\ f.of = r /\ f.mw = head[r]
      BY <3>1, <3>2, MiddlewareFits
    <3>4. \A n \in Guards(r)' : head[r] <= n
      BY <1>3 DEF Lists, Guards, registered
    <3>5. QED
      BY <2>2, <3>3, <3>4
  <2>3. QED
    BY <2>1, <2>2
<1>5. Guarded(f, B)'
  <2>1. \A n \in Guards(f.of)' : ~(f.mw = 0 \/ n < f.mw)
    <3>1. \A n \in Guards(r)' : n \in Nat
      BY <1>3 DEF Guards, Objects
    <3>2. f.mw \in Nat
      BY <1>4, DispatchAssumption DEF Frames
    <3>3. QED
      BY <1>4, <3>1, <3>2
  <2>2. ASSUME NEW c \in Controllers, r \in Range(table'[c]) PROVE c = o
    <3>1. PICK j \in DOMAIN table[c] : table[c][j] = r
      BY <2>2 DEF Range, registered
    <3>2. QED
      BY <1>2, <3>1 DEF Tables, Owners
  <2>3. QED
    BY <1>4, <2>1, <2>2 DEF Guarded
<1>6. Chosen(f, q)'
  <2>1. IsMatch(r, q)'
    BY <1>2 DEF IsMatch, UrlIs, Throws, registered
  <2>2. Preferred(o, i, q)'
    <3>1. \A x \in Before(o, i)' : x \in Before(o, 1)' \/ \E j \in 1..(i - 1) : x = table[o][j]
      BY DEF Before, registered
    <3>2. \A x \in Before(o, i)' : x <= mark' => Passed(x, q)'
      <4> SUFFICES ASSUME NEW x \in Before(o, i)', x <= mark' PROVE Passed(x, q)'
        OBVIOUS
      <4>1. CASE x \in Before(o, 1)'
        BY <4>1 DEF Preferred
      <4>2. CASE \E j \in 1..(i - 1) : x = table[o][j]
        <5>1. PICK j \in 1..(i - 1) : x = table[o][j]
          BY <4>2
        <5>2. \A y : y = table[o][j] => Passed(y, q)'
          BY DEF Passed, IsMatch, UrlIs, Throws, registered
        <5>3. QED
          BY <5>1, <5>2
      <4>3. QED
        BY <3>1, <4>1, <4>2
    <3>3. QED
      BY <3>2 DEF Preferred
  <2>3. ChosenRoute(r, q)'
    BY <1>2, <2>1, <2>2 DEF ChosenRoute, registered
  <2>4. QED
    BY <1>4, <2>3 DEF Chosen
<1>7. QED
  BY <1>2, <1>4, <1>5, <1>6

(* Where calls are made: in a call that is running, or when q comes in.    *)
Context(q) ==
    \/ phase = "running" /\ request = q /\ UNCHANGED <<request, mark>>
    \/ phase = "idle" /\ request' = q /\ mark' = made

LEMMA ContextFacts ==
  ASSUME TypeOK, NEW q \in Requests, Context(q)
  PROVE  /\ request' = q /\ request' \in Requests /\ request' # NoRequest
         /\ mark' \in 0..made /\ mark' \in Nat /\ mark' <= made
         /\ stack = << >> \/ UNCHANGED <<request, mark>>
<1>1. NoRequest \notin Requests
  BY DispatchAssumption DEF Requests
<1>2. made \in Nat /\ mark \in Nat /\ mark <= made
  BY Shapes DEF Shaped
<1>3. QED
  BY <1>1, <1>2 DEF Context, TypeOK

LEMMA RegisteredType ==
  ASSUME TypeOK, UNCHANGED registered, mark' \in 0..made,
         request' \in Requests \cup {NoRequest}, phase' \in Phases,
         stack' \in Seq(Frames), status' \in {"none", "own", "notfound"},
         calls' \in Nat,
         phase' = "idle" <=> request' = NoRequest,
         phase' = "running" => stack' # << >>,
         phase' \in {"idle", "returned", "dead"} => stack' = << >>
  PROVE  TypeOK'
  BY DEF TypeOK, registered

LEMMA EnterPreserves ==
  ASSUME DInv, NEW f \in Frames, NEW q \in Requests, NEW B, B = Around,
         Enter(f), Context(q), UNCHANGED registered,
         Chained(f)', Guarded(f, B)', Chosen(f, q)',
         \A j \in DOMAIN stack : Fits(stack[j], f)
  PROVE  DInv'
<1> USE DEF DInv
<1>1. /\ request' = q /\ request' \in Requests /\ request' # NoRequest
      /\ mark' \in 0..made
      /\ stack = << >> \/ UNCHANGED <<request, mark>>
  BY ContextFacts
<1>2. stack' = Append(stack, f) /\ phase' = "running" /\ status' = "none" /\ calls' = calls + 1
  BY DEF Enter
<1>3. TypeOK'
  <2>1. stack' \in Seq(Frames) /\ stack' # << >>
    <3>1. stack \in Seq(Frames)
      BY DEF TypeOK
    <3>2. QED
      BY <1>2, <3>1, StackGrows
  <2>2. calls' \in Nat
    BY <1>2 DEF TypeOK
  <2>3. QED
    BY <1>1, <1>2, <2>1, <2>2, RegisteredType DEF Phases
<1>4. Lists' /\ Tables'
  BY DEF Lists, Tables, registered
<1>5. Chosen(f, request)'
  BY <1>1 DEF Chosen, ChosenController, ChosenRoute, Preferred, Passed, Claims, Past,
     IsMatch, UrlIs
<1>6. FramesOK' /\ Onion'
  BY <1>1, <1>2, <1>5, EnterKeepsFrames
<1>7. NotFoundLast'
  BY <1>2 DEF NotFoundLast
<1>8. QED
  BY <1>3, <1>4, <1>6, <1>7

(* A step that starts no call, and may end the innermost one.              *)
LEMMA StackShrinks ==
  ASSUME NEW S, NEW s \in Seq(S), s # << >>
  PROVE  /\ Front(s) \in Seq(S) /\ Len(s) \in Nat /\ Len(s) # 0
         /\ Len(Front(s)) = Len(s) - 1
         /\ \A k \in 1..(Len(s) - 1) : Front(s)[k] = s[k]
<1>1. Len(s) \in Nat /\ Len(s) # 0 /\ DOMAIN s = 1..Len(s)
  BY EmptySeq
<1>2. \A k \in 1..Len(s) : s[k] \in S
  BY ElementOfSeq
<1>3. 1..(Len(s) - 1) \subseteq 1..Len(s) /\ Len(s) - 1 \in Nat
  BY <1>1
<1>4. /\ Front(s) \in Seq(S)
      /\ Len(Front(s)) = Len(s) - 1
      /\ \A k \in 1..(Len(s) - 1) : Front(s)[k] = s[k]
  BY <1>1, <1>2, <1>3, SubSeqProperties DEF Front
<1>5. QED
  BY <1>1, <1>4

LEMMA LeaveKeepsFrames ==
  ASSUME DInv, UNCHANGED registered, stack' \in Seq(Frames),
         \/ stack' = << >>
         \/ UNCHANGED <<request, mark, stack>>
         \/ UNCHANGED <<request, mark>> /\ stack # << >> /\ stack' = Front(stack)
  PROVE  FramesOK' /\ Onion'
<1> USE DEF DInv
<1>1. CASE stack' = << >>
  BY <1>1 DEF FramesOK, Onion
<1>2. CASE stack' # << >> /\ UNCHANGED <<request, mark>>
           /\ (stack' = stack \/ (stack # << >> /\ stack' = Front(stack)))
  <2>1. stack \in Seq(Frames)
    BY DEF TypeOK
  <2>2. /\ DOMAIN stack' = 1..Len(stack') /\ DOMAIN stack = 1..Len(stack)
        /\ Len(stack') \in Nat /\ Len(stack) \in Nat /\ Len(stack') <= Len(stack)
        /\ \A k \in 1..Len(stack') : stack'[k] = stack[k]
    BY <1>2, <2>1, StackShrinks
  <2>3. \A k \in DOMAIN stack' : Below(k)' = Below(k) /\ k \in DOMAIN stack
    BY <2>2 DEF Below
  <2>4. ASSUME NEW k \in DOMAIN stack'
        PROVE  (Chained(stack[k]) /\ Guarded(stack[k], Below(k)) /\ Chosen(stack[k], request))'
    <3>1. Chained(stack[k]) /\ Guarded(stack[k], Below(k)) /\ Chosen(stack[k], request)
      BY <2>3 DEF FramesOK
    <3>2. PICK g, C : g = stack[k] /\ C = Below(k)
      OBVIOUS
    <3>3. Chained(g)' /\ Guarded(g, C)' /\ Chosen(g, request)'
      BY <1>2, <3>1, <3>2, SameSearch
    <3>4. stack'[k] = g /\ Below(k)' = C
      BY <2>2, <2>3, <3>2
    <3>5. QED
      BY <3>3, <3>4
  <2>5. FramesOK'
    BY <2>4 DEF FramesOK
  <2>6. Onion'
    BY <2>2, <2>3 DEF Onion, registered
  <2>7. QED
    BY <2>5, <2>6
<1>3. QED
  BY <1>1, <1>2

(* A std::exception in the search.                                         *)
LEMMA ThrowPreserves ==
  ASSUME DInv, NEW q \in Requests, Context(q), Throw("thrown"),
         UNCHANGED registered, UNCHANGED <<stack, calls>>
  PROVE  DInv'
<1> USE DEF DInv
<1>1. /\ request' = q /\ request' \in Requests /\ request' # NoRequest
      /\ mark' \in 0..made
      /\ stack = << >> \/ UNCHANGED <<request, mark>>
  BY ContextFacts
<1>2. phase' = "thrown" /\ status' = "none"
  BY DEF Throw
<1>3. stack' \in Seq(Frames) /\ calls' \in Nat
  BY DEF TypeOK
<1>4. TypeOK'
  BY <1>1, <1>2, <1>3, RegisteredType DEF Phases
<1>5. Lists' /\ Tables'
  BY DEF Lists, Tables, registered
<1>6. FramesOK' /\ Onion'
  BY <1>1, <1>3, LeaveKeepsFrames
<1>7. NotFoundLast'
  BY <1>2 DEF NotFoundLast
<1>8. QED
  BY <1>4, <1>5, <1>6, <1>7

(* The loop over the routes of the server, or of the controller all the    *)
(* running calls belong to.                                                *)
LEMMA ServePreserves ==
  ASSUME DInv, NEW o \in Owners, NEW q \in Requests, Serve(o, q), Context(q),
         UNCHANGED registered,
         Preferred(o, 1, q)', o = Server \/ o \in Range(controllers),
         NEW B, B = Around, o \in Controllers => Guards(o)' \subseteq B,
         \A j \in DOMAIN stack : stack[j].mw # 0 /\ stack[j].of = o /\ o \in Controllers
  PROVE  DInv'
<1> USE DEF DInv
<1>1. PICK i \in DOMAIN table[o] :
         /\ StopsAt(o, q, i)
         /\ IF Throws(table[o][i])
            THEN Throw("thrown") /\ UNCHANGED <<stack, calls>>
            ELSE CallRoute(table[o][i])
  BY DEF Serve
<1>2. CASE Throws(table[o][i])
  BY <1>1, <1>2, ThrowPreserves
<1>3. CASE ~Throws(table[o][i])
  <2>1. IsMatch(table[o][i], q) /\ \A j \in 1..(i - 1) : Passed(table[o][j], q)
    BY <1>1, <1>3 DEF StopsAt, Past, Passed
  <2>2. PICK f : f = HandlerOrList(table[o][i])
    OBVIOUS
  <2>3. Enter(f)
    BY <1>1, <1>3, <2>2 DEF CallRoute, HandlerOrList
  <2>4. /\ f \in Frames /\ Chained(f)' /\ Guarded(f, B)' /\ Chosen(f, q)'
        /\ f.of = table[o][i]
    BY <2>1, <2>2, ContextFacts, RouteFits
  <2>5. \A j \in DOMAIN stack : Fits(stack[j], f)
    <3>1. table[o][i] \in Nat /\ table[o][i] \in Range(table[o])
      BY Shapes DEF Shaped, Range
    <3>2. o \in Controllers => table[o][i] # o
      BY <3>1, DispatchAssumption
    <3>3. QED
      BY <2>4, <3>1, <3>2 DEF Fits
  <2>6. QED
    BY <2>3, <2>4, <2>5, EnterPreserves
<1>4. QED
  BY <1>2, <1>3

-----------------------------------------------------------------------------
(* The callback of libevent.                                               *)

LEMMA RouteAnswersPreserves ==
  ASSUME DInv, NEW q \in Requests, RouteAnswers(q)
  PROVE  DInv'
<1> USE DEF DInv
<1>1. phase = "idle" /\ stack = << >> /\ Context(q)
      /\ UNCHANGED registered /\ Serve(Server, q)
  BY DEF RouteAnswers, Arrive, Context, TypeOK
<1>2. Server \in Owners /\ Server \notin Controllers
  BY DispatchAssumption DEF Owners
<1>3. Preferred(Server, 1, q)'
  BY DEF Preferred, Before
<1>4. PICK B : B = Around
  OBVIOUS
<1>5. QED
  BY <1>1, <1>2, <1>3, <1>4, ServePreserves

(* A controller that has claimed q does not answer 404.                    *)
LEMMA HandlePreserves ==
  ASSUME DInv, NEW c \in Controllers, NEW q \in Requests, Handle(c, q), Context(q),
         UNCHANGED registered, Claims(c, q),
         Preferred(c, 1, q)', c \in Range(controllers),
         NEW B, B = Around, Guards(c)' \subseteq B,
         \A j \in DOMAIN stack : stack[j].mw # 0 /\ stack[j].of = c
  PROVE  DInv'
<1>1. Serve(c, q)
  BY DEF Handle, Claims
<1>2. c \in Owners
  BY DEF Owners
<1>3. QED
  BY <1>1, <1>2, ServePreserves

LEMMA ControllerAnswersPreserves ==
  ASSUME DInv, NEW q \in Requests, ControllerAnswers(q)
  PROVE  DInv'
<1> USE DEF DInv
<1>1. phase = "idle" /\ stack = << >> /\ Context(q) /\ NoRoute(q)
      /\ UNCHANGED registered
  BY DEF ControllerAnswers, Arrive, Context, TypeOK
<1>2. PICK k \in DOMAIN controllers :
          /\ Claims(controllers[k], q)
          /\ \A j \in 1..(k - 1) : ~Claims(controllers[j], q)
          /\ IF \E i \in DOMAIN table[controllers[k]] :
                    StopsAt(controllers[k], q, i) /\ Throws(table[controllers[k]][i])
             THEN Throw("thrown") /\ UNCHANGED <<stack, calls>>
             ELSE CallController(controllers[k], q)
  BY DEF ControllerAnswers
<1>3. PICK c : c = controllers[k]
  OBVIOUS
<1>4. c \in Controllers /\ c \in Range(controllers) /\ c \in Holders /\ c # 0
  BY <1>2, <1>3, Shapes, ZeroIsNoHolder DEF Shaped, Range, Holders
<1>5. CASE Throw("thrown") /\ UNCHANGED <<stack, calls>>
  BY <1>1, <1>5, ThrowPreserves
<1>6. CASE CallController(c, q)
  <2>1. \A o \in Owners :
           (\A i \in DOMAIN table[o] : Past(o, q, i)) =>
              \A r \in Range(table[o]) : Passed(r, q)
    BY DEF Past, Passed, Range
  <2>2. \A r \in Range(table[Server]) : Passed(r, q)
    BY <1>1, <2>1 DEF NoRoute, Owners
  <2>3. \A m \in DOMAIN controllers : (\A j \in 1..m : controllers[j] # c) =>
           \A r \in Range(table[controllers[m]]) : Passed(r, q)
    <3> SUFFICES ASSUME NEW m \in DOMAIN controllers, \A j \in 1..m : controllers[j] # c
                 PROVE  \A r \in Range(table[controllers[m]]) : Passed(r, q)
      OBVIOUS
    <3>1. m \in 1..(k - 1) /\ controllers[m] \in Owners
      BY <1>2, <1>3, Shapes DEF Shaped, Owners
    <3>2. ~Claims(controllers[m], q)
      BY <1>2, <3>1
    <3>3. QED
      BY <2>1, <3>1, <3>2 DEF Claims
  <2>4. Preferred(c, 1, q)'
    <3>1. \A r \in Before(c, 1)' : Passed(r, q)
      BY <2>2, <2>3, <1>1 DEF Before, registered
    <3>2. \A r : Passed(r, q)' <=> Passed(r, q)
      BY <1>1 DEF Passed, Throws, IsMatch, UrlIs, registered
    <3>3. QED
      BY <3>1, <3>2 DEF Preferred
  <2>5. PICK B : B = Around
    OBVIOUS
  <2>6. mark' \in Nat /\ mark' <= made /\ 1..mark' \subseteq Objects
    BY <1>1, ContextFacts, Shapes, DispatchAssumption DEF Shaped, Objects
  <2>7. CASE head[c] = 0
    <3>1. Handle(c, q)
      BY <1>6, <2>7 DEF CallController
    <3>2. Guards(c)' \subseteq B
      BY <1>1, <1>4, <2>6, <2>7 DEF Guards, Lists, registered
    <3>3. Claims(c, q)
      BY <1>2, <1>3
    <3>4. QED
      BY <1>1, <1>4, <2>4, <2>5, <3>1, <3>2, <3>3, HandlePreserves
  <2>8. CASE head[c] # 0
    <3>1. PICK m : m = head[c]
      OBVIOUS
    <3>2. m \in Objects /\ last[m] = c
      <4>1. head[c] \in 0..made /\ made \in 0..MaxObjects
        BY <1>4 DEF TypeOK
      <4>2. m \in Objects
        BY <2>8, <3>1, <4>1, DispatchAssumption DEF Objects
      <4>3. QED
        BY <1>4, <2>8, <3>1, <4>2 DEF Lists
    <3>3. PICK f : f = MiddlewareCall(m)
      OBVIOUS
    <3>4. Enter(f)
      BY <1>6, <2>8, <3>1, <3>3 DEF CallController
    <3>5. f \in Frames /\ Chained(f)' /\ f.of = c /\ f.mw = m
      BY <1>1, <1>4, <2>6, <3>2, <3>3, MiddlewareFits
    <3>6. Guarded(f, B)'
      <4>1. \A n \in Guards(c)' : m <= n /\ n \in Nat /\ m \in Nat
        BY <1>1, <1>4, <2>6, <3>1, <3>2 DEF Guards, Lists, registered, Objects
      <4>2. \A n \in Guards(f.of)' : ~(f.mw = 0 \/ n < f.mw)
        BY <3>2, <3>5, <4>1 DEF Objects
      <4>3. \A d \in Controllers : c \notin Range(table'[d])
        <5>1. \A d \in Controllers : Range(table[d]) \subseteq Nat
          BY Shapes DEF Shaped, Range, Owners
        <5>2. QED
          BY <1>1, <1>4, <5>1, DispatchAssumption DEF registered
      <4>4. QED
        BY <3>5, <4>2, <4>3 DEF Guarded
    <3>7. Chosen(f, q)'
      <4>1. Claims(c, q)'
        BY <1>1, <1>2, <1>3 DEF Claims, Past, Throws, IsMatch, UrlIs, registered
      <4>2. ChosenController(c, q)'
        BY <1>1, <1>4, <2>4, <4>1 DEF ChosenController, registered
      <4>3. QED
        BY <3>5, <4>2 DEF Chosen
    <3>8. \A j \in DOMAIN stack : Fits(stack[j], f)
      BY <1>1
    <3>9. QED
      BY <1>1, <2>5, <3>4, <3>5, <3>6, <3>7, <3>8, EnterPreserves
  <2>9. QED
    BY <2>7, <2>8
<1>7. QED
  BY <1>2, <1>3, <1>5, <1>6

LEMMA NothingMatchesPreserves ==
  ASSUME DInv, NEW q \in Requests, NothingMatches(q)
  PROVE  DInv'
<1> USE DEF DInv
<1>1. phase = "idle" /\ stack = << >> /\ Context(q) /\ NoRoute(q)
      /\ UNCHANGED registered /\ UNCHANGED <<stack, calls>>
      /\ phase' = "returned" /\ status' = "notfound"
  BY DEF NothingMatches, Arrive, Context, TypeOK, NotFound
<1>2. /\ request' = q /\ request' \in Requests /\ request' # NoRequest
      /\ mark' \in 0..made
  BY <1>1, ContextFacts
<1>3. stack' \in Seq(Frames) /\ calls' \in Nat
  BY <1>1 DEF TypeOK
<1>4. TypeOK'
  BY <1>1, <1>2, <1>3, RegisteredType DEF Phases
<1>5. Lists' /\ Tables'
  BY <1>1 DEF Lists, Tables, registered
<1>6. FramesOK' /\ Onion'
  BY <1>1, <1>3, LeaveKeepsFrames
<1>7. NotFoundMeansNone'
  <2>1. \A o \in {Server} \cup Range(controllers) : \A i \in DOMAIN table[o] : Past(o, q, i)
    <3>1. \A k \in DOMAIN controllers : ~Claims(controllers[k], q)
      BY DEF NothingMatches
    <3>2. QED
      BY <1>1, <3>1 DEF NoRoute, Claims, Range
  <2>2. \A o \in {Server} \cup Range(controllers) : \A r \in Range(table[o]) : ~IsMatch(r, q)
    BY <2>1 DEF Past, Range
  <2>3. \A r : IsMatch(r, q)' <=> IsMatch(r, q)
    BY <1>1 DEF IsMatch, UrlIs, Throws, registered
  <2>4. QED
    BY <1>1, <1>2, <2>2, <2>3 DEF NotFoundMeansNone, registered, IsMatch, UrlIs, Throws
<1>8. NotFoundLast'
  BY <1>1, <1>7 DEF NotFoundLast
<1>9. QED
  BY <1>4, <1>5, <1>6, <1>8

LEMMA CallbackEndsPreserves ==
  ASSUME DInv, SendReply \/ Escape
  PROVE  DInv'
<1> USE DEF DInv
<1>1. UNCHANGED registered /\ UNCHANGED stack /\ stack = << >> /\ stack' \in Seq(Frames)
  BY DEF SendReply, Escape, Finish, TypeOK
<1>2. Lists' /\ Tables'
  BY <1>1 DEF Lists, Tables, registered
<1>3. FramesOK' /\ Onion'
  BY <1>1, LeaveKeepsFrames
<1>4. CASE SendReply
  <2>1. /\ phase' = "idle" /\ request' = NoRequest /\ status' = "none"
        /\ calls' = 0 /\ mark' = 0
    BY <1>4 DEF SendReply, Finish
  <2>2. mark' \in 0..made
    BY <2>1, Shapes, DispatchAssumption DEF Shaped
  <2>3. TypeOK'
    BY <1>1, <2>1, <2>2, RegisteredType DEF Phases
  <2>4. QED
    BY <1>2, <1>3, <2>1, <2>3 DEF NotFoundLast
<1>5. CASE Escape
  <2>1. phase = "escaping" /\ phase' = "dead" /\ UNCHANGED <<request, status, calls, mark>>
    BY <1>5 DEF Escape
  <2>2. /\ mark' \in 0..made /\ calls' \in Nat
        /\ status' \in {"none", "own", "notfound"}
        /\ request' \in Requests \cup {NoRequest} /\ request' # NoRequest
    BY <2>1 DEF TypeOK
  <2>3. TypeOK'
    BY <1>1, <2>1, <2>2, RegisteredType DEF Phases
  <2>4. QED
    BY <1>2, <1>3, <2>1, <2>3 DEF NotFoundLast
<1>6. QED
  BY <1>4, <1>5

-----------------------------------------------------------------------------
(* The application's code.                                                 *)

(* A call does not make another: it ends, or goes on after it has caught   *)
(* something.                                                              *)
LEMMA CallGoesOnPreserves ==
  ASSUME DInv,
         \/ Catch
         \/ \E s \in {"own", "notfound"} : Return(s)
         \/ \E kind \in {"thrown", "escaping"} : ThrowUp(kind)
  PROVE  DInv'
<1> USE DEF DInv
<1>1. UNCHANGED registered /\ UNCHANGED <<request, mark, calls>>
  BY DEF Catch, Return, ThrowUp
<1>2. stack \in Seq(Frames) /\ stack # << >>
  BY DEF Catch, ThrowUp, Return, TypeOK
<1>3. stack' = stack \/ stack' = Front(stack)
  BY DEF Catch, ThrowUp, Return
<1>4. stack' \in Seq(Frames)
  BY <1>2, <1>3, StackShrinks
<1>5. /\ phase' \in Phases \ {"idle", "dead"} /\ phase # "idle"
      /\ phase' = "running" => stack' # << >>
      /\ phase' = "returned" => stack' = << >>
  <2>1. CASE Catch
    BY <1>2, <2>1 DEF Catch, Phases
  <2>2. CASE \E kind \in {"thrown", "escaping"} : ThrowUp(kind)
    BY <1>2, <2>2 DEF ThrowUp, Throw, Phases
  <2>3. CASE \E s \in {"own", "notfound"} : Return(s)
    <3>1. /\ phase = "running" /\ stack' = Front(stack)
          /\ phase' = IF Len(stack) = 1 THEN "returned" ELSE "running"
      BY <2>3 DEF Return
    <3>2. Len(stack) \in Nat /\ Len(stack) # 0 /\ Len(stack') = Len(stack) - 1
      BY <1>2, <3>1, StackShrinks
    <3>3. CASE Len(stack) = 1
      <4>1. Len(stack') = 0
        BY <3>2, <3>3
      <4>2. stack' = << >>
        BY <1>4, <4>1, EmptySeq
      <4>3. QED
        BY <3>1, <3>3, <4>2 DEF Phases
    <3>4. CASE Len(stack) # 1
      <4>1. Len(stack') # 0
        BY <3>2, <3>4
      <4>2. stack' # << >>
        BY <4>1
      <4>3. QED
        BY <3>1, <3>4, <4>2 DEF Phases
    <3>5. QED
      BY <3>3, <3>4
  <2>4. QED
    BY <2>1, <2>2, <2>3
<1>6. status' \in {"none", "own"}
  <2>1. status \in {"none", "own"}
    BY DEF NotFoundLast, TypeOK, Catch, Return, ThrowUp
  <2>2. QED
    BY <2>1 DEF Catch, Return, ThrowUp, Throw
<1>7. /\ request' \in Requests \cup {NoRequest} /\ request' # NoRequest
      /\ mark' \in 0..made /\ calls' \in Nat
  BY <1>1, <1>5 DEF TypeOK
<1>8. TypeOK'
  BY <1>1, <1>4, <1>5, <1>6, <1>7, RegisteredType
<1>9. Lists' /\ Tables'
  BY <1>1 DEF Lists, Tables, registered
<1>10. FramesOK' /\ Onion'
  BY <1>1, <1>2, <1>3, <1>4, LeaveKeepsFrames
<1>11. NotFoundLast'
  BY <1>6 DEF NotFoundLast
<1>12. QED
  BY <1>8, <1>9, <1>10, <1>11

(* A middleware calls next: the one after it, or, if it is the last, what  *)
(* they all guard.                                                         *)
LEMMA NextPreserves ==
  ASSUME DInv, stack # << >>, Next_(Last(stack))
  PROVE  DInv'
<1> USE DEF DInv
<1>1. Shaped
  BY Shapes
<1>2. PICK f, B, q : f = Last(stack) /\ B = Around /\ q = request
  OBVIOUS
<1>3. phase = "running" /\ f.mw # 0 /\ CallNext(f)
      /\ UNCHANGED registered /\ UNCHANGED <<request, mark>>
  BY <1>2 DEF Next_
<1>4. PICK n : n = Len(stack)
  OBVIOUS
<1>5. n \in DOMAIN stack /\ f = stack[n] /\ DOMAIN stack = 1..n /\ n \in Nat
  <2>1. n \in Nat /\ n # 0
    BY <1>1, <1>4, EmptySeq DEF Shaped, TypeOK
  <2>2. QED
    BY <1>1, <1>2, <1>4, <2>1 DEF Shaped, Last
<1>6. f \in Frames /\ Chained(f) /\ Guarded(f, Below(n)) /\ Chosen(f, q)
  BY <1>1, <1>2, <1>5 DEF FramesOK, Shaped
<1>7. q \in Requests /\ Context(q)
  BY <1>2, <1>3 DEF TypeOK, Context
<1>8. Below(n) \subseteq B /\ f.mw \in B
  BY <1>2, <1>5 DEF Below, Around
<1>9. /\ mark' \in Nat /\ mark' <= made /\ \A n0 \in Guards(f.of) : n0 \in Nat
      /\ f.mw \in Nat /\ f.then \in 0..MaxObjects /\ f.of \in Holders /\ f.mw \in 0..MaxObjects
  BY <1>1, <1>3, <1>6, DispatchAssumption DEF Shaped, Guards, Frames
<1>10. \A j \in DOMAIN stack :
          /\ stack[j].mw # 0
          /\ stack[j].of = f.of => stack[j].mw <= f.mw
          /\ stack[j].of # f.of =>
                stack[j].of \in Controllers /\ f.of \in Range(table[stack[j].of])
  <2> SUFFICES ASSUME NEW j \in DOMAIN stack
               PROVE  /\ stack[j].mw # 0
                      /\ stack[j].of = f.of => stack[j].mw <= f.mw
                      /\ stack[j].of # f.of =>
                            /\ stack[j].of \in Controllers
                            /\ f.of \in Range(table[stack[j].of])
    OBVIOUS
  <2>1. CASE j = n
    BY <1>3, <1>5, <1>9, <2>1
  <2>2. CASE j < n
    <3>1. stack[j].mw \in Nat
      BY <1>1, DispatchAssumption DEF Shaped, Frames
    <3>2. QED
      BY <1>3, <1>5, <1>9, <2>2, <3>1 DEF Onion
  <2>3. QED
    BY <1>5, <2>1, <2>2
(* What runs after the last middleware runs inside all of them.            *)
<1>11. f.then = 0 => Guards(f.of) \subseteq B
  <2>1. \A m \in Guards(f.of) : f.then = 0 => m <= f.mw
    BY <1>3, <1>6 DEF Chained
  <2>2. \A m \in Guards(f.of) : m < f.mw => m \in B
    BY <1>6, <1>8 DEF Guarded
  <2>3. QED
    BY <1>8, <1>9, <2>1, <2>2
<1>12. \A c \in Controllers : f.of \in Range(table[c]) => Guards(c) \subseteq B
  BY <1>6, <1>8 DEF Guarded
<1>13. \A h : Guards(h)' = Guards(h)
  BY <1>3 DEF Guards, registered
<1>14. CASE f.then # 0
  <2>1. PICK g : g = MiddlewareCall(f.then)
    OBVIOUS
  <2>2. Enter(g)
    BY <1>3, <1>14, <2>1 DEF CallNext
  <2>3. f.then \in Objects /\ last[f.then] = f.of /\ f.mw < f.then /\ f.of # 0
    BY <1>6, <1>9, <1>14, ZeroIsNoHolder DEF Chained, Objects
  <2>4. g \in Frames /\ Chained(g)' /\ g.of = f.of /\ g.mw = f.then
    BY <1>3, <1>9, <2>1, <2>3, MiddlewareFits
  <2>5. Guarded(g, B)'
    <3>1. \A m \in Guards(f.of) : m < f.then => m \in B
      <4> SUFFICES ASSUME NEW m \in Guards(f.of), m < f.then PROVE m \in B
        OBVIOUS
      <4>1. m <= f.mw
        BY <1>3, <1>6, <1>9 DEF Chained
      <4>2. QED
        BY <1>6, <1>8, <1>9, <4>1 DEF Guarded
    <3>2. QED
      BY <1>3, <1>12, <1>13, <1>14, <2>4, <3>1 DEF Guarded, registered
  <2>6. Chosen(g, q)'
    <3>1. Chosen(g, request)
      BY <1>2, <1>6, <2>4 DEF Chosen
    <3>2. Chosen(g, request)'
      BY <1>3, <3>1, SameSearch
    <3>3. request' = q
      BY <1>2, <1>3
    <3>4. QED
      BY <3>2, <3>3 DEF Chosen, ChosenController, ChosenRoute, Preferred, Passed, Claims,
         Past, IsMatch, UrlIs
  <2>7. \A j \in DOMAIN stack : Fits(stack[j], g)
    <3>1. \A j \in DOMAIN stack : stack[j].mw \in Nat
      BY <1>1, DispatchAssumption DEF Shaped, Frames
    <3>2. QED
      BY <1>9, <1>10, <2>3, <2>4, <3>1 DEF Fits
  <2>8. QED
    BY <1>2, <1>3, <1>7, <2>2, <2>4, <2>5, <2>6, <2>7, EnterPreserves
<1>15. CASE f.then = 0 /\ f.of \in Controllers
  <2>1. PICK c : c = f.of
    OBVIOUS
  <2>2. Handle(c, q)
    BY <1>2, <1>3, <1>15, <2>1 DEF CallNext, CallLast
  <2>3. ChosenController(c, q)
    <3>1. \A o \in Owners : \A i \in DOMAIN table[o] : table[o][i] \in Nat
      BY <1>1 DEF Shaped
    <3>2. ~ChosenRoute(c, q)
      BY <1>15, <2>1, <3>1, DispatchAssumption DEF ChosenRoute
    <3>3. QED
      BY <1>6, <2>1, <3>2 DEF Chosen
  <2>4. Preferred(c, 1, q)'
    <3>1. Preferred(c, 1, q)
      BY <2>3 DEF ChosenController
    <3>2. QED
      BY <1>3, <3>1 DEF Preferred, Before, Passed, Throws, IsMatch, UrlIs, registered
  <2>5. \A j \in DOMAIN stack : stack[j].mw # 0 /\ stack[j].of = c
    <3>1. \A d \in Controllers : c \notin Range(table[d])
      BY <1>1, <1>15, <2>1, DispatchAssumption DEF Shaped, Range, Owners
    <3>2. QED
      BY <1>10, <2>1, <3>1
  <2>6. Guards(c)' \subseteq B /\ c \in Controllers
    BY <1>11, <1>13, <1>15, <2>1
  <2>7. QED
    BY <1>2, <1>3, <1>7, <2>2, <2>3, <2>4, <2>5, <2>6, HandlePreserves DEF ChosenController
<1>16. CASE f.then = 0 /\ f.of \notin Controllers
  <2>1. PICK g : g = HandlerCall(f.of)
    OBVIOUS
  <2>2. Enter(g)
    BY <1>3, <1>16, <2>1 DEF CallNext, CallLast
  <2>3. g.of = f.of /\ g.mw = 0 /\ g.then = 0
    BY <2>1 DEF HandlerCall
  <2>4. g \in Frames
    BY <1>9, <2>1, DispatchAssumption DEF HandlerCall, Frames
  <2>5. Chained(g)'
    BY <1>16, <2>3 DEF Chained
  <2>6. Guarded(g, B)'
    BY <1>3, <1>11, <1>12, <1>13, <1>16, <2>3 DEF Guarded, registered
  <2>7. Chosen(g, q)'
    <3>1. Chosen(g, request)
      BY <1>2, <1>6, <2>3 DEF Chosen
    <3>2. Chosen(g, request)'
      BY <1>3, <3>1, SameSearch
    <3>3. request' = q
      BY <1>2, <1>3
    <3>4. QED
      BY <3>2, <3>3 DEF Chosen, ChosenController, ChosenRoute, Preferred, Passed, Claims,
         Past, IsMatch, UrlIs
  <2>8. \A j \in DOMAIN stack : Fits(stack[j], g)
    BY <1>10, <2>3 DEF Fits
  <2>9. QED
    BY <1>2, <1>3, <1>7, <2>2, <2>4, <2>5, <2>6, <2>7, <2>8, EnterPreserves
<1>17. QED
  BY <1>14, <1>15, <1>16

-----------------------------------------------------------------------------
LEMMA StutterPreserves == ASSUME DInv, UNCHANGED vars PROVE DInv'
<1> USE DEF DInv
<1>1. UNCHANGED registered /\ UNCHANGED running
  BY DEF vars
<1>2. TypeOK'
  BY <1>1 DEF TypeOK, registered, running
<1>3. Lists' /\ Tables'
  BY <1>1 DEF Lists, Tables, registered
<1>4. FramesOK' /\ Onion'
  BY <1>1, LeaveKeepsFrames DEF running, TypeOK
<1>5. NotFoundLast'
  BY <1>1 DEF NotFoundLast, NotFoundMeansNone, IsMatch, UrlIs, Throws, registered, running
<1>6. QED
  BY <1>2, <1>3, <1>4, <1>5

LEMMA StepPreserves == DInv /\ [Next]_vars => DInv'
<1> SUFFICES ASSUME DInv, [Next]_vars PROVE DInv'
  OBVIOUS
<1>1. CASE Register
  BY <1>1, AddRoutePreserves, RegisterControllerPreserves, AddMiddlewarePreserves DEF Register
<1>2. CASE Callback
  BY <1>2, RouteAnswersPreserves, ControllerAnswersPreserves, NothingMatchesPreserves,
     CallbackEndsPreserves DEF Callback
<1>3. CASE Application
  BY <1>3, CallGoesOnPreserves, NextPreserves DEF Application
<1>4. CASE UNCHANGED vars
  BY <1>4, StutterPreserves
<1>5. QED
  BY <1>1, <1>2, <1>3, <1>4 DEF Next

THEOREM Invariance == Spec => []DInv
BY InitDInv, StepPreserves, PTL DEF Spec

-----------------------------------------------------------------------------
\* Every variable of Dispatch keeps its type.
THEOREM TypeCorrect == Spec => []TypeOK
<1>1. DInv => TypeOK
  BY DEF DInv
<1>2. QED
  BY <1>1, Invariance, PTL

\* Route::CallHandler and the middlewares never let a handler run outside the
\* middlewares that its route and its controller had when the request came in.
THEOREM HandlersGuarded == Spec => []HandlerBehindChain
<1>1. DInv => HandlerBehindChain
  BY DEF DInv, FramesOK, Guarded, HandlerBehindChain
<1>2. QED
  BY <1>1, Invariance, PTL

\* Calls nest in the order in which AddMiddleware was called.
THEOREM CallsNest == Spec => []Onion
<1>1. DInv => Onion
  BY DEF DInv
<1>2. QED
  BY <1>1, Invariance, PTL

\* The search of Server::RequestHandler and Controller::Handle finds the first match.
THEOREM FirstMatchFound == Spec => []FirstMatch
<1>1. DInv => FirstMatch
  <2> SUFFICES ASSUME DInv, NEW k \in DOMAIN stack, NEW o \in Owners, NEW i \in DOMAIN table[o],
                      stack[k].of = table[o][i]
               PROVE  /\ IsMatch(table[o][i], request)
                      /\ \A r \in Before(o, i) : r <= mark => ~Throws(r) /\ ~IsMatch(r, request)
    BY DEF FirstMatch
  <2>1. Chosen(stack[k], request)
    BY DEF DInv, FramesOK
  <2>2. table[o][i] \in Nat
    BY Shapes DEF DInv, Shaped
  <2>3. ChosenRoute(stack[k].of, request)
    BY <2>1, <2>2, DispatchAssumption DEF Chosen, ChosenController
  <2>4. IsMatch(table[o][i], request) /\ Preferred(o, i, request)
    <3>1. PICK p \in Owners : \E j \in DOMAIN table[p] :
                stack[k].of = table[p][j] /\ IsMatch(table[p][j], request) /\ Preferred(p, j, request)
      BY <2>3 DEF ChosenRoute
    <3>2. PICK j \in DOMAIN table[p] :
                stack[k].of = table[p][j] /\ IsMatch(table[p][j], request) /\ Preferred(p, j, request)
      BY <3>1
    <3>3. p = o /\ j = i
      <4>1. table[o][i] = table[p][j]
        BY <3>2
      <4>2. \A a, b \in Owners : \A x \in DOMAIN table[a], y \in DOMAIN table[b] :
                table[a][x] = table[b][y] => a = b /\ x = y
        BY DEF DInv, Tables
      <4>3. QED
        BY <4>1, <4>2
    <3>4. QED
      BY <3>2, <3>3
  <2>5. QED
    BY <2>4 DEF Preferred, Passed
<1>2. QED
  BY <1>1, Invariance, PTL

\* The library's 404 means that nothing registered matches.
THEOREM NotFoundIsTrue == Spec => []NotFoundMeansNone
<1>1. DInv => NotFoundMeansNone
  BY DEF DInv, NotFoundLast, NotFoundMeansNone
<1>2. QED
  BY <1>1, Invariance, PTL
=============================================================================
