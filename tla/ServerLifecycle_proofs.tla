------------------------- MODULE ServerLifecycle_proofs -------------------------
(***************************************************************************)
(* Theorems about ServerLifecycle, for any number of Starts.               *)
(***************************************************************************)
EXTENDS ServerLifecycle, TLAPS

\* What a Start that did not fail has allocated is either what a started server points
\* to, or the next Start failed (a Start cannot succeed while the port is held, so not
\* the next one succeeded).
Reached(n) ==
    \/ outcome[n] = "failed"
    \/ n < starts /\ outcome[n + 1] = "failed"
    \/ is_started_ /\ n = starts /\ n = e_base_

\* The inductive invariant.
LInv ==
    /\ TypeOK
    /\ FreesOnce
    /\ is_started_ => listening # {} /\ (e_base_ \in http => e_http_server_ = e_base_)
    /\ dispatching => outcome[starts] = "none"
    /\ \A n \in base : Reached(n)
    /\ \A n \in Starts : n > starts => outcome[n] = "none"

-----------------------------------------------------------------------------
LEMMA InitLInv == Init => LInv
<1> SUFFICES ASSUME Init PROVE LInv
  OBVIOUS
<1>1. TypeOK /\ FreesOnce
  <2>1. starts = 0 /\ e_base_ = 0 /\ e_http_server_ = 0 /\ 0 \in 0..MaxStarts /\ 0 \in 0..0
    BY LifecycleAssumption DEF Init
  <2>2. base = {} /\ http = {} /\ listening = {}
    BY DEF Init
  <2>3. dispatching = FALSE /\ is_started_ = FALSE /\ alive = TRUE /\ fault = "none"
    BY DEF Init
  <2>4. outcome \in [Starts -> {"none", "failed", "returned", "threw"}]
    BY DEF Init
  <2>5. TypeOK
    BY <2>1, <2>2, <2>3, <2>4 DEF TypeOK
  <2>6. FreesOnce
    BY <2>2, <2>3 DEF FreesOnce
  <2>7. QED
    BY <2>5, <2>6
<1>2. ~is_started_ /\ ~dispatching /\ base = {}
  BY DEF Init
<1>3. \A n \in Starts : outcome[n] = "none"
  BY DEF Init
<1>4. QED
  BY <1>1, <1>2, <1>3 DEF LInv

\* The failing Starts: one fact about all of them, since the outcome and the counters
\* change alike.
LEMMA FailsReached ==
    ASSUME LInv, CanStart, Fails,
           e_base_' \in {e_base_, 0, starts'}, base' \subseteq base \cup {starts'}
    PROVE  /\ \A n \in base' : Reached(n)'
           /\ \A n \in Starts : n > starts' => outcome'[n] = "none"
<1> USE LifecycleAssumption DEF LInv, TypeOK, Starts
<1>1. starts \in Nat /\ starts' = starts + 1 /\ starts' \in Starts
  BY DEF CanStart, Fails
<1>2. outcome' = [outcome EXCEPT ![starts'] = "failed"]
  BY DEF Fails
<1>3. ASSUME NEW n \in base' PROVE Reached(n)'
  <2>1. n \in 1..starts'
    BY <1>1, <1>3
  <2>2. CASE n = starts'
    BY <1>1, <1>2, <2>2 DEF Reached
  <2>3. CASE n < starts'
    <3>1. n \in base /\ n <= starts /\ Reached(n)
      BY <1>1, <1>3, <2>1, <2>3
    <3>2. CASE outcome[n] = "failed"
      BY <1>1, <1>2, <2>1, <2>3, <3>2 DEF Reached
    <3>3. CASE n < starts /\ outcome[n + 1] = "failed"
      BY <1>1, <1>2, <2>1, <3>3 DEF Reached
    <3>4. CASE n = starts
      BY <1>1, <1>2, <3>4 DEF Reached
    <3>5. QED
      BY <3>1, <3>2, <3>3, <3>4 DEF Reached
  <2>4. QED
    BY <1>1, <2>1, <2>2, <2>3
<1>4. ASSUME NEW n \in Starts, n > starts' PROVE outcome'[n] = "none"
  BY <1>1, <1>2, <1>4
<1>5. QED
  BY <1>3, <1>4

\* What Stop leaves allocated was allocated by a failed Start or before one.
LEMMA ReleaseReached ==
    ASSUME LInv, is_started_, Release, Stopped, UNCHANGED <<starts, outcome, e_base_>>
    PROVE  \A n \in base' : Reached(n)'
BY DEF LInv, Release, Stopped, Reached

LEMMA NextLInv == LInv /\ [Next]_vars => LInv'
<1> USE LifecycleAssumption
<1> SUFFICES ASSUME LInv, [Next]_vars PROVE LInv'
  OBVIOUS
<1>1. CASE StartFailsEarly
  <2>1. CanStart /\ Fails /\ e_base_' = e_base_ /\ base' = base
    BY <1>1 DEF StartFailsEarly
  <2>2. TypeOK' /\ FreesOnce'
    BY <1>1 DEF StartFailsEarly, CanStart, Fails, LInv, TypeOK, FreesOnce, Starts
  <2>3. is_started_' => listening' # {} /\ (e_base_' \in http' => e_http_server_' = e_base_')
    BY <1>1 DEF StartFailsEarly, CanStart, Fails, LInv, TypeOK
  <2>4. QED
    BY <1>1, <2>1, <2>2, <2>3, FailsReached DEF CanStart, Fails, LInv
<1>2. CASE BaseFails
  <2>1. CanStart /\ Fails /\ e_base_' = 0 /\ base' = base
    BY <1>2 DEF BaseFails
  <2>2. TypeOK' /\ FreesOnce'
    BY <1>2 DEF BaseFails, CanStart, Fails, LInv, TypeOK, FreesOnce, Starts
  <2>3. is_started_' => listening' # {} /\ (e_base_' \in http' => e_http_server_' = e_base_')
    BY <1>2 DEF BaseFails, CanStart, Fails, LInv, TypeOK
  <2>4. QED
    BY <1>2, <2>1, <2>2, <2>3, FailsReached DEF CanStart, Fails, LInv
<1>3. CASE HttpFails
  <2>1. CanStart /\ Fails /\ e_base_' = starts' /\ base' = base \cup {starts'}
    BY <1>3 DEF HttpFails
  <2>2. TypeOK' /\ FreesOnce'
    BY <1>3 DEF HttpFails, CanStart, Fails, LInv, TypeOK, FreesOnce, Starts
  <2>3. is_started_' => listening' # {} /\ (e_base_' \in http' => e_http_server_' = e_base_')
    BY <1>3 DEF HttpFails, CanStart, Fails, LInv, TypeOK
  <2>4. QED
    BY <1>3, <2>1, <2>2, <2>3, FailsReached DEF CanStart, Fails, LInv
<1>4. CASE BindFails
  <2>1. CanStart /\ Fails /\ e_base_' = starts' /\ base' = base \cup {starts'}
    BY <1>4 DEF BindFails, Allocate
  <2>2. TypeOK' /\ FreesOnce'
    BY <1>4 DEF BindFails, Allocate, CanStart, Fails, LInv, TypeOK, FreesOnce, Starts
  <2>3. is_started_' => listening' # {} /\ (e_base_' \in http' => e_http_server_' = e_base_')
    BY <1>4 DEF BindFails, Allocate, CanStart, Fails, LInv, TypeOK
  <2>4. QED
    BY <1>4, <2>1, <2>2, <2>3, FailsReached DEF CanStart, Fails, LInv
<1>5. CASE ListenedInVain
  <2>1. CanStart /\ Fails /\ e_base_' = starts' /\ base' = base \cup {starts'}
    BY <1>5 DEF ListenedInVain, Allocate
  <2>2. TypeOK' /\ FreesOnce'
    BY <1>5 DEF ListenedInVain, Allocate, CanStart, Fails, LInv, TypeOK, FreesOnce, Starts
  <2>3. ~is_started_' /\ ~dispatching'
    BY <1>5 DEF ListenedInVain, CanStart, Fails, LInv
  <2>4. QED
    BY <2>1, <2>2, <2>3, FailsReached DEF LInv
<1>6. CASE StartRuns
  <2>1. ~is_started_ /\ starts' = starts + 1 /\ outcome' = outcome
    BY <1>6 DEF StartRuns, LInv
  <2>2. TypeOK' /\ FreesOnce'
    BY <1>6 DEF StartRuns, Allocate, CanStart, LInv, TypeOK, FreesOnce, Starts
  <2>3. \A n \in base' : Reached(n)'
    BY <1>6, <2>1 DEF StartRuns, Allocate, LInv, TypeOK, Reached
  <2>4. \A n \in Starts : n > starts' => outcome'[n] = "none"
    BY <2>1 DEF LInv, TypeOK, Starts
  <2>5. listening' # {} /\ e_http_server_' = e_base_' /\ outcome'[starts'] = "none"
    BY <1>6 DEF StartRuns, Allocate, CanStart, LInv, TypeOK, Starts
  <2>6. QED
    BY <2>2, <2>3, <2>4, <2>5 DEF LInv
<1>7. ASSUME NEW how \in {"returned", "threw"}, DispatchEnds(how) PROVE LInv'
  <2>1. TypeOK' /\ FreesOnce' /\ is_started_
    BY <1>7 DEF DispatchEnds, LInv, TypeOK, FreesOnce, Starts
  <2>2. \A n \in base' : Reached(n)'
    <3> SUFFICES ASSUME NEW n \in base PROVE Reached(n)'
      BY <1>7 DEF DispatchEnds
    <3>1. CASE n = starts
      BY <1>7, <2>1, <3>1 DEF DispatchEnds, LInv, TypeOK, Starts, Reached
    <3>2. CASE n # starts
      BY <1>7, <2>1, <3>2 DEF DispatchEnds, LInv, TypeOK, Starts, Reached
    <3>3. QED
      BY <3>1, <3>2
  <2>3. \A n \in Starts : n > starts' => outcome'[n] = "none"
    BY <1>7 DEF DispatchEnds, LInv, TypeOK, Starts
  <2>4. QED
    BY <1>7, <2>1, <2>2, <2>3 DEF DispatchEnds, LInv
<1>8. CASE StopRunning
  <2>1. TypeOK' /\ FreesOnce'
    BY <1>8 DEF StopRunning, Release, Stopped, LInv, TypeOK, FreesOnce, Starts
  <2>2. \A n \in base' : Reached(n)'
    BY <1>8, ReleaseReached DEF StopRunning, LInv, TypeOK
  <2>3. QED
    BY <1>8, <2>1, <2>2 DEF StopRunning, Stopped, LInv
<1>9. CASE StopBody /\ alive' \in BOOLEAN
  <2>1. CASE is_started_
    <3>1. TypeOK' /\ FreesOnce'
      BY <1>9, <2>1 DEF StopBody, Release, Stopped, Freed, LInv, TypeOK, FreesOnce, Starts
    <3>2. \A n \in base' : Reached(n)'
      BY <1>9, <2>1, ReleaseReached DEF StopBody
    <3>3. QED
      BY <1>9, <2>1, <3>1, <3>2 DEF StopBody, Stopped, LInv
  <2>2. CASE ~is_started_
    BY <1>9, <2>2 DEF StopBody, LInv, TypeOK, FreesOnce, Reached
  <2>3. QED
    BY <2>1, <2>2
<1>10. CASE UNCHANGED vars
  BY <1>10 DEF vars, LInv, TypeOK, FreesOnce, Reached
<1>11. alive \in BOOLEAN
  BY DEF LInv, TypeOK
<1>12. QED
  BY <1>1, <1>2, <1>3, <1>4, <1>5, <1>6, <1>7, <1>8, <1>9, <1>10, <1>11
     DEF Next, Stop, Destroy

THEOREM Invariance == Spec => []LInv
BY InitLInv, NextLInv, PTL DEF Spec

-----------------------------------------------------------------------------
\* Every variable keeps its type, and a server that is dispatching is marked as started.
THEOREM TypeCorrect == Spec => []TypeOK
<1>1. LInv => TypeOK
  BY DEF LInv
<1>2. QED
  BY <1>1, Invariance, PTL

\* Stop and ~Server never free twice, however Starts fail and are repeated.
THEOREM NothingFreedTwice == Spec => []FreesOnce
<1>1. LInv => FreesOnce
  BY DEF LInv
<1>2. QED
  BY <1>1, Invariance, PTL

\* What a stopped server has left allocated is the trace of a Start that failed.
THEOREM OnlyFailuresLeak == Spec => []StopLeavesNothing
<1>1. LInv => StopLeavesNothing
  BY DEF LInv, FreesOnce, StopLeavesNothing, Reached
<1>2. QED
  BY <1>1, Invariance, PTL
=============================================================================
