-------------------------- MODULE HealthCheckProofs --------------------------
(***************************************************************************)
(* Proofs about HealthCheck, for every check type and every maxFailedTimes *)
(* of at least 1: the two status callbacks alternate.                      *)
(***************************************************************************)
EXTENDS HealthCheck, TLAPS

\* The type invariant and the callback balance together are inductive:
\* RecordFailure only calls statusFailedFn when statusOK is set, so net
\* does not leave Nat, and that needs the balance.
HealthInv == TypeOK /\ CallbacksBalanced

\* Bump keeps failedTimes within 0..maxFailedTimes.
LEMMA BumpType ==
    ASSUME NEW n \in 0..MaxFailedTimes
    PROVE  Bump(n) \in 0..MaxFailedTimes
BY HealthAssumption DEF Bump

LEMMA HealthInit == Init => HealthInv
<1> SUFFICES ASSUME Init PROVE HealthInv
  OBVIOUS
<1>1. failedTimes \in 0..MaxFailedTimes /\ net \in Nat
  BY HealthAssumption DEF Init
<1>2. TypeOK
  BY <1>1, Zenon DEF Init, TypeOK
<1>3. CallbacksBalanced
  BY DEF Init, CallbacksBalanced
<1>4. QED
  BY <1>2, <1>3 DEF HealthInv

\* doCheck returns a pair of Booleans for every check type.
LEMMA OutcomesType ==
    ASSUME backendUp \in BOOLEAN
    PROVE  Outcomes \subseteq BOOLEAN \X BOOLEAN
<1>1. CASE CheckType = "tcp"
  <2>1. Outcomes = {<<backendUp, FALSE>>, <<FALSE, TRUE>>}
    BY <1>1 DEF Outcomes
  <2>2. <<backendUp, FALSE>> \in BOOLEAN \X BOOLEAN /\ <<FALSE, TRUE>> \in BOOLEAN \X BOOLEAN
    OBVIOUS
  <2>3. QED
    BY <2>1, <2>2
<1>2. CASE CheckType = "http"
  BY <1>2 DEF Outcomes
<1>3. CASE CheckType # "tcp" /\ CheckType # "http"
  <2>1. Outcomes = {<<FALSE, FALSE>>}
    BY <1>3 DEF Outcomes
  <2>2. <<FALSE, FALSE>> \in BOOLEAN \X BOOLEAN
    OBVIOUS
  <2>3. QED
    BY <2>1, <2>2
<1>4. QED
  BY <1>1, <1>2, <1>3

\* Recording the result of a check keeps the invariant, whichever it was.
LEMMA RecordKeeps ==
    ASSUME HealthInv, NEW ok \in BOOLEAN,
           IF ok THEN RecordSuccess ELSE RecordFailure
    PROVE  /\ failedTimes' \in 0..MaxFailedTimes
           /\ statusOK' \in BOOLEAN
           /\ net' \in Nat
           /\ net' = IF statusOK' THEN 1 ELSE 0
<1> USE DEF HealthInv, TypeOK, CallbacksBalanced
<1>1. CASE ok
  <2>1. RecordSuccess
    BY <1>1, Zenon
  <2>2. CASE statusOK
    BY <2>1, <2>2 DEF RecordSuccess
  <2>3. CASE ~statusOK
    BY <2>1, <2>3 DEF RecordSuccess
  <2>4. QED
    BY <2>2, <2>3
<1>2. CASE ~ok
  <2>1. RecordFailure
    BY <1>2, Zenon
  <2>2. failedTimes' \in 0..MaxFailedTimes
    BY <2>1, BumpType DEF RecordFailure
  <2>3. CASE statusOK /\ Bump(failedTimes) >= MaxFailedTimes
    <3>1. statusOK' = FALSE /\ net' = net - 1
      BY <2>1, <2>3 DEF RecordFailure
    <3>2. net = 1
      BY <2>3
    <3>3. net' = 0
      BY <3>1, <3>2
    <3>4. net' = IF statusOK' THEN 1 ELSE 0
      BY <3>1, <3>3, Zenon
    <3>5. statusOK' \in BOOLEAN
      BY <3>1
    <3>6. net' \in Nat
      BY <3>3
    <3>7. QED
      BY <2>2, <3>4, <3>5, <3>6
  <2>4. CASE ~(statusOK /\ Bump(failedTimes) >= MaxFailedTimes)
    <3>1. UNCHANGED <<statusOK, net>>
      BY <2>1, <2>4 DEF RecordFailure
    <3>2. QED
      BY <2>2, <3>1
  <2>5. QED
    BY <2>3, <2>4
<1>3. QED
  BY <1>1, <1>2

LEMMA HealthStep == HealthInv /\ [Next]_vars => HealthInv'
<1> SUFFICES ASSUME HealthInv, [Next]_vars PROVE HealthInv'
  OBVIOUS
<1>1. CASE CheckStart
  BY <1>1 DEF CheckStart, HealthInv, TypeOK, CallbacksBalanced
<1>2. CASE CheckEnd
  <2>1. PICK o \in Outcomes :
          IF cancelled \/ o[2]
            THEN /\ pc' = "stopped"
                 /\ UNCHANGED <<failedTimes, statusOK, net>>
            ELSE /\ pc' = "run"
                 /\ IF o[1] THEN RecordSuccess ELSE RecordFailure
    BY <1>2 DEF CheckEnd
  <2>2. UNCHANGED <<cancelled, backendUp>>
    BY <1>2 DEF CheckEnd
  <2>3. o \in BOOLEAN \X BOOLEAN
    BY OutcomesType DEF HealthInv, TypeOK
  <2>4. CASE cancelled \/ o[2]
    BY <2>1, <2>2, <2>4 DEF HealthInv, TypeOK, CallbacksBalanced
  <2>5. CASE ~(cancelled \/ o[2])
    <3>1. pc' = "run" /\ IF o[1] THEN RecordSuccess ELSE RecordFailure
      BY <2>1, <2>5
    <3>2. QED
      BY <3>1, <2>2, <2>3, RecordKeeps DEF HealthInv, TypeOK, CallbacksBalanced
  <2>6. QED
    BY <2>4, <2>5
<1>3. CASE Stop
  BY <1>3 DEF Stop, HealthInv, TypeOK, CallbacksBalanced
<1>4. CASE BackendFlip
  BY <1>4 DEF BackendFlip, HealthInv, TypeOK, CallbacksBalanced
<1>5. CASE UNCHANGED vars
  BY <1>5 DEF vars, HealthInv, TypeOK, CallbacksBalanced
<1>6. QED
  BY <1>1, <1>2, <1>3, <1>4, <1>5 DEF Next

\* checkWorker calls statusNormalFn and statusFailedFn alternately, starting
\* with statusNormalFn, for every check type and every maxFailedTimes.
THEOREM HealthCallbacksBalanced == Spec => []CallbacksBalanced
<1>1. HealthInv => CallbacksBalanced
  BY DEF HealthInv
<1>2. QED
  BY <1>1, HealthInit, HealthStep, PTL DEF Spec
=============================================================================
