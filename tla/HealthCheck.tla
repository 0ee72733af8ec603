---------------------------- MODULE HealthCheck ----------------------------
(***************************************************************************)
(* HealthCheckMonitor (src/models/proto/tcp/process_test.go, 91-213): one  *)
(* checkWorker goroutine checks a backend every interval, each check under *)
(* a context with a deadline derived from monitor.ctx; Stop cancels        *)
(* monitor.ctx.  statusNormalFn runs when a check succeeds while the       *)
(* status is not OK, statusFailedFn when failedTimes reaches               *)
(* maxFailedTimes while it is.  Both callbacks are set (non-nil).          *)
(*                                                                         *)
(* failedTimes is only ever compared with >= maxFailedTimes, so it is kept *)
(* saturated at MaxFailedTimes: the comparisons come out as in the code.   *)
(***************************************************************************)
EXTENDS Naturals

CONSTANTS
    CheckType,       \* monitor.checkType: "tcp", "http" or anything else
    MaxFailedTimes   \* monitor.maxFailedTimes after NewHealthCheckMonitor

\* NewHealthCheckMonitor replaces maxFailedTimes <= 0 by 1.
ASSUME HealthAssumption ==
    /\ CheckType \in {"tcp", "http", "other"}
    /\ MaxFailedTimes \in Nat \ {0}

VARIABLES
    pc,           \* checkWorker: "run" (between checks), "checking", "stopped"
    cancelled,    \* Stop has cancelled monitor.ctx
    backendUp,    \* the checked address accepts connections / answers 2xx
    failedTimes,  \* monitor.failedTimes, saturated at MaxFailedTimes
    statusOK,     \* monitor.statusOK
    net           \* statusNormalFn calls minus statusFailedFn calls

vars == <<pc, cancelled, backendUp, failedTimes, statusOK, net>>

Bump(n) == IF n < MaxFailedTimes THEN n + 1 ELSE n

TypeOK ==
    /\ pc \in {"run", "checking", "stopped"}
    /\ cancelled \in BOOLEAN
    /\ backendUp \in BOOLEAN
    /\ failedTimes \in 0..MaxFailedTimes
    /\ statusOK \in BOOLEAN
    /\ net \in Nat

\* NewHealthCheckMonitor then Start: statusOK false, no failures yet.
Init ==
    /\ pc = "run"
    /\ cancelled = FALSE
    /\ backendUp \in BOOLEAN
    /\ failedTimes = 0
    /\ statusOK = FALSE
    /\ net = 0

(***************************************************************************)
(* The outcomes <<ok, late>> of doCheck, where late means the check ran    *)
(* past its deadline, so ctx is done when it returns.  doTcpCheck dials    *)
(* with DialContext: it succeeds only on a live backend and fails when the *)
(* deadline cuts it off.  doHttpCheck ignores ctx (http.NewRequest and     *)
(* DefaultClient, no timeout): it may answer 2xx only on a live backend,   *)
(* and may do so after the deadline.  Any other type fails at once.       *)
(***************************************************************************)
Outcomes ==
    IF CheckType = "tcp" THEN {<<backendUp, FALSE>>, <<FALSE, TRUE>>}
    ELSE IF CheckType = "http" THEN {o \in BOOLEAN \X BOOLEAN : o[1] => backendUp}
    ELSE {<<FALSE, FALSE>>}

\* ctx, cancel := context.WithDeadline(monitor.ctx, ...); doCheck(ctx) starts.
CheckStart ==
    /\ pc = "run"
    /\ pc' = "checking"
    /\ UNCHANGED <<cancelled, backendUp, failedTimes, statusOK, net>>

\* On a failed check: count it; the status falls at maxFailedTimes.
RecordFailure ==
    /\ failedTimes' = Bump(failedTimes)
    /\ IF statusOK /\ Bump(failedTimes) >= MaxFailedTimes
         THEN statusOK' = FALSE /\ net' = net - 1
         ELSE UNCHANGED <<statusOK, net>>

\* Fault variant: statusNormalFn runs on every success.
RecordSuccessUnguarded ==
    /\ statusOK' = TRUE
    /\ net' = net + 1
    /\ UNCHANGED failedTimes

\* On a successful check: the status rises if it was not OK.
RecordSuccess ==
    /\ IF ~statusOK
         THEN statusOK' = TRUE /\ net' = net + 1
         ELSE UNCHANGED <<statusOK, net>>
    /\ UNCHANGED failedTimes

\* Fault variant: the select has no ctx.Done() case for Stop, only the
\* deadline check.
CheckEndIgnoresStop ==
    /\ pc = "checking"
    /\ \E o \in Outcomes :
         IF o[2]
           THEN /\ pc' = "stopped"
                /\ UNCHANGED <<failedTimes, statusOK, net>>
           ELSE /\ pc' = "run"
                /\ IF o[1] THEN RecordSuccess ELSE RecordFailure
    /\ UNCHANGED <<cancelled, backendUp>>

\* doCheck returns; select on ctx.Done() returns from checkWorker when ctx
\* is done (cancelled by Stop, or past the deadline); otherwise the result
\* is recorded and the worker sleeps for the interval.
CheckEnd ==
    /\ pc = "checking"
    /\ \E o \in Outcomes :
         IF cancelled \/ o[2]
           THEN /\ pc' = "stopped"
                /\ UNCHANGED <<failedTimes, statusOK, net>>
           ELSE /\ pc' = "run"
                /\ IF o[1] THEN RecordSuccess ELSE RecordFailure
    /\ UNCHANGED <<cancelled, backendUp>>

\* monitor.Stop(): cancel monitor.ctx.
Stop ==
    /\ ~cancelled
    /\ cancelled' = TRUE
    /\ UNCHANGED <<pc, backendUp, failedTimes, statusOK, net>>

\* The backend goes up or down.
BackendFlip ==
    /\ backendUp' = ~backendUp
    /\ UNCHANGED <<pc, cancelled, failedTimes, statusOK, net>>

Next == CheckStart \/ CheckEnd \/ Stop \/ BackendFlip

Spec == Init /\ [][Next]_vars

\* The worker goroutine runs again after its sleep: CheckStart is weakly
\* fair.  A tcp check ends by its deadline at the latest; an http check
\* waits for an answer that may never come, so it owes nothing.
Fairness ==
    /\ WF_vars(CheckStart)
    /\ CheckType # "http" => WF_vars(CheckEnd)

FairSpec == Spec /\ Fairness

-----------------------------------------------------------------------------
(***************************************************************************)
(* Properties.                                                             *)
(***************************************************************************)

\* statusNormalFn and statusFailedFn alternate, starting with the former:
\* the status is OK exactly when statusNormalFn has run once more than
\* statusFailedFn, so what they switch on is never switched on twice.
CallbacksBalanced == net = IF statusOK THEN 1 ELSE 0

\* Once Stop has been called, checkWorker returns.
StopEndsWorker == cancelled ~> (pc = "stopped")

\* "check if this monitor has been closed": checkWorker returns only after
\* Stop; a check that outlasts its timeout does not end the monitoring.
WorkerStopsOnlyOnStop == pc = "stopped" => cancelled
=============================================================================
