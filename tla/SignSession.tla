----------------------------- MODULE SignSession -----------------------------
(***************************************************************************)
(* One claimed SIGN session from the claim to the delivered result         *)
(* (internal/worker/session_worker.go, sign_session.go, errors.go,         *)
(* session_result.go, internal/monolith/results.go) over its transport.    *)
(* The approval gate (module Approval) is an outcome here.  An orphaned     *)
(* claim of an earlier process goes straight to delivery and is left out.  *)
(***************************************************************************)
EXTENDS HTTPTransport

VARIABLES
  pc,          \* claimed, waiting, asked, authorizing, protocol, joining, closing,
               \* closed, posting, observing, retrying or left
  claimed,     \* intent.Session: the claim's projection, then the ready one
  armed,       \* when the execution context expires
  stopping,    \* the worker's context was cancelled
  joinErr,     \* the error runSignProtocol prefers after the join
  outcome,     \* the error the result is built from
  code,        \* the result's error code; None is COMPLETED
  bounded,     \* delivery runs on its own short timeout
  observed     \* the answer of GetMessages while waiting or delivering

sessionVars == <<pc, claimed, armed, stopping, joinErr, outcome, code, bounded, observed>>
vars == <<backendVars, ctx, transportVars, sessionVars>>

Init ==
  /\ now \in {1, 2} /\ mailbox = 0
  /\ session \in {Pending(Deadline), Running(Kind, 1, Deadline)}
  /\ claimed = session
  /\ ctx = "live" /\ TransportInit(claimed)
  /\ pc = "claimed" /\ armed = Deadline /\ stopping = FALSE /\ joinErr = None
  /\ outcome = None /\ code = None /\ bounded = FALSE /\ observed = NoReply

(***************************************************************************)
(* Contexts: ctx is the operation context (claim deadline) until the       *)
(* session is ready, the execution context (armed budget) after.           *)
(***************************************************************************)
Time ==
  /\ Tick
  /\ ctx' = IF ctx = "live" /\ now' >= armed THEN "deadline" ELSE ctx
  /\ UNCHANGED <<transportVars, sessionVars>>

Shutdown ==
  /\ ~stopping /\ stopping' = TRUE
  /\ ctx' = IF ctx = "live" THEN "canceled" ELSE ctx
  /\ UNCHANGED <<backendVars, transportVars, pc, claimed, armed, joinErr, outcome, code, bounded, observed>>

(***************************************************************************)
(* BuildResult and the start of deliverSignResult.                         *)
(***************************************************************************)
BuildResult(e) ==
  CASE e = None -> None
    [] e = "deadline" -> "SESSION_TIMEOUT"
    [] e = "canceled" -> "WORKER_SHUTDOWN"
    [] e \in {"intent", "denied"} -> "INVALID_INTENT"
    [] e = "expired" -> "ALREADY_EXPIRED"
    [] e = "protocol" -> "MPC_PROTOCOL_ERROR"
    [] OTHER -> CASE ctx = "deadline" -> "SESSION_TIMEOUT"
                  [] ctx = "canceled" -> "WORKER_SHUTDOWN"
                  [] OTHER -> "INTERNAL_ERROR"

\* Delivery under a context that has ended gets a short one of its own.
Deliver(e) ==
  /\ pc' = "posting" /\ outcome' = e /\ code' = BuildResult(e) /\ bounded' = stopping
  /\ observed' = NoReply

Keep == UNCHANGED <<claimed, armed, stopping, joinErr>>

(***************************************************************************)
(* From the claim to the run.                                              *)
(***************************************************************************)
\* The claim's identity, intent and deadline checks.
CheckClaim ==
  /\ pc = "claimed"
  /\ \/ Deliver("intent") /\ Keep
     \/ now >= Deadline /\ Deliver("expired") /\ Keep
     \/ /\ now < Deadline /\ pc' = "waiting"
        /\ Keep /\ UNCHANGED <<outcome, code, bounded, observed>>
  /\ UNCHANGED <<backendVars, ctx, transportVars>>

Observe == observed' \in {[kind |-> "ok", session |-> session, messages |-> {}]}
                           \cup {[NoReply EXCEPT !.kind = k] : k \in {"invalid", "error"}}

\* waitForSessionReadiness: ask, and later use the answer.
AskForever ==
  /\ pc = "waiting" /\ pc' = "asked" /\ Observe /\ Keep
  /\ UNCHANGED <<outcome, code, bounded, backendVars, ctx, transportVars>>

AskReadiness ==
  /\ pc = "waiting"
  /\ IF ctx # "live" THEN Deliver(ctx) /\ Keep
     ELSE pc' = "asked" /\ Observe /\ Keep /\ UNCHANGED <<outcome, code, bounded>>
  /\ UNCHANGED <<backendVars, ctx, transportVars>>

\* The execution context: armed with the budget left, never longer than the
\* operation context it derives from.
Arm(budget) ==
  /\ armed' = Earlier(armed, now + budget)
  /\ pc' = "authorizing" /\ observed' = NoReply
  /\ claimed' = observed.session /\ baseline' = observed.session
  /\ UNCHANGED <<ctx, done, err, poller, reply, afterSeq, batch, inbound, runVars,
                 stopping, joinErr, outcome, code, bounded>>

Unready(e) == Deliver(e) /\ Keep /\ UNCHANGED <<ctx, transportVars>>

ReadinessAnswer ==
  /\ pc = "asked"
  /\ LET s == observed.session IN
     CASE observed.kind = "error" ->
            /\ pc' = "waiting" /\ observed' = NoReply
            /\ Keep /\ UNCHANGED <<outcome, code, bounded, ctx, transportVars>>
       [] observed.kind = "invalid" -> Unready("lifecycle")
       [] observed.kind = "ok" ->
            IF ~Validate(s, Kind, Deadline) THEN Unready("lifecycle")
            ELSE CASE s.status = "PENDING" ->
                   /\ pc' = "waiting" /\ observed' = NoReply
                   /\ Keep /\ UNCHANGED <<outcome, code, bounded, ctx, transportVars>>
              [] s.status = "RUNNING" ->
                   LET budget == signExecutionBudget(s.executionExpiresAt, now) IN
                   IF claimed.startedAt # NoTime /\ ~SameStart(s, claimed) THEN Unready("lifecycle")
                   ELSE IF budget <= 0 \/ s.deadline <= now THEN Unready("expired")
                   ELSE IF ctx # "live" THEN Unready(ctx)
                   ELSE Arm(budget)
              [] OTHER -> Unready("lifecycle")
  /\ UNCHANGED backendVars

\* authorizeSign, then NewHTTPTransport and Start.
Authorize ==
  /\ pc = "authorizing"
  /\ \/ \E e \in {"denied", "gate"} : Unready(e)
     \/ ctx # "live" /\ Unready(ctx)
     \/ /\ ctx = "live" /\ pc' = "protocol" /\ Start
        /\ Keep /\ UNCHANGED <<ctx, outcome, code, bounded, observed>>
  /\ UNCHANGED backendVars

(***************************************************************************)
(* runSignProtocol, and Close before the result.                           *)
(***************************************************************************)
Finish(e) == pc' = "closing" /\ outcome' = e /\ runnerStopped' = TRUE

KeepTransport == UNCHANGED <<done, err, pollVars, inbound, dispatched, runner, runErr, got>>

\* No run for a context that has ended; else the select: the run returned, the
\* transport stopped, or the context ended.
Select ==
  /\ pc = "protocol"
  /\ \/ runner = "idle" /\ ctx # "live" /\ Finish(ctx) /\ UNCHANGED joinErr
     \/ runner = "returned" /\ Finish(runErr) /\ UNCHANGED joinErr
     \/ /\ done \/ ctx # "live"
        /\ joinErr' \in (IF done THEN {"transport"} ELSE {}) \cup (IF ctx # "live" THEN {"context"} ELSE {})
        /\ runnerStopped' = TRUE /\ pc' = "joining" /\ UNCHANGED outcome
  /\ KeepTransport
  /\ UNCHANGED <<backendVars, ctx, claimed, armed, stopping, code, bounded, observed>>

\* The run is joined; a transport error wins, a context error wins over nil.
Join ==
  /\ pc = "joining" /\ runner = "returned"
  /\ Finish(CASE joinErr = "transport" /\ err # None -> err
              [] joinErr = "context" /\ runErr = None -> ctx
              [] OTHER -> runErr)
  /\ joinErr' = None /\ KeepTransport
  /\ UNCHANGED <<backendVars, ctx, claimed, armed, stopping, code, bounded, observed>>

CloseTransport ==
  /\ pc = "closing" /\ CloseStop /\ pc' = "closed"
  /\ UNCHANGED <<backendVars, ctx, claimed, armed, stopping, joinErr, outcome, code, bounded, observed>>

\* The poller is joined; a lifecycle error it met overrides the run's result.
ResultWithoutPoller ==
  /\ pc = "closed" /\ Joined
  /\ Deliver(outcome) /\ Keep
  /\ UNCHANGED <<backendVars, ctx, transportVars>>

Result ==
  /\ pc = "closed" /\ Joined
  /\ Deliver(IF err # None THEN err ELSE outcome) /\ Keep
  /\ UNCHANGED <<backendVars, ctx, transportVars>>

(***************************************************************************)
(* deliverSignResult: post, else look at the session, else try again.      *)
(***************************************************************************)
Submitted == IF code = None THEN "COMPLETED" ELSE "FAILED"
Go(to) == pc' = to /\ UNCHANGED <<outcome, code, bounded>> /\ Keep
Cut == stopping /\ ~bounded

\* The backend takes the first result and answers later ones by what it has;
\* request or answer may be lost.
PostResult ==
  /\ pc = "posting"
  /\ \/ /\ session.status \notin Terminal
        /\ session' = [session EXCEPT !.status = Submitted]
        /\ \/ Go("left") \/ Go("observing")
     \/ session.status \in Terminal /\ Go("left") /\ UNCHANGED session
     \/ Go("observing") /\ UNCHANGED session
  /\ UNCHANGED <<now, mailbox, ctx, transportVars, observed>>

\* A cancelled context fails the call before it reaches the backend.
PostCancelled ==
  /\ pc = "posting" /\ Cut /\ Go("retrying")
  /\ UNCHANGED <<backendVars, ctx, transportVars, observed>>

ObserveAny ==
  /\ pc = "observing" /\ \/ Go("left") \/ Go("retrying")
  /\ UNCHANGED <<backendVars, ctx, transportVars, observed>>

ObserveResult ==
  /\ pc = "observing"
  /\ LET s == session IN
     \/ /\ ~Cut /\ Validate(s, Kind, Deadline) /\ s.status \in Terminal
        /\ claimed.startedAt = NoTime \/ SameStart(s, claimed)
        /\ Go("left")
     \/ Go("retrying")
  /\ UNCHANGED <<backendVars, ctx, transportVars, observed>>

\* waitDeliveryRetry: the timeout of a bounded delivery may end it.
Retry ==
  /\ pc = "retrying"
  /\ \/ ~Cut /\ Go("posting")
     \/ (Cut \/ bounded) /\ Go("left")
  /\ UNCHANGED <<backendVars, ctx, transportVars, observed>>

Delivery == PostResult \/ PostCancelled \/ ObserveResult \/ Retry

(***************************************************************************)
(* Composition.                                                            *)
(***************************************************************************)
Backend ==
  /\ BackendSession \/ BackendPost
  /\ UNCHANGED <<ctx, transportVars, sessionVars>>

\* The goroutine of runSignProtocol looks at its context before Dispatch, which
\* looks again.
DispatchRun ==
  /\ pc \in {"protocol", "joining"}
  /\ \/ Dispatch
     \/ /\ runner = "idle" /\ (runnerStopped \/ ctx # "live")
        /\ Refused(IF ctx # "live" THEN ctx ELSE "canceled")
        /\ UNCHANGED <<done, err, pollVars, inbound, runnerStopped, got>>
  /\ UNCHANGED <<backendVars, ctx, sessionVars>>

Others == (Poll \/ Run) /\ UNCHANGED <<backendVars, ctx, sessionVars>>

Owner ==
  CheckClaim \/ AskReadiness \/ ReadinessAnswer \/ Authorize \/ Select \/ Join
  \/ CloseTransport \/ Result \/ Delivery

Left == pc = "left" /\ UNCHANGED vars

Next == Owner \/ DispatchRun \/ Others \/ Backend \/ Time \/ Shutdown \/ Left

Spec == Init /\ [][Next]_vars
-----------------------------------------------------------------------------
(***************************************************************************)
(* Properties.                                                             *)
(***************************************************************************)

\* While the protocol run is alive and its context has not ended, the window
\* the backend granted has the margin left, however late the co-signer
\* learned of the start (signExecutionBudget, sign_session.go:55-65).
InsideWindow ==
  Active /\ ctx = "live" => now + Margin < session.executionExpiresAt

\* The backend records COMPLETED only for a run that returned without error
\* and whose session stayed valid until the transport was closed.
CompletedIsTrue ==
  session.status = "COMPLETED" => dispatched /\ runErr = None /\ err = None

\* The session gives up its permit with the result resolved at the backend,
\* unless the worker is stopping (session_result.go:106-149).
ResolvedOrStopping == pc = "left" => session.status \in Terminal \/ stopping

(***************************************************************************)
(* Liveness.  Goroutines run, time passes, the backend expires sessions    *)
(* and does not lose every delivery; a run whose context ended returns.    *)
(***************************************************************************)
Fairness ==
  /\ WF_vars(Time) /\ WF_vars(DispatchRun)
  /\ WF_vars(Poll /\ UNCHANGED <<backendVars, ctx, sessionVars>>)
  /\ WF_vars(RunnerCtxDone /\ Run /\ UNCHANGED <<backendVars, ctx, sessionVars>>)
  /\ WF_vars(CheckClaim \/ AskReadiness \/ ReadinessAnswer \/ Authorize)
  /\ WF_vars(Select \/ Join \/ CloseTransport \/ Result)
  /\ WF_vars(PostCancelled \/ PostResult) /\ WF_vars(ObserveResult) /\ WF_vars(Retry)
  /\ SF_vars(PostResult /\ pc' = "left")

FairSpec == Spec /\ Fairness

\* Every claimed SIGN session ends and gives back its permit.
SessionEnds == <>(pc = "left")
=============================================================================
