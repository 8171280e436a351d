--------------------------- MODULE SessionLifecycle ---------------------------
(***************************************************************************)
(* The backend's projection of one session and the checks the co-signer    *)
(* makes on it (internal/monolith/types.go, internal/worker/sign_session.go *)
(* and internal/transport/http_transport_poll.go).  Times are positive     *)
(* integers; NoTime is a null field.  Window is the 300 s execution        *)
(* window, Margin the 2 s kept free before it ends.                        *)
(***************************************************************************)
EXTENDS Integers

CONSTANTS Window, Margin

NoTime == 0
Terminal == {"COMPLETED", "FAILED", "TIMED_OUT"}
Statuses == {"PENDING", "RUNNING"} \cup Terminal

Earlier(a, b) == IF a < b THEN a ELSE b

\* SessionLifecycle.Validate for one kind of intent and its deadline.
Validate(s, kind, deadline) ==
  /\ s.deadline > 0 /\ s.deadline = deadline /\ s.status \in Statuses
  /\ s.status = "PENDING" => s.startedAt = NoTime
  /\ s.status = "RUNNING" => s.startedAt # NoTime
  /\ s.startedAt # NoTime => s.startedAt < s.deadline
  /\ s.executionExpiresAt # NoTime => s.startedAt # NoTime /\ kind # "DKG"
  /\ kind = "SIGN" /\ s.startedAt # NoTime => s.executionExpiresAt # NoTime
  /\ s.executionExpiresAt # NoTime =>
       s.executionExpiresAt = Earlier(s.startedAt + Window, s.deadline)

SameStart(a, b) == a.startedAt = b.startedAt /\ a.executionExpiresAt = b.executionExpiresAt

\* validatePolledSession: what the poller of a running session accepts.
validatePolledSession(kind, previous, current, now) ==
  /\ Validate(current, kind, previous.deadline)
  /\ kind = "SIGN" =>
       /\ current.status = "RUNNING" /\ current.deadline > now
       /\ current.executionExpiresAt > now
       /\ previous.startedAt # NoTime => SameStart(previous, current)

\* A session as the backend makes it.
Pending(deadline) == [status |-> "PENDING", startedAt |-> NoTime, deadline |-> deadline,
                      executionExpiresAt |-> NoTime]
Running(kind, start, deadline) ==
  [status |-> "RUNNING", startedAt |-> start, deadline |-> deadline,
   executionExpiresAt |-> IF kind = "DKG" THEN NoTime ELSE Earlier(start + Window, deadline)]

\* signExecutionBudget without the margin, and as the code has it.
BudgetWithoutMargin(expiresAt, wall) == Earlier(Window, expiresAt - wall)

signExecutionBudget(expiresAt, wall) == Earlier(Window, expiresAt - Margin - wall)
===============================================================================
