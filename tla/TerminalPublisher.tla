-------------------------- MODULE TerminalPublisher --------------------------
(***************************************************************************)
(* Publisher.Publish (internal/terminal/publisher.go) and the backend it   *)
(* talks to: one immutable job is posted until the backend confirms it or  *)
(* reports another terminal result.  A post may be lost, delayed past the  *)
(* life of the process that sent it, or applied without its answer.        *)
(***************************************************************************)
EXTENDS DKGCoordinator

VARIABLES
  status,       \* what the backend records for an intent
  evidence,     \* the artifacts a COMPLETED result named
  sent          \* terminal requests the backend may still receive

backendVars == <<status, evidence, sent>>

Terminal == {"COMPLETED", "FAILED", "TIMED_OUT"}

BackendInit ==
  /\ status = [i \in Intents |-> "NEW"]
  /\ evidence = [i \in Intents |-> None]
  /\ sent = {}

Post ==
  /\ pc = "publish"
  /\ sent' = sent \cup {job}
  /\ pc' = "posted"
  /\ UNCHANGED <<cur, job, file, durable, active, runVars, status, evidence>>

\* No answer, a server error, or an answer that confirms nothing: the same
\* job is posted again after a delay.
Retry ==
  /\ pc = "posted" /\ pc' = "publish"
  /\ UNCHANGED <<cur, job, file, durable, active, runVars, backendVars>>

Resolve ==
  /\ pc' = "idle" /\ cur' = None /\ job' = NoJob
  /\ UNCHANGED <<file, durable, active, runVars, backendVars>>

ResolveUnchecked == pc = "posted" /\ Resolve

\* validateResponse: a 200 confirms the submitted result and a 409 names the
\* authoritative one; the backend sends either only for a terminal intent.
Confirmed ==
  /\ pc = "posted"
  /\ status[job.intent] \in Terminal
  /\ Resolve

\* The backend receives a request: the first result of a claimed intent stays.
BackendAppliesOf(j) ==
  /\ status[j.intent] = "CLAIMED"
  /\ status' = [status EXCEPT ![j.intent] = j.status]
  /\ evidence' = [evidence EXCEPT ![j.intent] = j.evidence]
  /\ UNCHANGED <<pc, cur, job, file, durable, active, runVars, sent>>

BackendApplies == \E j \in sent : BackendAppliesOf(j)

BackendCreates ==
  /\ \E i \in Intents :
       status[i] = "NEW" /\ status' = [status EXCEPT ![i] = "PENDING"]
  /\ UNCHANGED <<pc, cur, job, file, durable, active, runVars, evidence, sent>>

BackendTimesOut ==
  /\ \E i \in Intents :
       /\ status[i] \in {"PENDING", "CLAIMED"}
       /\ status' = [status EXCEPT ![i] = "TIMED_OUT"]
  /\ UNCHANGED <<pc, cur, job, file, durable, active, runVars, evidence, sent>>

=============================================================================
