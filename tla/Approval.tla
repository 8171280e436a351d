------------------------------- MODULE Approval -------------------------------
(***************************************************************************)
(* The approval subsystem: the dispatcher and the SIGN authorization gate  *)
(* (internal/approval/sign_gate.go, internal/worker/approval_gate.go) over *)
(* one journal, with crashes and power losses.                             *)
(*                                                                         *)
(* A SIGN attempt is identified by the execution binding it would record   *)
(* (outgoing id, digest, payload type).  Attempts run concurrently with    *)
(* the dispatcher and with each other.                                     *)
(***************************************************************************)
EXTENDS ApprovalDispatcher

CONSTANTS
  Configured,  \* approval modes the operator configures
  MaxCrashes   \* bound on the restarts explored

ASSUME ApprovalAssumption == Configured \subseteq Modes /\ MaxCrashes \in Nat

VARIABLES
  gpc,         \* idle, waiting, bind, authorized or denied, for each binding
  claim,       \* the claim's approval part: [request, hash, receipt]
  admitted,    \* history: <<request, binding>> admitted to MPC
  crashes

gateVars == <<gpc, claim, admitted>>
vars == <<journal, mode, dispVars, signed, backendVars, gateVars, crashes>>

Init ==
  /\ journal = EmptyJournal
  /\ mode \in Configured
  /\ DispatcherStart
  /\ signed = [r \in Requests |-> 0]
  /\ verdict = [r \in Requests |-> None] /\ cancelled \in SUBSET Cancellable
  /\ sent = [r \in Requests |-> {}]
  /\ gpc = [b \in Bindings |-> "idle"] /\ claim = [b \in Bindings |-> None]
  /\ admitted = {}
  /\ crashes = 0

Leave(b, to) == gpc' = [gpc EXCEPT ![b] = to] /\ claim' = [claim EXCEPT ![b] = None]

\* A claimed SIGN whose approval part echoes a receipt the backend received.
SignClaimed(b) ==
  /\ gpc[b] = "idle"
  /\ \E r \in Requests, hash \in Hashes : \E receipt \in sent[r] :
       claim' = [claim EXCEPT ![b] = [request |-> r, hash |-> hash, receipt |-> receipt]]
  /\ gpc' = [gpc EXCEPT ![b] = "waiting"]
  /\ UNCHANGED <<journal, mode, dispVars, signed, backendVars, admitted, crashes>>

\* The saved evidence is the one the claim names, and it is an approval.
Selects(s, c) ==
  /\ s.admission # None /\ s.receipt # None /\ s.admission.hash = c.hash
  /\ s.receipt = c.receipt /\ s.receipt.decision = "APPROVED"

Executable(s, b) == s.ack.disposition = "APPLIED" /\ s.execution \in {None, b}

\* Authorize up to BindExecution.  While the acknowledgement is missing the
\* attempt waits and authorizeSign asks again.  The prepared-bytes checks
\* (VerifyPrepared and the bindings) may fail on their own.
Authorize(b) ==
  /\ gpc[b] = "waiting"
  /\ \E o \in Load(journal, claim[b].request), prepared \in BOOLEAN :
       LET s == o.j.disk[claim[b].request]
       IN /\ journal' = o.j
          /\ IF o.err # "none" \/ ~Selects(s, claim[b]) THEN Leave(b, "denied")
             ELSE IF s.ack = None THEN UNCHANGED <<gpc, claim>>
             ELSE IF ~Executable(s, b) \/ ~prepared THEN Leave(b, "denied")
             ELSE gpc' = [gpc EXCEPT ![b] = "bind"] /\ UNCHANGED claim
  /\ UNCHANGED <<mode, dispVars, signed, backendVars, admitted, crashes>>

\* The session's context ends: the check before BindExecution, or the wait.
SignExpires(b) ==
  /\ gpc[b] \in {"waiting", "bind"}
  /\ Leave(b, "denied")
  /\ UNCHANGED <<journal, mode, dispVars, signed, backendVars, admitted, crashes>>

\* BindExecution; on success the attempt may enter MPC.
Bind(b) ==
  /\ gpc[b] = "bind"
  /\ \E o \in BindExecution(journal, claim[b].request, b) :
       /\ journal' = o.j
       /\ IF o.err = "none"
            THEN Leave(b, "authorized") /\ admitted' = admitted \cup {<<claim[b].request, b>>}
            ELSE Leave(b, "denied") /\ UNCHANGED admitted
  /\ UNCHANGED <<mode, dispVars, signed, backendVars, crashes>>

\* The process stops anywhere and starts again, perhaps in another mode.
Crash ==
  /\ crashes < MaxCrashes
  /\ crashes' = crashes + 1
  /\ \E lost \in SUBSET (Visible(journal) \ journal.synced) : journal' = Reopen(journal, lost)
  /\ mode' \in Configured
  /\ dpc' = "idle" /\ cur' = 0 /\ arg' = None /\ back' = "page"
  /\ turn' = FALSE /\ scan' = [open |-> FALSE, left |-> {}]
  /\ todo' = {} /\ cursor' = 0 /\ hints' = <<>> /\ due' = {}
  /\ gpc' = [b \in Bindings |-> "idle"] /\ claim' = [b \in Bindings |-> None]
  /\ UNCHANGED <<signed, backendVars, admitted>>

Dispatch == DispatcherStep /\ UNCHANGED <<gateVars, crashes>>

Environment ==
  /\ \/ \E key \in Range(hints) : HintDue(key)
     \/ \E r \in Requests : BackendCancels(r)
  /\ UNCHANGED <<gateVars, crashes>>

Gate == \E b \in Bindings : SignClaimed(b) \/ Authorize(b) \/ SignExpires(b) \/ Bind(b)

Next == Dispatch \/ Environment \/ Gate \/ Crash

Spec == Init /\ [][Next]_vars

\* The loop of Run and the timers always go on.  A request the backend does
\* not refuse is answered if it is sent again and again, the organization
\* decides if it is asked again and again, and each page is served sometimes.
Fairness ==
  /\ WF_vars(Dispatch)
  /\ \A c \in Requests \cup {0} :
       SF_vars(cursor = c /\ FetchPage /\ UNCHANGED <<gateVars, crashes>>)
  /\ \A key \in Keys : WF_vars(HintDue(key) /\ UNCHANGED <<gateVars, crashes>>)
  /\ \A r \in Requests :
       /\ SF_vars(cur = r /\ EvaluateFinal /\ UNCHANGED <<gateVars, crashes>>)
       /\ SF_vars(cur = r /\ SendAnswered /\ UNCHANGED <<gateVars, crashes>>)

FairSpec == Spec /\ Fairness

-----------------------------------------------------------------------------

\* What a power loss cannot take away.
Durable(r, kind) == IF <<r, kind>> \in journal.synced THEN journal.disk[r][kind] ELSE None

\* Every receipt ever handed to the backend is the saved one, durably: no
\* crash, failed fsync or repeated evaluation makes the co-signer tell the
\* backend two different decisions about a request (dispatcher.go process,
\* deliver: "durably published before delivery").
SentIsSaved == \A r \in Requests : \A x \in sent[r] : Durable(r, "receipt") = x

\* An execution admitted to MPC rests for ever on durable evidence: an applied
\* approval and exactly this binding, so a request is never executed twice
\* with different bindings, whatever crashes and concurrent SIGN attempts
\* there are (sign_gate.go Authorize, journal.go BindExecution).
AdmittedOnEvidence ==
  \A a \in admitted :
    /\ Durable(a[1], "receipt") # None /\ Durable(a[1], "receipt").decision = "APPROVED"
    /\ Durable(a[1], "ack") # None /\ Durable(a[1], "ack").disposition = "APPLIED"
    /\ Durable(a[1], "known") = a[2] /\ Durable(a[1], "execution") = a[2]

\* A hint for a saved receipt disappears only when its acknowledgement is on
\* disk or the process restarts: neither organization hints nor the cap evict
\* it (dispatcher.go suppress, deliver, retrySavedHint).
SavedHintsKept ==
  [][\A key \in SavedHints(hints) \ Range(hints') :
       journal'.disk[key.request].ack # None \/ crashes' # crashes]_vars

\* The durable files implement the ledger of ApprovalEvidence.
Ledger == INSTANCE ApprovalEvidence WITH
  settings    <- [r \in Requests |-> Durable(r, "admission")],
  decision    <- [r \in Requests |-> Durable(r, "receipt")],
  application <- [r \in Requests |-> Durable(r, "ack")],
  execution   <- [r \in Requests |-> IF Durable(r, "known") = None THEN None
                                     ELSE Durable(r, "execution")],
  Agrees      <- validateReceipt,
  IsApproval  <- LAMBDA x : x.decision = "APPROVED",
  IsApplied   <- LAMBDA x : x.disposition = "APPLIED"

\* The journal implements the ledger: durable settings, decision, application
\* and execution of a request are written once, in this order, and a decision
\* was taken under the settings its request was admitted with (journal.go).
ImplementsLedger == Ledger!Spec

\* A saved receipt the backend does not refuse is acknowledged in the end, also
\* when another receipt is refused for ever and after a restart (dispatcher.go
\* recoverSaved: the oldest due hint alternates with the directory scan).
ReceiptsDelivered ==
  \A r \in Requests \ Stuck :
    journal.disk[r].receipt # None ~> journal.disk[r].ack # None \/ journal.disk[r].receipt = None

\* A pending request is acknowledged or cancelled in the end, as long as the
\* settings it was admitted under are restored (dispatcher.go Step, process).
RequestsResolved ==
  \A r \in Requests \ Stuck :
    <>[](journal.disk[r].admission \in {None, [mode |-> mode, hash |-> CHOOSE h \in Hashes : TRUE]})
      => <>(journal.disk[r].ack # None \/ r \in cancelled)
=============================================================================
