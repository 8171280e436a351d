--------------------------- MODULE ApprovalJournal ---------------------------
(***************************************************************************)
(* The durable approval journal (internal/approval: journal.go,            *)
(* journal_read.go, journal_records.go, files.go).                         *)
(*                                                                         *)
(* For each request the journal directory holds at most one file of each   *)
(* kind.  A file is published by rename and survives a power loss only     *)
(* once the directory has been fsynced.  Every operation runs under the    *)
(* journal's mutex, so it is one step here; what it can leave behind is    *)
(* the SET OF OUTCOMES it returns, each with the journal it leaves and an  *)
(* error.  A crash inside an operation leaves the files of one of its      *)
(* failed outcomes.                                                        *)
(***************************************************************************)
EXTENDS Naturals, Sequences, FiniteSets

CONSTANTS
  Requests,    \* approval requests, numbered in the backend's page order
  Hashes,      \* authorization hashes
  Bindings,    \* execution bindings: outgoing id, digest, payload type
  MaxFaults    \* bound on the file operations that fail

VARIABLE journal  \* [disk, synced, faults]: visible files, durable names

Kinds == {"admission", "receipt", "ack", "known", "execution"}
Modes == {"external", "auto_approve"}
Decisions == {"APPROVED", "REJECTED"}
Dispositions == {"APPLIED", "NOT_APPLIED_CANCELLED", "TERMINAL_CONFLICT"}

None == [absent |-> TRUE]

ASSUME JournalAssumption ==
  /\ Requests \subseteq Nat /\ MaxFaults \in Nat
  /\ None \notin Bindings

\* A receipt's bytes: "number" stands for decidedAt and the signature, which
\* differ between any two signings.
Receipt(decision, hash, source, number) ==
  [decision |-> decision, hash |-> hash, source |-> source, number |-> number]

EmptyJournal ==
  [disk |-> [r \in Requests |-> [k \in Kinds |-> None]], synced |-> {}, faults |-> 0]

-----------------------------------------------------------------------------
(* Outcomes.                                                               *)

Ok(j) == [j |-> j, err |-> "none"]
Fail(j, err) == [j |-> j, err |-> err]

\* Run Op on the journal left by each successful outcome.
Then(outcomes, Op(_)) ==
  UNION {IF o.err = "none" THEN Op(o.j) ELSE {o} : o \in outcomes}

IOError(j) ==
  IF j.faults < MaxFaults THEN {Fail([j EXCEPT !.faults = @ + 1], "io")} ELSE {}

Visible(j) == {f \in Requests \X Kinds : j.disk[f[1]][f[2]] # None}

\* fsync of the directory makes every renamed file of it durable.
SyncDirectory(j) == {Ok([j EXCEPT !.synced = Visible(j)])} \cup IOError(j)

\* Temp file, chmod, write, fsync and create-only rename; then the directory.
publishJournalFile(j, r, kind, value) ==
  IOError(j) \cup SyncDirectory([j EXCEPT !.disk[r][kind] = value])

\* Mutant: an existing record is replaced instead of compared.
PutReplaces(j, r, kind, value) == publishJournalFile(j, r, kind, value)

put(j, r, kind, value) ==
  CASE j.disk[r][kind] = None  -> publishJournalFile(j, r, kind, value)
    [] j.disk[r][kind] = value -> SyncDirectory(j)
    [] OTHER                   -> {Fail(j, "conflict")}

-----------------------------------------------------------------------------
(* Reading.  s is the five files of one request.                           *)

validateReceipt(admission, receipt) ==
  receipt.hash = admission.hash /\ receipt.source = admission.mode

validateExecution(s) ==
  /\ s.admission # None /\ s.receipt # None /\ s.ack # None
  /\ s.ack.disposition = "APPLIED"
  /\ s.receipt.decision = "APPROVED"

loadReceipt(s) ==
  s.receipt # None => s.admission # None /\ validateReceipt(s.admission, s.receipt)

loadAcknowledgement(s) ==
  s.ack # None => s.receipt # None /\ s.ack.receipt = s.receipt

loadExecution(s) ==
  /\ (s.execution # None) = (s.known # None)
  /\ s.execution # None => validateExecution(s) /\ s.known = s.execution

Consistent(s) == loadReceipt(s) /\ loadAcknowledgement(s) /\ loadExecution(s)

\* Mutant: a visible record is used without making its name durable.
LoadWithoutSync(j, r) ==
  IF Consistent(j.disk[r]) THEN {Ok(j)} \cup IOError(j) ELSE {Fail(j, "integrity")}

\* loadStateLocked; on success the request's state is disk[r].
Load(j, r) ==
  IF Consistent(j.disk[r]) THEN SyncDirectory(j) ELSE {Fail(j, "integrity")}

-----------------------------------------------------------------------------
(* Writing.                                                                *)

\* Mutant: a request admitted under other settings is admitted again.
AdmitIgnoresPinned(j, r, admission) ==
  LET admit(k) == IF k.disk[r].admission = None
                    THEN put(k, r, "admission", admission)
                    ELSE {Ok([k EXCEPT !.disk[r].admission = admission])}
  IN Then(Load(j, r), admit)

Admit(j, r, admission) ==
  LET admit(k) == IF k.disk[r].admission = None
                    THEN put(k, r, "admission", admission)
                    ELSE {IF k.disk[r].admission = admission
                            THEN Ok(k) ELSE Fail(k, "conflict")}
  IN Then(Load(j, r), admit)

SaveReceipt(j, r, receipt) ==
  LET save(k) == IF /\ k.disk[r].admission # None
                    /\ validateReceipt(k.disk[r].admission, receipt)
                   THEN put(k, r, "receipt", receipt)
                   ELSE {Fail(k, "integrity")}
  IN Then(Load(j, r), save)

Acknowledge(j, r, disposition) ==
  LET acknowledge(k) ==
        IF k.disk[r].receipt = None THEN {Fail(k, "integrity")}
        ELSE put(k, r, "ack", [receipt |-> k.disk[r].receipt, disposition |-> disposition])
  IN Then(Load(j, r), acknowledge)

\* The marker with the binding's hash is published first, then the binding.
BindExecution(j, r, binding) ==
  LET known(k) == IF validateExecution(k.disk[r])
                    THEN put(k, r, "known", binding) ELSE {Fail(k, "integrity")}
      execution(k) == put(k, r, "execution", binding)
  IN Then(Then(Load(j, r), known), execution)

\* A restart: after a power loss any of the names not yet durable may be gone
\* (none after a kill), and the probe of OpenJournal fsyncs what is left.
Reopen(j, lost) ==
  [j EXCEPT !.disk = [r \in Requests |-> [k \in Kinds |->
                        IF <<r, k>> \in lost THEN None ELSE j.disk[r][k]]],
            !.synced = Visible(j) \ lost]

=============================================================================
