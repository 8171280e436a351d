--------------------------- MODULE ApprovalEvidence ---------------------------
(***************************************************************************)
(* What the approval subsystem promises, without files, crashes or         *)
(* retries: a ledger in which each request is admitted under one setting,  *)
(* gets at most one decision that agrees with it, each decision at most    *)
(* one application result, and each applied approval at most one           *)
(* execution, none of them ever changed.                                   *)
(***************************************************************************)
CONSTANTS Requests, None, Agrees(_, _), IsApproval(_), IsApplied(_)

VARIABLES settings, decision, application, execution

ledger == <<settings, decision, application, execution>>

WriteOnce(entry) == \A r \in Requests : entry[r] = None \/ entry'[r] = entry[r]

Init ==
  /\ settings = [r \in Requests |-> None]
  /\ decision = [r \in Requests |-> None]
  /\ application = [r \in Requests |-> None]
  /\ execution = [r \in Requests |-> None]

\* A step records any number of entries, each after the one it rests on.
Record ==
  /\ WriteOnce(settings) /\ WriteOnce(decision)
  /\ WriteOnce(application) /\ WriteOnce(execution)
  /\ \A r \in Requests :
       /\ decision'[r] # None => settings'[r] # None /\ Agrees(settings'[r], decision'[r])
       /\ application'[r] # None => decision'[r] # None
       /\ execution'[r] # None =>
            application'[r] # None /\ IsApproval(decision'[r]) /\ IsApplied(application'[r])

Spec == Init /\ [][Record]_ledger
=============================================================================
