------------------------------ MODULE DKGOutcome ------------------------------
(***************************************************************************)
(* What a DKG promises, without processes, files or messages.  A ceremony  *)
(* may leave one pair of shares that agree; a pair, once there, is never   *)
(* lost or changed.  A ceremony has at most one outcome, and it completes  *)
(* only with the pair it left.                                             *)
(***************************************************************************)
CONSTANTS Intents, Pairs, None

VARIABLES pair, outcome

Completed(p) == [status |-> "COMPLETED", pair |-> p]

Unresolved == [status |-> "OPEN", pair |-> None]

Init ==
  /\ pair = [i \in Intents |-> None]
  /\ outcome = [i \in Intents |-> Unresolved]

Leave(i) == pair[i] = None /\ pair'[i] \in Pairs

Complete(i) == pair[i] # None /\ outcome'[i] = Completed(pair[i])

GiveUp(i) == outcome'[i].status \in {"FAILED", "TIMED_OUT"} /\ outcome'[i].pair = None

Next ==
  \A i \in Intents :
    /\ pair'[i] = pair[i] \/ Leave(i)
    /\ \/ outcome'[i] = outcome[i]
       \/ outcome[i] = Unresolved /\ (Complete(i) \/ GiveUp(i))

Spec == Init /\ [][Next]_<<pair, outcome>>
=============================================================================
