------------------------------ MODULE MCApproval ------------------------------
(***************************************************************************)
(* Instances of Approval, after the journal has been opened.  Neither      *)
(* authorization hashes nor bindings are ever ordered, so permuting them   *)
(* is a symmetry of the safety run.                                        *)
(*                                                                         *)
(* The safety run opens the journal, with all that may interrupt it.  Once *)
(* the first start has it, there are two kinds of behaviour: either one    *)
(* request is open, the others having been cancelled before, and anything  *)
(* can happen to it; or all of them are open and compete for the           *)
(* suppression table, under one policy, without faults and SIGN attempts.  *)
(***************************************************************************)
EXTENDS Approval, JournalInit, TLC

Symmetry == Permutations(Hashes) \cup Permutations(Bindings)

Crowded == cancelled = {}

CrowdedLimits ==
  /\ UNCHANGED <<gateVars, crashes, cancelled>>
  /\ journal'.faults = journal.faults
  /\ Cardinality({journal'.disk[r].admission : r \in Requests} \ {None}) <= 1
  /\ dpc' = "save" => arg'.decision = "APPROVED"

SafetyInit ==
  /\ OpenInit
  /\ Init
  /\ (Crowded /\ mode = "external") \/ cancelled = Requests \ {1}

\* At most this many failed operations and restarts together.
MaxTroubles == 2

Serving ==
  /\ opening = "open" /\ starts = 1
  /\ Next
  /\ journal'.faults + crashes' <= MaxTroubles
  /\ Crowded => CrowdedLimits
  /\ UNCHANGED openVars

\* The journal is opened before the dispatcher and the gate have done anything;
\* a crash after that is Approval's.
Untouched == journal = EmptyJournal /\ dpc = "idle" /\ cursor = 0 /\ hints = <<>> /\ ~turn

Opening == Untouched /\ OpenNext /\ UNCHANGED vars

SafetySpec == SafetyInit /\ [][Opening \/ Serving]_<<vars, openVars>>
=============================================================================
