---------------------------- MODULE ArtifactStore ----------------------------
(***************************************************************************)
(* The two share stores (internal/sharestore) as the file system sees      *)
(* them, and the slot that names the session allowed to write to them.     *)
(*                                                                         *)
(* A store holds at most one immutable artifact for each key.  An artifact *)
(* is the session that made it and the account public key inside it.  A    *)
(* name is visible after the create-only rename and durable after the next *)
(* directory sync: a killed process leaves the visible names, a power loss *)
(* may lose the names that are not durable.                                *)
(***************************************************************************)
EXTENDS Naturals

CONSTANTS
  Intents,      \* DKG intents; an intent stands for its session as well
  KeyOf,        \* the key id of an intent
  PublicKeys,   \* account public keys a party may compute
  ReadFaults,   \* whether reading or probing a store may fail
  None

Stores == {"primary", "recovery"}

Keys == {KeyOf[i] : i \in Intents}

Artifacts == [session : Intents, publicKey : PublicKeys]

NoArtifact == [session |-> None, publicKey |-> None]

VARIABLES
  file,         \* the artifact visible in a store under a key
  durable,      \* the keys whose name survives a power loss, for each store
  active        \* ActivePair.active: the registered session

StoreInit ==
  /\ file = [s \in Stores |-> [k \in Keys |-> NoArtifact]]
  /\ durable = [s \in Stores |-> {}]
  /\ active = None

Exists(s, k) == file[s][k] # NoArtifact

Visible(s) == {k \in Keys : Exists(s, k)}

\* encodeArtifactV1 seals the session and the share into the artifact, and
\* loadValidatedRuntimeShare opens it only for the session it is bound to.
EncodeArtifact(i, key) == [session |-> i, publicKey |-> key]

LoadValidated(a, i) == IF a.session = i THEN a ELSE NoArtifact

\* What InspectExisting may return; NoArtifact stands for any error.
InspectExisting(s, i) ==
  {LoadValidated(file[s][KeyOf[i]], i)} \cup (IF ReadFaults THEN {NoArtifact} ELSE {})

\* The evidence both parties left: bound to one session, one public key.
EvidenceMatches(primary, recovery) ==
  /\ primary # NoArtifact /\ recovery # NoArtifact
  /\ primary.session = recovery.session
  /\ primary.publicKey = recovery.publicKey

RenameNoReplace(s, k, a) ==
  /\ ~Exists(s, k)
  /\ file' = [file EXCEPT ![s][k] = a]

SyncNothing(s) == durable' = durable

SyncDirectory(s) == durable' = [durable EXCEPT ![s] = Visible(s)]

\* The probe publishes and removes a file of its own in both directories, and
\* so syncs every name an earlier process left there.
ProbePublishCapability == durable' = [s \in Stores |-> Visible(s)]

PowerLoss ==
  \E kept \in [Stores -> SUBSET Keys] :
    /\ \A s \in Stores : durable[s] \subseteq kept[s] /\ kept[s] \subseteq Visible(s)
    /\ file' = [s \in Stores |-> [k \in Keys |->
                  IF k \in kept[s] THEN file[s][k] ELSE NoArtifact]]
    /\ durable' = kept

RegisterPair(i) == active' = i

Resolves(i) == active = i

Release == active' = None

=============================================================================
