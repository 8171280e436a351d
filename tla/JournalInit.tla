----------------------------- MODULE JournalInit -----------------------------
(***************************************************************************)
(* Opening the managed approval journal (internal/approval/journal_init.go)*)
(*                                                                         *)
(* A marker inside the primary share store and an identity file inside the *)
(* journal directory pin one journal to one store.  Both are written by    *)
(* the first start, marker first; every later start must find the same     *)
(* pair.  Names survive a power loss once their directory is fsynced.      *)
(***************************************************************************)
EXTENDS Naturals

CONSTANTS
  AutoInitialize,  \* the derived directory may be created
  MaxStarts        \* bound on the process starts explored

ASSUME InitAssumption == AutoInitialize \in BOOLEAN /\ MaxStarts \in Nat \ {0}

VARIABLES
  dir,       \* the journal directory: absent, visible or durable
  marker,    \* identity recorded in the primary store, 0 if none
  identity,  \* identity recorded in the journal, 0 if none
  fsynced,   \* subset of {"marker", "identity"}
  opening,   \* down, checked, made, marked or open
  drawn,     \* identity drawn by this start
  starts,
  handed,    \* history: identities of the journals handed to the program
  missing    \* none, or the evidence an operator lost: marker or journal

openDisk == <<dir, marker, identity, fsynced>>
openVars == <<openDisk, opening, drawn, starts, handed, missing>>

OpenInit ==
  /\ dir \in IF AutoInitialize THEN {"absent", "durable"} ELSE {"durable"}
  /\ marker = 0 /\ identity = 0 /\ fsynced = {}
  /\ opening = "down" /\ drawn = 0 /\ starts = 0 /\ handed = {} /\ missing = "none"

OpenStart ==
  /\ opening = "down" /\ starts < MaxStarts
  /\ starts' = starts + 1
  /\ opening' = "checked" /\ drawn' = starts'
  /\ UNCHANGED <<openDisk, handed, missing>>

\* The start gives up with an error.
Refuse == opening' = "down" /\ UNCHANGED <<openDisk, drawn, starts, handed, missing>>

\* Mutant: the journal's own identity file is not compared.
MatchesIfPresent == identity \in {0, marker}

Matches == identity = marker

\* A marker exists: the journal must carry the same identity.  Both
\* directories are fsynced (the journal's by OpenJournal's probe).
OpenExisting ==
  /\ opening = "checked" /\ marker # 0
  /\ dir # "absent" /\ Matches
  /\ fsynced' = fsynced \cup {"marker", "identity"} /\ dir' = "durable"
  /\ opening' = "open" /\ handed' = handed \cup {identity}
  /\ UNCHANGED <<marker, identity, drawn, starts, missing>>

\* Evidence loss: a marker without its journal, or a journal identity
\* without the marker.
RefuseEvidenceLoss ==
  /\ opening = "checked"
  /\ \/ marker # 0 /\ (dir = "absent" \/ ~Matches)
     \/ marker = 0 /\ identity # 0
  /\ Refuse

\* No marker and no identity: make the directory and fsync its parent.
MakeDirectory ==
  /\ opening = "checked" /\ marker = 0 /\ identity = 0
  /\ dir # "absent" \/ AutoInitialize
  /\ dir' = "durable" /\ opening' = "made"
  /\ UNCHANGED <<marker, identity, fsynced, drawn, starts, handed, missing>>

MakeDirectoryFails ==
  /\ opening = "checked" /\ marker = 0 /\ identity = 0
  /\ dir' \in IF dir = "absent" /\ AutoInitialize THEN {"absent", "visible"} ELSE {dir}
  /\ opening' = "down"
  /\ UNCHANGED <<marker, identity, fsynced, drawn, starts, handed, missing>>

\* OpenJournal (lock and probe), then the marker: renamed, then durable.
PublishMarker ==
  /\ opening = "made" /\ marker' = drawn
  /\ \/ fsynced' = fsynced \cup {"marker"} /\ opening' = "marked"
     \/ UNCHANGED fsynced /\ opening' = "down"
  /\ UNCHANGED <<dir, identity, drawn, starts, handed, missing>>

PublishIdentity ==
  /\ opening = "marked" /\ identity' = drawn
  /\ \/ fsynced' = fsynced \cup {"identity"} /\ opening' = "open" /\ handed' = handed \cup {drawn}
     \/ UNCHANGED <<fsynced, handed>> /\ opening' = "down"
  /\ UNCHANGED <<dir, marker, drawn, starts, missing>>

\* A publication or OpenJournal fails before anything is visible.
PublicationFails == opening \in {"made", "marked"} /\ Refuse

\* The process stops; a power loss takes any of the names not yet durable.
OpenCrash ==
  /\ opening' = "down"
  /\ \E gone \in SUBSET ({"marker", "identity"} \ fsynced), noDir \in BOOLEAN :
       /\ noDir => dir = "visible"
       /\ dir' = IF noDir THEN "absent" ELSE dir
       /\ marker' = IF "marker" \in gone THEN 0 ELSE marker
       /\ identity' = IF "identity" \in gone \/ noDir THEN 0 ELSE identity
  /\ UNCHANGED <<fsynced, drawn, starts, handed, missing>>

\* An operator loses the marker, or the journal and perhaps puts an empty
\* directory in its place; losing both is outside this guard.
LoseEvidence ==
  /\ opening = "down" /\ missing = "none" /\ handed # {}
  /\ \/ missing' = "marker" /\ marker' = 0 /\ fsynced' = fsynced \ {"marker"} /\ UNCHANGED <<dir, identity>>
     \/ missing' = "journal" /\ identity' = 0 /\ fsynced' = fsynced \ {"identity"}
        /\ dir' \in {"absent", "durable"} /\ UNCHANGED marker
  /\ UNCHANGED <<opening, drawn, starts, handed>>

OpenNext ==
  \/ OpenStart \/ OpenExisting \/ RefuseEvidenceLoss \/ MakeDirectory \/ MakeDirectoryFails
  \/ PublishMarker \/ PublishIdentity \/ PublicationFails \/ OpenCrash \/ LoseEvidence

OpenSpec == OpenInit /\ [][OpenNext]_openVars

-----------------------------------------------------------------------------
\* The program only ever works with one journal: however often initialization
\* is interrupted, and whichever half of the evidence is lost later, no start
\* hands out a second or an unidentified one (journal_init.go: "Never
\* generate another identity in that case").
OneJournal == (\A a, b \in handed : a = b) /\ 0 \notin handed

=============================================================================
