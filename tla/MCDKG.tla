--------------------------------- MODULE MCDKG ---------------------------------
(***************************************************************************)
(* Instances of DKG for model checking: all intents are for one key.       *)
(***************************************************************************)
EXTENDS DKG, TLC

\* Every intent is for the same key: a later intent meets an earlier artifact.
SharedKey == [i \in Intents |-> "key"]

\* Nothing compares public keys but for equality.
KeySymmetry == Permutations(PublicKeys)

\* A second crash only while the other intents have not been created.
CrashLimit == crashes' > 1 => \E i \in Intents : \A k \in Intents \ {i} : status'[k] = "NEW"

LiveSpec == Init /\ [][Next /\ CrashLimit]_vars /\ Fairness
=============================================================================
