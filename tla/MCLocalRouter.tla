---------------------------- MODULE MCLocalRouter ----------------------------
(***************************************************************************)
(* Instances of LocalRouter.  The platform repeats, reorders, contradicts  *)
(* and misaddresses frames; B has a broadcast and a frame for the platform, *)
(* C one for its sibling.                                                  *)
(***************************************************************************)
EXTENDS LocalRouter, FiniteSets

F(from, to, seq, id, body) ==
  [from |-> from, to |-> to, seq |-> seq, id |-> id, body |-> body, ok |-> TRUE]

PlatformFrames ==
  {F("platform", "*", 1, "m1", "x"), F("platform", "*", 1, "m1", "y"),
   F("platform", "B", 2, "m2", "x"), F("platform", "C", 2, "m2", "y"),
   F("platform", "platform", 3, "m3", "x"),
   [F("platform", "*", 3, "m3", "x") EXCEPT !.ok = FALSE]}

Frames == [p \in {"B", "C", "platform"} |->
  CASE p = "platform" -> PlatformFrames
    [] p = "B" -> {F("B", "*", 1, "m1", "x"), F("B", "platform", 2, "m2", "x")}
    [] p = "C" -> {F("C", "B", 1, "m1", "x")}]

\* At most MaxFrames frames are recorded or about to be.  The bound is on frames
\* that begin to be sent or received, which nothing promises.
MaxFrames == 2

Begun == Cardinality(seen) + Cardinality({p \in Local : sending[p] = "checked"})

FewFrames == Begun' > Begun => Begun' <= MaxFrames

BoundedSpec == Init /\ [][Next /\ FewFrames]_vars /\ Fairness
=============================================================================
