----------------------------- MODULE MCScheduler -----------------------------
(* Small instances of Scheduler for TLC.                                   *)
EXTENDS Scheduler, TLC

\* Session goroutines are interchangeable, and so are intents of one kind.
SessionSymmetry == Permutations(Workers) \cup Permutations(Intents)

\* Liveness is checked with an environment that opens admission at any moment
\* or never, does not drain (draining only takes slots nobody may use after a
\* cancellation), does not Wake (which only shortens a sleep the timer ends
\* anyway), ends an intent by itself only while a session is calling the backend
\* about it, and may tell the process to stop at any moment.
EndsDuringCall ==
    \E w \in Workers : pc[w] \in {"claiming", "deliver"} /\ BackendEnds(job[w].id)

OpensAdmission == ~admission /\ SetDKGAdmissionOpen(TRUE)

LiveNext ==
    \/ OpensAdmission \/ Run \/ (\E w \in Workers : Session(w)) \/ Cancel
    \/ EndsDuringCall

LiveSpec == Init /\ [][LiveNext]_vars /\ Fairness
=============================================================================
