-------------------------- MODULE ApprovalDispatcher --------------------------
(***************************************************************************)
(* The approval dispatcher (internal/approval/dispatcher.go) over the      *)
(* journal, with the organization that decides and the backend that lists  *)
(* pending requests and applies decisions.                                 *)
(*                                                                         *)
(* One goroutine runs Step for ever: recovery of one saved receipt, then   *)
(* one page of pending requests.  dpc is where it stands:                  *)
(*   idle -> hint | scan -> (send) -> page -> items -> (evaluate -> save   *)
(*   -> send -> ack) -> items -> ... -> idle                               *)
(* A suppression's "until" is abstracted to a flag: a hint is suppressed   *)
(* until time passes (HintDue).                                            *)
(***************************************************************************)
EXTENDS ApprovalJournal, FiniteSetsExt

CONSTANTS
  HintCap,     \* 1000 in the code: suppression hints kept
  PageSize,    \* 50 in the code: items of one pending page
  Stuck,       \* requests whose decision the backend always refuses
  Cancellable, \* requests the backend may cancel
  Answers      \* final answers of the organization

ASSUME DispatcherAssumption ==
  /\ HintCap \in Nat \ {0} /\ PageSize \in Nat \ {0}
  /\ Stuck \subseteq Requests /\ Cancellable \subseteq Requests
  /\ Answers \subseteq Decisions

VARIABLES
  mode,        \* configured approval mode
  dpc, cur, arg, back,
               \* step, request in hand, its value, where deliver returns to
  turn,        \* recoveryTurn
  scan,        \* the open directory stream: [open, left]
  todo, cursor,\* items of the page still to process; last item of the page
  hints, due,  \* backoff: keys by increasing sequence; keys whose time passed
  signed,      \* number of receipts signed for each request
  verdict,     \* backend: None or [receipt, disposition]
  cancelled,   \* backend: requests cancelled before a decision
  sent         \* history: receipts handed to the backend

dispVars == <<dpc, cur, arg, back, turn, scan, todo, cursor, hints, due>>
backendVars == <<verdict, cancelled, sent>>

Key(r, saved) == [request |-> r, savedReceipt |-> saved]
Keys == [request : Requests, savedReceipt : BOOLEAN]
SavedHints(h) == {k \in Range(h) : k.savedReceipt}

\* The least element of a set of positions or of requests.
First(T) == {x \in T : \A y \in T : x <= y}

\* The suppression table, oldest hint first, without the hint of a key.
Delete(h, key) ==
  LET i == CHOOSE j \in DOMAIN h : h[j] = key
  IN  IF key \in Range(h) THEN SubSeq(h, 1, i - 1) \o SubSeq(h, i + 1, Len(h)) ELSE h

Due(key) == key \notin Range(hints) \/ key \in due

\* Mutant: the oldest hint is evicted whatever it stands for.
SuppressEvictsOldest(h, key) ==
  IF key \in Range(h) \/ Len(h) < HintCap THEN Append(Delete(h, key), key)
  ELSE Append(Tail(h), key)

\* A refreshed hint is the newest.  At the cap the oldest organization hint
\* makes room; saved-receipt hints are never evicted.
Suppress(h, key) ==
  LET oldest == First({i \in DOMAIN h : ~h[i].savedReceipt})
  IN IF key \in Range(h) \/ Len(h) < HintCap THEN Append(Delete(h, key), key)
     ELSE IF oldest = {} THEN h
     ELSE LET i == CHOOSE i \in oldest : TRUE IN Append(Delete(h, h[i]), key)

suppress(key) ==
  /\ hints' = Suppress(hints, key)
  /\ due' = (due \ {key}) \cap Range(hints')

forget(key) ==
  /\ hints' = Delete(hints, key)
  /\ due' = due \ {key}

Goto(step) == dpc' = step /\ cur' = 0 /\ arg' = None /\ UNCHANGED back

Deliver(r, return) == dpc' = "send" /\ cur' = r /\ arg' = None /\ back' = return

DispatcherStart ==
  /\ dpc = "idle" /\ cur = 0 /\ arg = None /\ back = "page"
  /\ turn = FALSE /\ scan = [open |-> FALSE, left |-> {}]
  /\ todo = {} /\ cursor = 0 /\ hints = <<>> /\ due = {}

-----------------------------------------------------------------------------
(* recoverSaved                                                            *)

\* Mutant: known retries always go first.
BeginWithHints ==
  /\ dpc = "idle"
  /\ turn' = TRUE
  /\ Goto("hint")
  /\ UNCHANGED <<journal, mode, scan, todo, cursor, hints, due, signed, backendVars>>

BeginStep ==
  /\ dpc = "idle"
  /\ turn' = ~turn
  /\ Goto(IF turn' THEN "hint" ELSE "scan")
  /\ UNCHANGED <<journal, mode, scan, todo, cursor, hints, due, signed, backendVars>>

DueSaved == {i \in DOMAIN hints : hints[i].savedReceipt /\ hints[i] \in due}

\* The oldest due saved hint is delivered from its record; "hint" is the first
\* call of the turn, "last" the one after the scan.
RetrySavedHint ==
  /\ dpc \in {"hint", "last"}
  /\ UNCHANGED <<mode, turn, scan, todo, cursor, signed, backendVars>>
  /\ IF DueSaved = {}
       THEN /\ Goto(IF dpc = "hint" THEN "scan" ELSE "page")
            /\ UNCHANGED <<journal, hints, due>>
       ELSE \E i \in First(DueSaved) :
            LET key == hints[i]
                r == key.request
            IN \E o \in Load(journal, r) :
                 /\ journal' = o.j
                 /\ IF o.err # "none" \/ o.j.disk[r].receipt = None
                      THEN suppress(key) /\ Goto("page")
                      ELSE IF o.j.disk[r].ack # None
                      THEN forget(key) /\ Goto(IF dpc = "hint" THEN "scan" ELSE "page")
                      ELSE Deliver(r, "page") /\ UNCHANGED <<hints, due>>

\* The next unacknowledged receipt, in the arbitrary order of a directory
\* stream that stays open across calls and is reopened after its end.  A
\* record that cannot be read is skipped.
PendingReceipts ==
  /\ dpc = "scan"
  /\ UNCHANGED <<mode, turn, todo, cursor, hints, due, signed, backendVars>>
  /\ LET saved == {r \in Requests : journal.disk[r].receipt # None}
         left == IF scan.open THEN scan.left ELSE saved
         unacknowledged == {r \in left : journal.disk[r].ack = None}
     IN IF unacknowledged = {}
          THEN /\ scan' = [open |-> FALSE, left |-> {}]
               /\ Goto("last")
               /\ UNCHANGED journal
          ELSE \E r \in unacknowledged : \E o \in Load(journal, r) :
                 /\ journal' = o.j
                 /\ scan' = [open |-> TRUE, left |-> unacknowledged \ {r}]
                 /\ IF o.err # "none" THEN Goto("scan")
                    ELSE IF Due(Key(r, TRUE)) THEN Deliver(r, "page") ELSE Goto("last")

-----------------------------------------------------------------------------
(* One page of pending requests                                            *)

Unresolved == {r \in Requests : verdict[r] = None /\ r \notin cancelled}

\* The first PageSize requests of a set.
FirstPage(after) == {r \in after : Cardinality({q \in after : q <= r}) <= PageSize}

\* Mutant: the next page's cursor is not kept.
FetchFirstPage ==
  /\ dpc = "page"
  /\ todo' = FirstPage(Unresolved)
  /\ Goto(IF todo' = {} THEN "idle" ELSE "items")
  /\ UNCHANGED <<journal, mode, turn, scan, cursor, hints, due, signed, backendVars>>

FetchPage ==
  /\ dpc = "page"
  /\ LET after == {r \in Unresolved : r > cursor}
         page == FirstPage(after)
     IN /\ todo' = page
        /\ cursor' = IF page = after THEN 0 ELSE Max(page)
        /\ Goto(IF page = {} THEN "idle" ELSE "items")
  /\ UNCHANGED <<journal, mode, turn, scan, hints, due, signed, backendVars>>

\* Discovery fails: an INVALID_CURSOR answer restarts the sweep, anything
\* else keeps the position.
FetchFails ==
  /\ dpc = "page"
  /\ cursor' \in {0, cursor}
  /\ Goto("idle")
  /\ UNCHANGED <<journal, mode, turn, scan, todo, hints, due, signed, backendVars>>

Taken(r) == todo' = todo \ {r}

NextItem(r) == Taken(r) /\ Goto(IF todo' = {} THEN "idle" ELSE "items")

\* What process does with item r and the evidence o it loaded, up to the
\* organization call.
ProcessItem(r, hash, o) ==
  LET s == o.j.disk[r]
      admission == [mode |-> mode, hash |-> hash]
  IN IF \/ o.err # "none"
        \/ s.admission # None /\ s.admission.hash # hash
        \/ s.receipt # None /\ (s.ack # None \/ ~Due(Key(r, TRUE)))
        \/ s.receipt = None /\ \/ Cardinality(SavedHints(hints)) >= HintCap
                               \/ ~Due(Key(r, FALSE))
       THEN journal' = o.j /\ NextItem(r)
       ELSE IF s.receipt # None
       THEN journal' = o.j /\ Deliver(r, "items") /\ Taken(r)
       ELSE \E a \in Admit(o.j, r, admission) :
              /\ journal' = a.j
              /\ IF a.err # "none" THEN NextItem(r)
                 ELSE /\ dpc' = "evaluate" /\ cur' = r /\ arg' = admission
                      /\ Taken(r) /\ UNCHANGED back

\* The items are taken in order.  Whatever goes wrong with one, the loop goes
\* on with the next.
Process ==
  /\ dpc = "items"
  /\ UNCHANGED <<mode, turn, scan, cursor, hints, due, signed, backendVars>>
  /\ \E r \in First(todo), hash \in Hashes : \E o \in Load(journal, r) : ProcessItem(r, hash, o)

AfterItem == IF todo = {} THEN "idle" ELSE "items"

\* The organization does not answer, answers badly, or answers PENDING.
EvaluateLater ==
  /\ dpc = "evaluate" /\ arg.mode = "external"
  /\ suppress(Key(cur, FALSE))
  /\ Goto(AfterItem)
  /\ UNCHANGED <<journal, mode, turn, scan, todo, cursor, signed, backendVars>>

\* A final answer, or the automatic one, is signed into a receipt.
EvaluateFinal ==
  /\ dpc = "evaluate"
  /\ \E decision \in IF arg.mode = "external" THEN Answers ELSE {"APPROVED"} :
       arg' = Receipt(decision, arg.hash, arg.mode, signed[cur] + 1)
  /\ signed' = [signed EXCEPT ![cur] = @ + 1]
  /\ dpc' = "save"
  /\ UNCHANGED <<journal, mode, cur, back, turn, scan, todo, cursor, hints, due, backendVars>>

Save ==
  /\ dpc = "save"
  /\ \E o \in SaveReceipt(journal, cur, arg) :
       /\ journal' = o.j
       /\ IF o.err = "none"
            THEN forget(Key(cur, FALSE)) /\ dpc' = "send" /\ back' = "items" /\ UNCHANGED <<cur, arg>>
            ELSE Goto(AfterItem) /\ UNCHANGED <<hints, due>>
  /\ UNCHANGED <<mode, turn, scan, todo, cursor, signed, backendVars>>

-----------------------------------------------------------------------------
(* deliver                                                                 *)

AfterDelivery == IF back = "page" THEN "page" ELSE AfterItem

\* What is sent: the receipt just signed, or the one read from the journal.
Outgoing == IF arg = None THEN journal.disk[cur].receipt ELSE arg

\* The backend applies the first receipt it gets, unless the request was
\* cancelled; the same receipt again is a replay, another one a conflict.
Applied(r, receipt) ==
  CASE verdict[r] = None ->
         [receipt |-> receipt,
          disposition |-> IF r \in cancelled THEN "NOT_APPLIED_CANCELLED" ELSE "APPLIED"]
    [] verdict[r] # None /\ verdict[r].receipt = receipt -> verdict[r]
    [] OTHER -> [receipt |-> receipt, disposition |-> "TERMINAL_CONFLICT"]

BackendReceives ==
  /\ cur \notin Stuck
  /\ sent' = [sent EXCEPT ![cur] = @ \cup {Outgoing}]
  /\ verdict' = [verdict EXCEPT ![cur] = IF @ = None THEN Applied(cur, Outgoing) ELSE @]

\* The decision did not reach the backend, or its answer was lost or refused.
SendFails ==
  /\ dpc = "send"
  /\ BackendReceives \/ UNCHANGED <<verdict, sent>>
  /\ suppress(Key(cur, TRUE))
  /\ Goto(AfterDelivery)
  /\ UNCHANGED <<journal, mode, turn, scan, todo, cursor, signed, cancelled>>

SendAnswered ==
  /\ dpc = "send"
  /\ BackendReceives
  /\ dpc' = "ack" /\ arg' = Applied(cur, Outgoing)
  /\ UNCHANGED <<journal, mode, cur, back, turn, scan, todo, cursor, hints, due, signed, cancelled>>

AcknowledgeDecision ==
  /\ dpc = "ack"
  /\ \E o \in Acknowledge(journal, cur, arg.disposition) :
       /\ journal' = o.j
       /\ IF o.err = "none" THEN forget(Key(cur, TRUE)) ELSE suppress(Key(cur, TRUE))
  /\ Goto(AfterDelivery)
  /\ UNCHANGED <<mode, turn, scan, todo, cursor, signed, backendVars>>

-----------------------------------------------------------------------------
\* Time passes a suppression's until.
HintDue(key) ==
  /\ key \in Range(hints) \ due
  /\ due' = due \cup {key}
  /\ UNCHANGED <<journal, mode, dpc, cur, arg, back, turn, scan, todo, cursor,
                 hints, signed, backendVars>>

\* The backend cancels a request nobody decided yet.
BackendCancels(r) ==
  /\ r \in Unresolved \cap Cancellable
  /\ cancelled' = cancelled \cup {r}
  /\ UNCHANGED <<journal, mode, dispVars, signed, verdict, sent>>

DispatcherStep ==
  \/ BeginStep \/ RetrySavedHint \/ PendingReceipts \/ FetchPage \/ FetchFails
  \/ Process \/ EvaluateLater \/ EvaluateFinal \/ Save
  \/ SendFails \/ SendAnswered \/ AcknowledgeDecision
=============================================================================
