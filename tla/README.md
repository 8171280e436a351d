# TLA+ specifications of the MPC co-signer

The co-signer is the customer's half of a 2-of-3 threshold signing system. It
polls the BroSettlement backend for DKG and SIGN intents, claims them, runs the
multi-party protocol over a relay, stores two encrypted share artifacts after a
DKG, and publishes the result until the backend has acknowledged it. This
directory specifies the parts of it whose correctness depends on the order of
events, model-checks them with TLC and proves their safety with TLAPS.

## The system

| Part | Code | State | Operations | Talks to |
|------|------|-------|------------|----------|
| Scheduler, permits | `internal/worker/scheduler.go`, `permits.go` | general and DKG slots, reserved intents, repoll channel, DKG admission | poll, dispatch, admit, launch, wake, drain | sessions, backend, coordinator |
| Session worker | `session_worker.go`, `session_result.go`, `sign_session.go` | claim, lease, session deadline | claim with recovery, wait for readiness, authorize, execute, deliver, hold | backend, runner, SIGN gate |
| Lifecycle coordinator | `internal/lifecycle`, `cmd/co-signer` | lock, capabilities, stopping, latched, confirmed | Start, publicationDone, Shutdown, abortStartup | everything below |
| Startup publisher slot | `internal/terminal/single_slot.go` | started, occupied | Start, Handoff, Wait | coordinator |
| Readiness, health | `internal/health` | readiness snapshot | Set, Snapshot, ServeHTTP | coordinator |
| Terminal publisher | `internal/terminal/publisher.go`, `retry.go` | attempt | Publish with retry | backend |
| DKG coordinator | `internal/worker/dkg_coordinator.go` | two parties, handles, pair lease | Run, runParties | router, stores, preparams |
| Share stores | `internal/sharestore` | immutable artifacts, active pair | publish, inspect, load | DKG coordinator, reconciler |
| Reconciler | `internal/reconcile` | none | Reconcile | backend, stores |
| Approval journal, dispatcher, SIGN gate | `internal/approval` | one directory of immutable records, suppression table, cursor | Admit, SaveReceipt, Acknowledge, BindExecution, Step, Authorize | backend, evaluator |
| Local router | `internal/localrouter` | party queues, seen frames | route, receive, finish | transport, parties |
| HTTP transport | `internal/transport` | done, first error, dispatch | Start, Dispatch, poll, Close | backend |
| Preparams controller | `internal/preparams` | jobActive, ready | observe, BeginJob | TSS library, scheduler |
| Backend client | `internal/monolith` | none | list, claim, post, poll | backend |
| Signing policy, wire contracts, configuration, metrics | `internal/signingpolicy`, `internal/contract`, `internal/strictjson`, `internal/config`, `internal/metrics` | none | validation, encoding, counters | |

What is hard here: a claim may be applied although its answer is lost; a
listing is stale by the time it is used; permits, reservations and wakeups are
given back in several steps; one goroutine confirms an old result while another
starts or stops the process; a restart finds whatever the previous process left;
result delivery and receipt delivery are repeated until acknowledged.
`PROJECT.json` lists each of these hazards at its line.

## Modules

**`Scheduler`** models `Scheduler.Run`, `dispatchBatch`, the permit pools and the
life of every session goroutine. `spc` is the place of Run, `pc[w]` that of
session slot `w`. The variables `general` and `guard` count occupied slots,
`repoll` is the wakeup channel of capacity one, `inFlight` the reserved intents,
`awaiting` the session whose claim dispatch Run waits for. An action is one step
between two points where another goroutine can be observed: a channel operation,
a mutex, a backend call. A claim is three steps (sent, applied, answered), so
its answer may be lost between them. `backend[i]` is what the backend says of an
intent: `pending`, `claimed` by this process, `orphaned` (claimed by a previous
process of this installation) or `terminal`. Three facts about the backend are
assumed, as the code assumes them: it answers "not found" to a claim only for an
intent that has ended, it answers a repeated claim of the same installation
again, and it may end an intent on its own at any time. Poll intervals, metrics
and validation details are left out; readiness, authorization and the protocol
run are the single step `Execute`.

**`MCScheduler`** holds the symmetry sets and the environments for TLC.

**`Lifecycle`** models the coordinator with the startup publisher, readiness and
health endpoint. `main` is the main goroutine, which runs `Start` and then either
`Shutdown` or `abortStartup`; `pub` is the publisher goroutine with
`publicationDone`, split at its two critical sections; the scheduler is reduced to
what the coordinator can see of it (`sched`, `busy`, `drained`). Its `Start` is
split where it reads `confirmed` and where it publishes the snapshot, since the
second is outside the mutex. `Drain` may time out in `Shutdown` only, because
`abortStartup` passes a background context. `delivered` and `admitted` are history
variables.

### Approval

**`ApprovalJournal`** gives each journal operation as the set of outcomes it can
have: the files it leaves, what of them is durable, and an error. Operations run
under the journal's mutex, so one is one step; a name is visible after the
rename and survives a power loss after the directory fsync.
**`ApprovalDispatcher`** is the goroutine that runs `Step` for ever (`dpc`), with
the organization that decides and the backend that lists and applies. A
suppression's `until` is a flag that time clears (`HintDue`). **`Approval`** adds
the SIGN gate, any number of concurrent `Authorize` calls, restarts and power
losses. **`ApprovalEvidence`** is what all of it promises: a write-once ledger.
`Approval` is shown to implement it, mapping the durable files to its entries.
**`JournalInit`** is the first start and every later one: marker, directory and
identity, each step interruptible. **`MCApproval`** opens the journal with
`JournalInit` and then serves with `Approval`.

### DKG

**`ArtifactStore`** (create-only rename, directory sync, pair lease),
**`DKGCoordinator`** (`Run`, two party goroutines and their join),
**`TerminalPublisher`** (post until confirmed, with requests that arrive late),
**`Reconciler`** (probe, list, decide) and **`DKG`** (claim, deadlines, kills,
power losses, restarts) extend each other in this order. `pc` is the place of the
process, from `down` through startup to one ceremony after the other.
**`DKGOutcome`** is the abstract ceremony: one pair of agreeing shares that is
never lost, one outcome, completion only with that pair. **`MCDKG`** gives both
intents one key. **`Backoff`** holds the two growing delay functions as pure
operators with their integer width, next to what they should compute; `DKG`
extends it for the delays between its posts and polls.

One assumption is about the network: a claim request of a killed process is not
applied after the next process has listed the backend's intents. Terminal
requests get no such assumption; they may arrive at any later time.

### Sessions, frames and pre-parameters

**`SessionLifecycle`** holds the checks on the backend's view of a session,
**`HTTPTransport`** the poller, the inbound queue and the single dispatch,
**`SignSession`** one claimed SIGN session on top of them up to the delivered
result. `now` is a clock; the backend starts, ends and expires the session.
**`LocalRouter`** is the router of a DKG: validator, party queues, receiver
goroutine, `Finish`, `Close` and the party transports. **`MCLocalRouter`** chooses
the frames. **`Preparams`** is the controller between the MPC core's pool, DKG
jobs and the scheduler; `observe` is three steps (snapshot, critical section,
wakeup), so old snapshots are applied late.

**`SchedulerProofs`**, **`LifecycleProofs`**, **`ApprovalProofs`**,
**`SignSessionProofs`**, **`DKGProofs`** and **`LocalRouterProofs`** hold the
theorems about the component they are named after. **`JournalProofs`** holds the
lemmas about the journal operations that `ApprovalProofs` rests on,
**`ComponentProofs`** the theorems about the two small parts, pre-parameters and
opening the journal. An operator that looks like a faulty
variant of the definition after it is one: it documents which mistake a property
catches, and no specification uses it.

## What TLC checks

| Run | Instance | Shows |
|-----|----------|-------|
| `scheduler_safety` | two DKG intents, two permits | permits have one owner each, no wakeup is lost, a drained pool means no session |
| `scheduler_liveness` | a DKG and a SIGN intent, one permit | at most one protocol run per intent, no claim abandoned, a pending SIGN is served, a cancelled Run returns |
| `lifecycle` | the whole coordinator | the lock covers all work, DKG waits for resolution, readiness and health are honest, a stop ends in a released lock |
| `lifecycle_confirmation` | the same | *violated*: a confirmation can be hidden by Start |
| `lifecycle_admission` | the same | *violated*: a confirmation can reopen admission during Shutdown |
| `approval_safety` | journal opening, then one request with everything or three that compete | one journal, one decision told to the backend, MPC admitted on durable evidence only, hints of saved receipts kept, the ledger is implemented |
| `approval_delivery` | one request refused for ever, one accepted, a restart | the accepted one is decided, delivered and acknowledged |
| `router` | a platform that repeats, reorders, contradicts and misaddresses | frames in order and once, none lost unnoticed, nothing handed out after a failure, Finish returns |
| `sign_session` | one session, shutdown and expiry at any time | the run stays in its window, COMPLETED is true, messages in order and once, the session ends resolved |
| `dkg_safety` | two intents for one key, one kill or power loss, failing reads | no claim forgotten, completion is durable, no late write, the abstract ceremony is implemented; delay arithmetic |
| `dkg_liveness` | two crashes in one ceremony, or one over two | a posted completion is never contradicted, every claim gets a terminal result |
| `preparams` | two jobs, the ticker, the scheduler | no generation during a job, a passed-over DKG is retried without the timer, every pause ends |

**Bounds.** Two intents and two session slots are enough for every interaction
the scheduler has between sessions: they meet only in the two pools, the
reservation of one intent, and the wakeup channel. One permit forces admission to
be refused, two let sessions overlap. `Lifecycle` and `Preparams` are finite
without a bound on their steps.

- `approval_safety`: at most `MaxTroubles` = 2 failed file operations and restarts
  together, which reaches a failure while recovering from another. The state is
  a union of two scenarios. In the first the other requests were cancelled before
  and anything happens to one. In the second (`Crowded`) three requests compete
  for two hints, under one policy and without faults or SIGN attempts. Faults in
  a crowded table are therefore not explored. At most four starts open the journal.
- `router`: queues of one slot and `MaxFrames` = 2 frames begun, so that a queue
  overflows and a frame is repeated or contradicted. Three frames at once are not
  explored.
- `sign_session`: window 2, margin 1, deadline 4, clock up to 5, two messages and
  a queue of one: the window ends before the deadline, with it, or is cut by it.
- `dkg_safety`: one crash; `dkg_liveness`: no failing reads, one public key, and a
  second crash only while the other intent does not exist (`CrashLimit`).
- `Backoff`: four-bit durations and attempts, all pairs of delays, so every
  shift and product that can overflow does.

Deadlock checking is off for `scheduler_liveness`, `Lifecycle` and `DKG`, where the
process really ends or stops provisioning.

**Fairness.** Go runs every runnable goroutine, so its steps are weakly fair.
Beyond that:

- `Scheduler`: polling succeeds again and again, the deadline of a claim in
  recovery passes (strongly fair, since a claim in progress disables it), and the
  backend ends an intent whose result it keeps rejecting.
- `Lifecycle`: nothing of the backend; a publication may go unanswered until the
  context is done.
- `Approval`: a page, a decision and the delivery of a receipt the backend does
  not refuse succeed if tried for ever; suppression times pass. SIGN attempts,
  cancellations and restarts get none.
- `SignSession`: time passes, a run whose context ended returns, one delivery in
  infinitely many is answered.
- `LocalRouter`: a network receive returns when its context ends, and otherwise
  perhaps never.
- `DKG`: the process is restarted; a listing, a post and its answer get through
  if tried for ever; a party returns once its context is done; an expired pending
  intent is timed out by the backend. No claimed intent is assumed to time out.
- `Preparams`: a session ends. The poll timer gets none: the wakeups must do.

## What is proved

Every invariant, every action property and both refinements that a passing run
checks are also theorems, for every value of the constants (`CompletionIsFinal`
under one hypothesis, given below). The bounds of the instances (crashes,
faults, starts, frames, messages, the clock) are constants like the others, so
the theorems hold for any number of these. The assumptions are the ones named
`...Assumption` in the modules. They say that constants have their types, that
the set of session slots is finite, that capacities are at least one, that
"none" is not one of the values, that requests are numbers (the backend's page
order), and for the router that the parties are distinct and a frame names its
sender.

- **Permits** (`TypeCorrect`, `PermitsAccounted`, `DrainIsBarrier`,
  `DKGIsExclusive`). `PoolInv` joins the types, the accounting and what a session
  has in `job` in each phase. It is inductive because a slot's occupation is
  counted by the set of sessions between acquisition and the step that gives it
  back; each action adds or removes one member. Exclusion of DKG sessions follows
  from the guard's capacity of one, the drain barrier from the general capacity.
- **Wakeups** (`WakeupsNotLost`), from `WakeInv`, which says where the token is
  while a release is under way.
- **Claims** (`SessionsReserved`, `ExecutedOnce`, `ClaimsNotAbandoned`,
  `RunExitsClean`). `SessionInv` ties reservations to live sessions; `ClaimInv`
  adds what each session knows about its own intent and what each claimed intent
  has in the way of a session.
- **Lifecycle** (`LifecycleTypeCorrect`, `LockHeldWhileWorking`,
  `DKGWaitsForResolution`, `ReadinessIsHonest`, `ReadinessStaysCleared`,
  `HealthIsHonest`). The inductive
  invariant has three parts: what main owns at each step (`OwnInv`), what opens the
  DKG gate (`GateInv`), and what a snapshot may offer (`ReadyInv`). The last is
  stronger than the property: every snapshot that a health request would refresh
  is already settled, and a publisher inside its second critical section excludes
  a main that is past `stopping`.

- **Pre-parameters** (`PoolBounded`, `RefillStaysPaused`, `SkippedSchedulerIsWoken`).
  The pool and the running generation together stay within the target
  (`PoolInv`), which the type alone does not give. `JobInv` says that one job at a
  time is between BeginJob's critical section and finishJob's, and that it holds
  the pause from Pause to Resume; this needs the resume to come before
  `jobActive` is cleared. The wakeup needs `PollInv`: a polling scheduler has not
  passed anything over yet.

- **Approval** (`JournalIsUnique`, `SentReceiptsAreSaved`,
  `AdmissionsRestOnEvidence`, `SavedHintsStay`, `RefinesLedger`). The journal has
  an invariant of its own, `JournalInv`: durable files are visible ones, and each
  record rests on a durable predecessor (receipt on admission, acknowledgement on
  receipt, binding on acknowledgement). One lemma per journal operation says that
  every outcome, failures included, keeps it and changes no durable file; a power
  loss does the same. `InHand` adds that the dispatcher sends only a receipt that
  is durable already, `HistoryInv` that everything sent or admitted in earlier
  lives still has its evidence. The refinement follows from the same lemmas: a
  step adds at most one entry to the ledger and rewrites none. `JournalIsUnique`
  needs that the half of the evidence an operator has not lost is durable and
  names the journal that was handed out (`PinnedInv`).
- **SIGN session** (`RunsInsideWindow`, `CompletionsAreTrue`, `LeavesResolved`,
  `MessagesInOrder`). `WindowInv` says that every copy of the session that shows
  a start shows the backend's, and that the armed budget ends the margin before
  that window; `RunInv` and `ResultInv` that the result is built after both
  joins, from values that no longer change. The order of messages needs that
  what was received and what is queued are the messages up to `afterSeq`
  (`QueueInv`), and that the page in hand is sorted, has no gap and goes on there
  (`PageInv`). Its head is then the next message and its tail goes on behind it
  (`FollowingDelivered`); sorting a page of consecutive numbers gives such a page
  (`SortedPage`).
- **DKG** (`CompletionIsOnDisk`, `NoClaimForgotten`, `WritesUnderLease`,
  `OneCompletion`, `RefinesOutcome`). `ProcessInv` says what the process holds at
  each place, `StoreInv` how far each party's artifact has come, `ResultInv` that
  every completion in hand, in flight or recorded rests on a durable pair,
  `OwnerInv` that the listing contains every claim. `OneCompletion` has the
  hypothesis `ReadFaults = FALSE`, as the run has: a startup that cannot read an
  artifact reports a failure. The other four need no such hypothesis.
- **Delays** (`RetriesBackOff`, `IdlePollsBackOff`, in `DKGProofs`), for every
  width, so for the 64 bits of the code. `CappedIsProduct` shows that the
  comparison by division makes the product safe: `cappedExponential` is the exact
  product cut at the maximum. Floats are exact ratios in the model; their rounding
  is not part of the result. The powers of two are a recursive function, and
  `Pow2Def` shows that its definition has a solution.
- **Router** (`FramesInOrder`, `LossIsSeen`, `ClosedStaysClosed`). The order is
  inductive only for the stream of received and queued frames together with the
  frames still coming (`OrderInv`); `LossInv` says where each recorded frame is.

Induction over naturals, which only the delays need, is done with a least
counterexample (`LeastNat`), since the provers cannot instantiate an induction
theorem whose parameter is an operator. Lemmas about sequences say what removing,
appending and sorting keep. Leaves without arithmetic name Zenon: most of them
are applications of a definition to a step, which it does faster than the SMT
solver.

The type invariants, and `OneDKGSession`, `OneSessionPerIntent`, `ExitIsClean`
and `SkippedIsWoken`, are established by these proofs alone; no run repeats them.

What is only model-checked is liveness: `PendingSignServed`,
`ShutdownCompletes`, `StopCompletes`, `ReceiptsDelivered`, `RequestsResolved`,
`FinishReturns`, `SessionEnds`, `ClaimResolved`, `SkippedIsRetried` and
`RefillResumes` hold on the instances above. The prover handles neither fairness
nor `ENABLED`.

## Disagreements between the code and its tests

1. *A confirmation hidden by Start* (`ConfirmationVisible`). Start reads
   `confirmed`, releases the mutex, and sets readiness later. If
   `publicationDone` runs in between, readiness says that the result is
   unconfirmed for the rest of the process, while DKG is admitted. The mirror
   image also exists: `publicationDone` may read the snapshot before Start sets
   it and write afterwards, which loses Start's process readiness.
2. *Admission reopened during Shutdown* (`AdmissionStaysClosed`).
   `publicationDone` sets admission between its critical sections. The effect is
   small, as the context is cancelled by then and no new batch is taken.

The tests that state the opposite run other orders of the same steps.

## Not modelled

- Byte formats, encryption, signing policy and wire contracts are pure data
  conversions; a decoded value is a model value, a failed check a Boolean.
- Metrics are written and never read by the program. Configuration is read once.
- The TSS library, the organization's evaluator and the backend are external and
  appear through the answers the code handles; HTTP status tables are left out.
- The flock call is a flag of `Lifecycle`. An operator who moves or deletes
  artifacts is not modelled, one who loses the journal or its marker is.
- `Lifecycle` and `Scheduler` are not composed: each sees the other through the
  few flags they share. `DKG` takes from them that one ceremony runs at a time and
  none before startup has resolved the previous one.
- An orphaned SIGN claim goes straight to delivery and is part of `Scheduler`
  only. The approval dispatcher is not an actor of `Lifecycle`.
