# TLA+ models of MIGI

Specifications, model-checking runs and machine-checked proofs of the program in
this repository: a local node that records what it does under an explicit authority
decision, chains its records by hash and rebuilds its state from them. TLC checks the
`.cfg` runs on small instances; TLAPS proves the theorems for every instance.

Contents: [1 Inventory](#1-inventory) · [2 Modules](#2-modules) ·
[3 Abstractions](#3-abstractions) · [4 Runs](#4-runs) · [5 Findings](#5-findings) ·
[6 Proofs](#6-proofs) · [7 Not modelled](#7-not-modelled) · [8 Plan](#8-plan)

## 1 Inventory

| Component (source) | State | Operations | What makes it correct |
|---|---|---|---|
| Receipt chain (`migi/storage.py`, `canonical.py`, `_make_receipt` in `genesis.py`) | table `receipt_chain`; the locals of each append | make a receipt, compare the head, insert, verify | rows whole and linked; the outcome told is the outcome stored; verified rows stay; one lineage when appends do not overlap |
| Authority guard (`authority.py`, `models.py`) | none | `evaluate` | only +1 allows; scopes of one action do not open another |
| Genesis node (`genesis.py`) | table `objects`; the progress of each handler run | `inspect_artifact`, `process_muef_event`, `replay_state`, `recall_artifact` | authority before effect; receipts that refer to what is there; each event decided once; answers that later replays repeat or fail |
| Replay (`replay.py`) | none | fold patches in the order of `occurred_at` | last writer wins; a pure function of the set of executed events |
| Event model (`events.py`) | none | `validate` | malformed events leave no trace |
| Code memory (`code_memory.py`) | objects of kind `code_artifact` | import, find, recall | what was told is stored; one artifact for each content; what was imported is recalled |
| Rust runtime (`Rust runtime`) | directories, cargo and program processes, coroutines | `execute_rust_code` | a call runs its own code; nothing is left behind unexplained; every call returns |
| CAMbus (`cambus.py`) | one TCP connection for each frame | `send_tcp`, `receive_one_tcp` | a frame whole or not at all; an exception that means something; a receive that ends |
| Claim runtime (`claim_runtime.py`) | `objects`, receipts | `qualify_claim`, `recall_claim` | as the Genesis node; what recall tells hangs together |
| Epistemics (`epistemics.py`) | none | `evaluate_evidence`, `validate_profile`, `qualify_factual_claim` | verified means factual, in profile and supported; weak evidence decides nothing; evidence moves the state its own way |
| API, command line (`api.py`, `cli.py`) | none | call the others | concurrency comes from here |

**How they interact.** The API's endpoints are plain functions, so FastAPI runs them in
a pool of threads; several command-line processes may share the database. All meet in
`GenesisStore`, which opens a new SQLite session for every call and holds no lock from
one call to the next. A handler is therefore a sequence of transactions (intent,
authority, execution, receipt, memory, replay), and `append_receipt` alone is two
of them. Events arrive over CAMbus with an id and an `occurred_at` chosen by the
sender, one connection for each, without acknowledgement. The Rust runtime and the code
memory do not touch the receipt chain.

**What is hard.** Steps of two handlers between each other's transactions; a handler
that dies half way; an event delivered twice or late; files that change between the
guard, the read and the verification; a replay or recall whose reads see several
stores; a connection that breaks or falls silent inside a frame; sums at a threshold;
coroutines that share a directory with each other and with processes that outlived
their timeout. `PROJECT.json` lists these hazards line by line, each with the
properties that watch it.

## 2 Modules

| Module | Models | EXTENDS / INSTANCE |
|---|---|---|
| `ChainLog` | abstract: an append-only log in which each receipt is logged or dropped | |
| `ReceiptChain` | `latest_receipt_hash`, `append_receipt`, `verify_chain`, the receipt's read of the head | refines `ChainLog` |
| `ChainAudit` | a table damaged in the file, then verified as `receipts()` shows it | `ReceiptChain` |
| `Authority` | `LUFITGuard.evaluate` as an operator | |
| `Replay` | `replay_verified_state`'s fold and the canonical JSON's refusal of floats | |
| `CAMbus` | `send_tcp` and `receive_one_tcp` over connections that break, up to the replay of what arrived | `Replay` |
| `EventLedger` | abstract: each event unseen, pending, then executed, withheld or abandoned for ever, in a record that replays can read or, after a fork, no longer can | |
| `GenesisNode` | the node and the claim runtime: all handlers, step by step, over store, chain and files | `ReceiptChain`, `Replay`, INSTANCE `Authority`; refines `EventLedger`, `ChainLog` |
| `RustRunner` | `execute_rust_code` on one event loop, with cargo and programs as processes | |
| `CodeMemory` | `import_fenced_text`, `ingest`, `find_exact`, `recall` | |
| `Epistemics` | the evaluation inside `qualify_claim`: evidence, profile, qualification | |
| `ReceiptChainProofs`, `ChainAuditProofs` | theorems: the receipt table; damage to it | their module; the second also the first |
| `GenesisNodeProofs`, `GenesisReplayProofs` | theorems: what the node leaves behind; what it answers | `GenesisNode`, `ReceiptChainProofs`; the second also the first |
| `CAMbusProofs`, `CodeMemoryProofs`, `RustRunnerProofs`, `EpistemicsProofs` | theorems about the module they are named after | that module |
| `MC…` | the instances TLC checks | |

**ReceiptChain.** `chain` is the table in order of `sequence`, `pc` says how far each
receipt has come, `ref` is its `previous_receipt_ref` and `prev` the local `previous`
of its append. `MakeReceipt` is `_make_receipt`, `CheckHead` and `RefuseReceipt` are
the comparison in `append_receipt` (storage.py:93-96), `InsertReceipt` the insert,
`LoseReceipt` the death of the process or an SQLite error before it. A row is named by
its receipt; the column `receipt_id`, a copy that no code reads back, is only in `Row`.

**ChainAudit.** `file` is the table in the database file, `chain` what the node wrote.
`verify_chain` looks at neither but at `Receipts(file)`: `receipts()` spreads a row's
payload over its columns, so a payload that has a key `receipt_hash` or
`previous_receipt_hash` hides the column of that name, and `verify_chain` takes these
two and `sequence` away before it computes the digest. `extra` is what a stored payload
has of the three; the node never writes any.

**GenesisNode.** A run is one call of a handler and issues at most one receipt, by
which it is named. `run[j].at` says which transaction comes next; `objects` holds the
stored objects by kind. The steps of a run:

    inspect_artifact     RequestInspection, DecideAuthority, HashFile, StoreArtifact,
                         VerifyFile, ReceiptExecution, AppendReceipt x2, StoreMemory
                         (FileGone where a read raises FileNotFoundError)
    process_muef_event   ReceiveEvent | RejectEvent, RecordPatchIntent,
                         DecideAuthority, ExecutePatch, ReceiptExecution,
                         AppendReceipt x2, StoreMemory, then as replay_state
    qualify_claim        RequestQualification | RejectQualification,
                         DecideAuthority, QualifyClaim, ReceiptExecution,
                         AppendReceipt x2, StoreMemory
                         (FailQualification where an evaluation raises)
    held or denied       DecideAuthority, ReceiptNonExecution, AppendReceipt x2,
                         StoreMemory
    replay_state         StartReplay, VerifyForReplay | RefuseReplay, IndexReceipts,
                         AnswerReplay | FailReplay
    recall_artifact      StartRecall, LocateArtifact, RecallArtifact x2 (receipts,
                         then memories), FinishRecall
    recall_claim         StartRecall, LocateClaim, RecallClaim x2 (memories, then
                         receipts), FinishRecall

`AppendReceipt` is built from the very actions of `ReceiptChain`, so the chain of the
node takes exactly that module's steps. `LoseRun` ends a run before any of its steps,
`ChangeFile` is the rest of the world. `Executed` are the events that a replay
of the store as it is would apply if it answers, and `ReplayAnswers` says whether it
does: a forked table or a float in the state makes it raise.

**RustRunner.** A coroutine is suspended only while it waits for a subprocess, so all it
does between two waits is one action; `CargoReads`, `CargoSucceeds`, `CargoFails` and
`ProgramEnds` are the processes, which go on after a timeout since nothing kills them.
`FailToExecute` is a program that cannot be started. `cleanup_workspace` swallows every
failure of `rmtree`, so a workspace that more than the event loop has written in
(`OutOfHand`) may remain, whole or in part. Every call makes its own `RustRunner`, whose
counter is 0, hence `WorkspaceName == second`.

**CodeMemory.** One action each for `CodeArtifact.create`, `find_exact` (both
outcomes) and `put`; `serial` is chosen at the start and says whether the clients of
this database take turns. `Recall` is `recall`: filters (`Hits`), scores, order and
limit. It reads in one transaction and is made once, when no import runs; a store with
a running import is one in which that import has just died.

**CAMbus.** `conn` is the sending end of each `send_tcp` and `recv` the receiving end
of each `receive_one_tcp`; between them are `backlog`, connections not yet accepted,
`arrived`, the units that have come out of the network (`Deliver`), and `reset`, the
connections that broke. `SendTcp`, `PushUnit` and `FailToSend` are the sender,
`Accept`, `RecvChunk`, `StreamEnds` and the two timeouts the receiver, which asks for
the rest of the header first and then for the rest of the payload. `Process…` is
`process_muef_event` in outline: the event takes effect, is stored without effect, or
is refused because its id is taken. Sending the same event again is a second
`SendTcp`. `ArriveLocally` is an event that did not come over the bus. The replayed
state is `Materialize` of what has taken effect, at any moment: the last value of
`StateBefore`, the recursive function that goes through the events in the order of
occurrence.

**Epistemics.** One call: `StartEvaluation`, `WeighItem` for each piece of evidence
(`RefuseItem` where one is out of range), `Assess`, `CheckProfile` or
`RefuseProfile`, `Qualify`. In `GenesisNode` all of it is one step, `QualifyClaim`, or
`FailQualification` where it raises: it touches neither store nor files.

## 3 Abstractions

- *Digests.* SHA-256 is taken to be injective, so a digest is the sequence of receipts
  that it commits to: `ChainedHash(previous, r) == Append(previous, r)`.
- *Ids.* `new_id` never repeats, so the objects a run makes are named by the run.
  Only event ids come from outside, and those do repeat.
- *Transactions.* One `GenesisStore` call is one atomic step. SQLite's write lock is
  not visible between sessions, apart from "database is locked", which is one of the
  ways a run is lost.
- *Time.* `occurred_at` is a string nobody validates, so events are numbered in the text
  order of `(occurred_at, event_id)`, which need not be that of any clock. `observed_at`
  of the artifacts and `created_at` of the code memory are the wall clock, which may
  repeat and go back, and ties are broken by random ids: an artifact gets any free
  `place`. The Rust runtime's clock is in whole seconds and bounded by `MaxSecond`.
- *Frames.* A frame is `HeaderLen` and then `PayloadLen` units; every way of cutting
  it into chunks is tried. A timeout of `recv` is possible whenever nothing has arrived
  that was not yet read, also when the sender has sent everything and closed.
- *Floats.* Signals are integers over `Scale`, so sums are exact. The code adds
  doubles: where the exact score equals the threshold, or the exact weight `Negligible`,
  which is 2^-52, `States` allows either side.
  The thirds of the ignorance baseline cancel in the score, which is the difference of
  the sums over `Base`, the larger of the evidence's weight and the reference weight.
- *Text.* Whether a query's token occurs in a content, a language or a label is the
  relation `OccursIn`.
- *The workspace.* Programs write only below the directory they run in; that `rmtree`
  fails in a directory which the event loop alone has written is left out.
- *Values.* A patch maps keys to values, floats and null. A file has one of two
  contents, or is missing. The fields that `validate` looks at are one set,
  `WellFormed`.
- *Deaths.* `Faults` lets a run die before any step. A death between a transaction
  and its return is the death before the next step.

## 4 Runs

Bounds are in the `.cfg` files and the `MC` modules. Deadlock is not checked, because
each instance has finitely many calls, after which the system rightly stops.

| Run | Instance | What it shows |
|---|---|---|
| `chain_concurrent` | 4 receipts, overlapping, faults | rows whole and linked to an earlier row (`Linkage`), told = stored (`AppendedOnce`), a refusal can never be retried (`RefusalIsFinal`), what `verify_chain` accepted stays (`VerifiedPrefixKept`), a fork is never repaired (`ForkIsForever`) |
| `chain_audit` | up to 3 rows, one or two damages of any kind: a column or a payload edited, with any of the three stripped keys, a row lost, rows swapped | a reader who kept the head: a table that `verify_chain` accepts with that head has the receipts that were written, in their order (`AuditFindsDamage`); one who did not, after one damage: the receipts counted as checked are the written ones, except perhaps the last (`AuditCountsIntactRows`) |
| `cambus_replay` | 2 sends of one event or two, 2 receives, frames of 1 + 2 units, one local event; and 3 local events with all patches over 2 keys with null and float, in all orders | last writer wins by occurrence whatever the order of arrival (`LastWriterWins`); a send that raised has delivered nothing (`FailureIsDefinite`); what came over the bus can be hashed (`RemoteStateHashes`); a receive ends; a frame that has arrived whole is processed unless its connection breaks (`ArrivedFramesAreProcessed`) |
| `node_patches` | 3 overlapping runs out of 4 deliveries (one event both with and without scope) and replays, faults | one receipt for each output; what a replay told as applied every later replay applies, or it raises (`AnswersStand`); an answer covers the head returned with it and shows the caller's own event; the node implements `EventLedger` |
| `node_files` | 2 overlapping runs out of inspections inside and outside, a claim, two events and recalls; one change of a file; faults, fair | no read, artifact or execution without a stored +1; no dangling reference from a receipt or memory, wherever a run died; a recall's history is complete and a claim's memories are in it (`RecallIsGrounded`); an allowed event gets its executed receipt unless its run dies or is refused (`AllowedEventsAreExecuted`) |
| `node_serial` | 3 runs of any kind (events good, float and malformed, inspection, claim with and without scope, replay), one at a time, faults, one change of a file | types; `verify_chain` accepts the chain and it implements `ChainLog`; the head returned by a replay commits to every event in its answer |
| `claim_evaluation` | up to 3 of 27 pieces of evidence, 5 thresholds, 8 profiles, 24 requirements, `Scale` 2, `Negligible` 3 | supported or contradicted means in profile, not simulated and not outweighed (`VerifiedIsFactual`); evidence below the threshold's share of the reference weight decides nothing (`WeakEvidenceIsUnresolved`); one more item moves the state its own way, unless earlier evidence was taken for none and the threshold is as low as that |
| `rust_calls` | 2 calls, one of broken code, 2 seconds, fair | a call begun in a second of its own runs its own code; what outlives a call was reported as a timeout; a workspace that stays is explained; every call returns |
| `code_imports` | 3 imports out of 4 texts sharing contents, turns or overlap, faults, a clock of 2 values; then one of 4 queries | what was told is stored; with turns, one artifact for each content, also after broken-off imports; what an import was told of is recalled by the queries it satisfies, unless the limit's worth of others score no less (`ImportsAreRecalled`) |
| `chain_fork`, `node_float`, `rust_same_second` | | counterexamples, section 5 |

**Are the bounds enough?** A fork needs two appends. Four receipts add rows behind the
fork, a refusal and a loss. Three audited rows have a first, a middle and a newest one;
the second damage can complete what the first began, as an edit of a payload and one of
the next row's column. The interesting overlaps of node runs are between two (delivery
and delivery, delivery and replay); the third run is the late observer. Three events
over two keys have all relations of writers of a key: none, one, overwritten, deleted,
late. One change of a file can fall into each of the three windows between guard, read
and verification. Two calls in two seconds are in the same second or not. Two sends and
two receives have every pairing: one event sent twice, two events out of order, a
receive for a broken connection beside a whole one; three units let the header be whole
and the payload cut. Three items suffice for sums that meet, cross and leave a threshold
at `Scale` 2, and weights of 1, 2, 4 and 8 lie on both sides of `Negligible`, which at
this scale is of course far more than 2^-52. Every action and every disjunct is taken in
some passing run, and for every property a plausible slip in the code, the `mutants` of
`PROJECT.json`, makes its run fail.

**Fairness.** Only what runs by itself is fair. `FairNodeSpec`: a
thread whose handler has begun keeps running (weak fairness of its steps; nothing in a
step waits for another run). `FairRustSpec`: the event loop resumes a coroutine when
its subprocess ended or its timer ran out. `FairCamSpec`: a receiving thread runs on
and its timeouts expire; the sender owes nothing, not even the rest of a frame.
Clients, the network, faults, file changes, cargo and
programs have no fairness.

**Symmetry** is used only in runs without liveness.

## 5 Findings

- `chain_fork` — *the chain can fork* (storage.py:95). Check and insert are two
  sessions; two overlapping appends both pass the check and both insert. `verify_chain`
  then reports `stored_previous_mismatch` for good (`ForkIsForever`) and every later
  replay raises, although every event keeps its executed receipt. With one append at a
  time this cannot happen (`SerialChainIsValid`, proved).
- `node_float` — *a float stops replay* (replay.py:67). Patch values are not checked;
  `canonical_json_bytes` forbids floats. The event is stored, executed and receipted,
  and then `state_hash` raises in every replay until the key is overwritten.
- `rust_same_second` — *workspaces are shared* (Rust runtime:160). Calls in the same
  second use one directory, and one may run the other's code.

Consequences of the code that the passing runs take into account and no run singles
out, since no document says otherwise:

- a refused receipt leaves an execution stored without receipt (an event's id is then
  taken, so it cannot be sent again: `abandoned` in `EventLedger`);
- a replay may answer although the chain forks between its reads;
- no digest commits to the column `receipt_id`, nor to keys `sequence`, `receipt_hash`
  and `previous_receipt_hash` of a payload, so a file changed there may still verify; the
  last row it counts as checked may have another payload if that brings
  its own `receipt_hash`, and the loss of the newest row shows only to a reader who
  remembers the head;
- recall by path names the oldest artifact of the path, receipted or not: after an
  inspection that died between artifact and receipt the path recalls an empty history;
  and since oldest is by the wall clock, a path may come to name another artifact when
  the clock ties or goes back;
- the memories in an artifact's recall may be newer than the history beside them
  (`recall_artifact` reads them last, `recall_claim` first);
- a `send_tcp` that returned may not have delivered, also when no connection broke: a
  frame still on its way is given up when `recv` has waited its five seconds;
- a workspace stays for good when `rmtree` fails, as it may where a program wrote that
  outlived its timeout or left something undeletable;
- overlapping imports may store a content twice, and a second import of a content gets
  the artifact of the first, with its language, source and tags;
- one more item of *partial* support can take a claim from supported to unresolved: it
  adds to the unresolved mass, too; and at a threshold of 2^-52 or less an item of *full*
  support can take it from unresolved to contradicted, when it lifts the weight over
  2^-52 and with that lets earlier contradiction count (epistemics.py:221).

## 6 Proofs

Every invariant, action property and refinement that a passing run checks is also a
theorem, for all values of the constants. TLC alone answers for the four liveness
properties: `AllowedEventsAreExecuted`, `EveryReceiveEnds`, `ArrivedFramesAreProcessed`
and `EveryCallReturns`. The prover has neither fairness nor ENABLED.

The assumptions are the named `ASSUME`s of the modules, which TLC evaluates in the runs.
They give constants their kind (requests have the shapes of the handlers' parameters,
files differ from the missing one, frames have a positive length, a query's limit and a
profile's figures are integers) and nothing about sizes, except that `Event`, the
events of a behaviour, is finite. Theorems marked *serial* have the hypothesis `Serial`, one
call at a time, without which the table may fork (section 5).

### The receipt table

| Theorem | States |
|---|---|
| `ChainTypeCorrect` | `ChainSpec => []ChainTypeOK` |
| `RowsAreLinked` | `ChainSpec => []Linkage` |
| `RefusalStands` | `ChainSpec => []RefusalIsFinal` |
| `AppendsAreRows` | `ChainSpec => []AppendedOnce` |
| `VerifiedRowsStay` | `ChainSpec => VerifiedPrefixKept`, an action property |
| `ForksStay` | `ChainSpec => ForkIsForever`, an action property |
| `SerialChainIsValid` | serial: `ChainSpec => []ChainValid` |
| `SerialNeverRefuses` | serial: `ChainSpec => []NeverRefused` |
| `SerialChainImplementsLog` | serial: `ChainSpec => Log!LogSpec`, the refinement |
| `VerificationFindsDamage` | `AuditSpec => []AuditFindsDamage` |
| `CheckedRowsAreIntact` | `AuditSpec => []AuditCountsIntactRows` |

None of the safety properties is inductive alone. *Overlapping appends* need
`ChainInv`: types, `Linkage`, `RefusalIsFinal`, and two facts the code never states.
`RowsAreAppends` says that rows belong to appended receipts, one each; since digests
commit to their last receipt, no two rows have one digest, and so no head comes back:
that is why a refusal is final. `ReadsAreOfRows` says that a hash some run still holds
is the hash of a row or of none, and that its two reads agree: that is why the new row
is linked. The lemmas go action by action; the insert is the long one. The two action
properties follow from what an added row does to the first row that does not fit
(`BadRowsAppend`): nothing if there is one, and at most it becomes that row itself.

*One append at a time* needs `SerialInv` on top: at most one receipt is in flight
(`OneInFlight`), the head it has read is still the head (`HeadIsRead`), and every row
passes `verify_chain` (`RowsAreLinear`). The refinement maps the head digest to the
log and `pc` to what the issuer was told; an insert is `Log`, a refusal or loss is
`Drop`, the rest stutters.

*Damage.* The first theorem needs no case split: in a table that verifies the digest of
row `k` commits to the `k` receipts up to it (`HeadIsHashed`), so two tables that verify
with one head hash the same receipts, however the file came to be; and the table the
node wrote verifies, by `SerialInv`. The second goes by the kind of the one damage
(`ColumnEdit`, `PayloadEdit`, `MovedRow`): either the receipts before some row are
untouched and that row does not fit, or it is a column that the payload does not repeat,
or the payload has brought its digest along.

### The node

| Theorem | States |
|---|---|
| `NodeImplementsReceiptChain` | `NodeSpec => ChainSpec` |
| `NodeReceiptsAreSound` | `NodeSpec => [](Linkage /\ AppendedOnce /\ RefusalIsFinal)` |
| `SerialNodeChainIsValid` | serial: `NodeSpec => []ChainValid` |
| `SerialNodeImplementsLog` | serial: `NodeSpec` implements `ChainLog` |
| `NodeTypeCorrect` | `NodeSpec => []NodeTypeOK` |
| `AuthorityComesFirst` | `NodeSpec => []AuthorityPrecedesEffect` |
| `ReceiptsAreTrue` | `NodeSpec => []ReceiptsTellTheTruth` |
| `OutputsHaveOneReceipt` | `NodeSpec => []OneReceiptPerOutput` |
| `RecallIsComplete` | `NodeSpec => []RecallIsGrounded` |
| `AnswersAreKept` | `NodeSpec => []AnswersStand` |
| `StateIsNoOlderThanHead` | `NodeSpec => []AnswerCoversHead` |
| `AnswerShowsOwnEvent` | `NodeSpec => []ReadsItsOwnEvent` |
| `StateIsNoNewerThanHead` | serial: `NodeSpec => []HeadCoversAnswer` |
| `NodeImplementsEventLedger` | `NodeSpec => ImplementsEventLedger`, the refinement |

Each step of the node, recalls included, either leaves the receipt table alone or is a
step of `ReceiptChain` (`NodeStepRefines`), so the first four carry over what was proved
of the table. The type invariant goes action by action, with one lemma for each way a
step writes the store (`StoreUpdate`) or a run's locals (`RunUpdate`).

`AuthorityPrecedesEffect` is not inductive: the guard could decide again after an
effect. `AuthorityInv` adds where a run is: up to `intent_stored` it has had no effect,
there its intent is in the store, and from `hashed` to `artifact_stored` its decision
is +1. A step of one run changes nothing of another's (`OtherRuns`), so three lemmas
remain: the decision, the steps with an effect, all of which have seen +1, and the
rest.

*What the node leaves behind* rests on `RecordInv`, which says of each run where its
receipt is (`PhaseOf`), what it has stored so far (`ProgressOf`) and, from the moment the
receipt is made, that it says just that (`TruthOf`); and that an event has one owner
(`OneOwner`), since its id is a primary key. A row is of an appended receipt, one of a
run that has gone through all its stores: hence `ReceiptsTellTheTruth`. Two rows about
one event are of one run, and that run has one row: hence `OneReceiptPerOutput`.
`RecallInv` adds what a recall has read so far, and holds because nothing
it reads is ever removed.

*What it answers.* `ReplayInv` says that the head a replay has read has its whole lineage in
the table, that what it has indexed is executed, and that everything behind the head is
among it: the head is read first and the table only grows. With one call at a time, at
most one run is running (`OneRunning`), so the head is still the newest at the index
(`FreshInv`).

*The ledger.* `LedgerView` says that the fate of an event is that of the run that owns
it (`FateBy`). Storing an event is `Accept`, a decision of +1 is `Authorize`, the insert
of the event's receipt is `Execute` or `Withhold`, that of any other `ReceiptOther`, a
loss or a refused receipt is `Abandon`; all other steps stutter. `readable` is
`verify_chain`'s answer, which only an append changes (`OnlyAppendsGrow`) and only to
false (`ReadableFalls`, from `ForksStay`).

### The other components

| Theorem | States |
|---|---|
| `FailedSendsDeliverNothing` | `CamSpec => []FailureIsDefinite` |
| `ReplayForgetsArrivalOrder` | `CamSpec => []LastWriterWins` |
| `RemoteStatesCanBeHashed` | `CamSpec => []RemoteStateHashes` |
| `CodeTypeCorrect` | `CodeSpec => []CodeTypeOK` |
| `ToldIsStored` | `CodeSpec => []AnswersAreFindable` |
| `ContentIsStoredOnce` | `CodeSpec => []OneArtifactPerContent` |
| `ToldIsRecalled` | `CodeSpec => ImportsAreRecalled`, an action property |
| `RustTypeCorrect` | `RustSpec => []RustTypeOK` |
| `OrphansHaveTimedOut` | `RustSpec => []OrphansAreTimeouts` |
| `LeaksHaveReasons` | `RustSpec => []LeaksAreExplained` |
| `LoneCallsRunTheirCode` | `RustSpec => []ExecutesItsOwnCode` |
| `VerdictsAreFactual` | `ClaimSpec => []VerifiedIsFactual` |
| `WeakEvidenceDecidesNothing` | `ClaimSpec => []WeakEvidenceIsUnresolved` |
| `EvidencePullsItsWay` | `ClaimSpec => EvidenceMovesTheStateItsWay`, an action property |

*CAMbus.* `EndsInv` relates the two ends: a connection is `sent` exactly when all its
units are pushed, a receiver has no more than was pushed, and one that goes on to
process has the whole frame; no more has arrived than was pushed. A sender that failed
has pushed less, whence `FailureIsDefinite`. `ReplayInv` adds that what left a sender
was encodable, and so is every applied event that only the bus can bring.

*The fold.* `StateBefore` is defined by recursion over the numbers and the prover has no
induction rule it can instantiate here, so the argument is by least counterexamples
(`LeastElement`, from the well-foundedness of `<`). There is a fold up to each place
(`FoldsExist`) and two folds agree where both are defined (`FoldsAgree`), so their
diagonal solves the recursion and `StateBefore` satisfies it (`StateBeforeUnfolds`).
Then there is no first place at which the state is not what the last writer of a key
says (`EveryPlaceShowsLastWriter`).

*Code memory.* `ImportInv`: an import answers its blocks in order, its draft is of the
block that is next, and what it has been told is stored; nothing is ever removed. For
`OneArtifactPerContent`, `SerialInv`: at most one import runs, and what it is about to
put is not there. A recall that leaves a fitting artifact out has taken a limit's worth
of others from the front of a list sorted by score.

*Rust runtime.* `StageInv` says how far a call and its processes have come together: a
process of a returned call was given up at its timeout. `CodeInv` says that a
workspace, and what cargo and a program have taken from it, holds only code of calls
that use that workspace (`Users`); for a call that is alone in its second this is its
own.

*Epistemics.* `ClaimInv` says that the state is one of the evidence's `States`, the
violations are those of the claim, and the qualification that of both. The rest is
arithmetic of products, made explicit since SMT does little with it: the net mass times
`Scale` against the threshold times the base, where the weight is not negligible
(`StatesByScore`); where it is, the state is 0, which the score would have said too
if the threshold is above 2^-52 (`Counts`). One item of full direction adds its whole
weight to one side and raises the bound by no more than the threshold's share of it
(`PureItem`, `BoundGrows`).

## 7 Not modelled

- The text of SQL, JSON, HTTP, command-line output and Cargo.toml; `status()`; SQLite's
  own durability.
- The snippets of `CodeMemory.recall`, fence parsing and the language tables.
- The figures an assessment reports besides its Tre state (confidence, uncertainty,
  probabilities), and `rag0shot_score` and `rank_candidates`, which only benchmarks and
  tests call.
- That `QualifyClaim` in `GenesisNode` stores what `Epistemics` comes to: receipts of
  claims say `derived` whatever the qualification is, so no step of the node looks.
- A damaged file that is no longer one of receipts (a payload that is not JSON or has no
  `previous_receipt_ref`), at which `verify_chain` raises, and rows put in by others.
- CAMbus packets that its own sender cannot make (too large, malformed, of another
  protocol version), and the QoS fields, on which the code does not act. In particular
  `decode_packet` accepts a float in a patch, `encode_packet` does not: that remote
  events can be hashed (`RemoteStateHashes`) holds of this repository's sender only.
- Recall by SHA-256, file name or artifact id, which differ from recall by path in what
  they match only; `verify_chain` in the answers of recalls, returned as it is.
- `benchmarks/` (drivers of the claim runtime), `schemas/`, `docs/`, `provenance/`, and
  the prose files at the top (`Mvp Stack`, `Systems Design`, `build `,
  `repository organization `, `sophons `, `💠 super-project`): no program behind them.

## 8 Plan

The modules planned for this code are written: `ReceiptChain`, `ChainAudit`,
`GenesisNode` with `Authority`, `Replay` and the abstract modules, `CAMbus`,
`Epistemics`, `CodeMemory`, `RustRunner`. Every safety property and refinement that a
run checks is proved. What could still be added, most important first:

1. *The guard*: that only an action's own scopes and targets allow it, as a theorem
   about `Authority` and every request of the node.
2. *The node*: that chain rows of one serial history are in the order in which the
   ledger settles events, which joins the two refinements.
3. *Code memory*: that overlapping imports store a content at most once for each import.
4. *Rust runtime*: that `WorkspacesAreIsolated`, which `rust_same_second` refutes, holds
   when all calls begin in different seconds.
