-------------------------- MODULE GenesisReplayProofs ---------------------------
(***************************************************************************)
(* Theorems about what GenesisNode answers, for every set of requests,     *)
(* events, files and runs: what a replay has told no later one contradicts,*)
(* it is no older than the head told with it and shows the caller's event; *)
(* with one call at a time it is no newer than that head, either. Last,    *)
(* the node implements EventLedger.                                        *)
(***************************************************************************)
EXTENDS GenesisNodeProofs

(* The run whose receipt says that an event was executed. *)
ExecutedBy(k, e) ==
    pc[k] = "appended" /\ Op(k) = "state.patch" /\ EventOf(k) = e /\ Allowed(k)

(* What a run has read for a replay: a head with its lineage in the table, *)
(* events with executed receipts, all of those behind the head among them, *)
(* and its own event, if it came with one.                                 *)
ReplayOf(j) ==
    /\ \A i \in DOMAIN run[j].view.head : pc[run[j].view.head[i]] = "appended"
    /\ run[j].view.refs \subseteq Executed
    /\ run[j].view.applied \subseteq run[j].view.refs
    /\ run[j].at = "indexed" \/ Answered(j) =>
         /\ EventsBehind(run[j].view.head) \subseteq run[j].view.refs
         /\ Op(j) = "state.patch" /\ Allowed(j) => EventOf(j) \in run[j].view.refs
    /\ Answered(j) => run[j].view.applied = run[j].view.refs

ReplayInv == \A j \in Job : ReplayOf(j)

-----------------------------------------------------------------------------
(* An executed receipt about an event is one of a run that was allowed to  *)
(* patch the state with it.                                                *)
LEMMA ExecutedEvent ==
    ASSUME RecordInv, NEW k \in Job, pc[k] = "appended", NEW e \in Event,
           run[k].payload.source_class = "executed", OutputRef(k) = <<"event", e>>
    PROVE  ExecutedBy(k, e)
<1>1. RecordOf(k)
  BY DEF RecordInv
<1>2. Op(k) = "state.patch"
  <2>1. Op(k) = "claim.qualify" => OutputRef(k)[1] = "claim"
    BY <1>1, OutputOf
  <2>2. Op(k) = "artifact.inspect" => OutputRef(k)[1] \in {"artifact", "authority"}
    BY <1>1, OutputOf
  <2>3. OutputRef(k)[1] = "event"
    OBVIOUS
  <2> QED
    BY <1>1, <2>1, <2>2, <2>3, OutputOf DEF RecordedOps
<1>3. EventOf(k) = e
  BY <1>1, <1>2, OutputOf
<1>4. Allowed(k)
  BY <1>1 DEF RecordOf, TruthOf
<1> QED
  BY <1>2, <1>3, <1>4 DEF ExecutedBy

(* And the other way round. *)
LEMMA PatchReceipt ==
    ASSUME RecordInv, NEW k \in Job, NEW e \in Event, ExecutedBy(k, e)
    PROVE  /\ run[k].payload.source_class = "executed"
           /\ run[k].payload.tre_logic = "+1"
           /\ OutputRef(k) = <<"event", e>>
           /\ e \in objects.muef_event
           /\ Owns(k, e)
<1>1. RecordOf(k)
  BY DEF RecordInv
<1>2. OutputRef(k) = <<"event", e>> /\ run[k].at # "rejected"
  BY <1>1, OutputOf DEF ExecutedBy
<1> QED
  BY <1>1, <1>2 DEF ExecutedBy, RecordOf, TruthOf, ProgressOf, ExecutedClass, Allowed,
     A!Allowed, Owns

(* What replay's index names are the executed events, all of them stored.  *)

LEMMA ExecutedEvents ==
    ASSUME RecordInv, ChainInv
    PROVE  /\ \A e \in Event : e \in Executed <=> \E k \in Job : ExecutedBy(k, e)
           /\ EventRefs(ExecutedRefs(chain)) = Executed
           /\ Executed \subseteq Event /\ Executed \subseteq objects.muef_event
<1>1. ASSUME NEW e \in Event, <<"event", e>> \in ExecutedRefs(chain)
      PROVE  \E k \in Job : ExecutedBy(k, e)
  <2>1. PICK i \in DOMAIN chain :
           /\ OutputRef(chain[i].receipt) = <<"event", e>>
           /\ run[chain[i].receipt].payload.source_class = "executed"
    BY <1>1 DEF ExecutedRefs
  <2>2. chain[i].receipt \in Job /\ pc[chain[i].receipt] = "appended"
    BY RowOfRun
  <2> QED
    BY <2>1, <2>2, ExecutedEvent
<1>2. ASSUME NEW e \in Event, NEW k \in Job, ExecutedBy(k, e)
      PROVE  <<"event", e>> \in ExecutedRefs(chain) /\ e \in objects.muef_event
  <2>1. PICK i \in DOMAIN chain : chain[i].receipt = k
    BY <1>2 DEF ChainInv, RowsAreAppends, ExecutedBy, Job
  <2>2. /\ run[k].payload.source_class = "executed" /\ run[k].payload.tre_logic = "+1"
        /\ OutputRef(k) = <<"event", e>> /\ e \in objects.muef_event
    BY <1>2, PatchReceipt
  <2> QED
    BY <2>1, <2>2 DEF ExecutedRefs
<1>3. \A e \in Event : <<"event", e>> \in ExecutedRefs(chain) <=> \E k \in Job : ExecutedBy(k, e)
  BY <1>1, <1>2
<1>4. \A e \in Event : <<"event", e>> \in ExecutedRefs(chain) => e \in objects.muef_event
  BY <1>1, <1>2
<1> QED
  BY <1>3, <1>4 DEF Executed, EventRefs

(* The same of the state after a step. *)
LEMMA ExecutedThen ==
    (RecordInv /\ ChainInv => \A e \in Event : (\E k \in Job : ExecutedBy(k, e)) => e \in Executed)'
<1>1. RecordInv /\ ChainInv =>
        \A e \in Event : (\E k \in Job : ExecutedBy(k, e)) => e \in Executed
  BY ExecutedEvents
<1> QED
  BY <1>1, PTL

(* Every event behind a head whose receipts are in the table is executed.  *)
LEMMA BehindIsExecuted ==
    ASSUME RecordInv, ChainInv, NEW head \in Hash,
           \A i \in DOMAIN head : pc[head[i]] = "appended"
    PROVE  EventsBehind(head) \subseteq Executed
<1> SUFFICES ASSUME NEW e \in EventsBehind(head) PROVE e \in Executed
  OBVIOUS
<1>1. e \in Event /\ \E i \in DOMAIN head :
        OutputRef(head[i]) = <<"event", e>>
          /\ run[head[i]].payload.source_class = "executed"
  BY DEF EventsBehind, EventRefs
<1>2. PICK i \in DOMAIN head :
        OutputRef(head[i]) = <<"event", e>>
          /\ run[head[i]].payload.source_class = "executed"
  BY <1>1
<1>3. head[i] \in Job
  BY DEF Hash, Job
<1>4. ExecutedBy(head[i], e)
  BY <1>1, <1>2, <1>3, ExecutedEvent
<1> QED
  BY <1>1, <1>3, <1>4, ExecutedEvents

(* No step takes an event's receipt back, and the events behind a head     *)
(* stay the same.                                                          *)
LEMMA ExecutedStays ==
    ASSUME RecordInv, ChainInv, RecordInv', ChainInv', [NodeNext]_nodeVars
    PROVE  /\ Executed \subseteq Executed'
           /\ \A head \in Hash :
                (\A i \in DOMAIN head : pc[head[i]] = "appended") =>
                  EventsBehind(head)' = EventsBehind(head)
<1>1. ASSUME NEW e \in Event, NEW k \in Job, ExecutedBy(k, e) PROVE ExecutedBy(k, e)'
  BY <1>1, ReceiptsStay DEF ExecutedBy, Op, EventOf, Allowed, Decision
<1>2. \A e \in Event : e \in Executed => \E k \in Job : ExecutedBy(k, e)
  BY ExecutedEvents
<1>3. \A e \in Event : (\E k \in Job : ExecutedBy(k, e)') => e \in Executed'
  BY ExecutedThen
<1>4. Executed \subseteq Executed'
  BY <1>1, <1>2, <1>3, ExecutedEvents
<1>5. ASSUME NEW head \in Hash, \A i \in DOMAIN head : pc[head[i]] = "appended"
      PROVE  EventsBehind(head)' = EventsBehind(head)
  <2>1. \A i \in DOMAIN head : head[i] \in Job
    BY DEF Hash, Job
  <2>2. \A i \in DOMAIN head : run'[head[i]].payload = run[head[i]].payload
    BY <1>5, <2>1, ReceiptsStay
  <2>3. \A e \in Event : e \in EventsBehind(head)' <=>
          \E i \in DOMAIN head :
            <<"event", e>> = run'[head[i]].payload.output_ref
              /\ run'[head[i]].payload.source_class = "executed"
    BY DEF EventsBehind, EventRefs, OutputRef
  <2>4. \A e \in Event : e \in EventsBehind(head) <=>
          \E i \in DOMAIN head :
            <<"event", e>> = run[head[i]].payload.output_ref
              /\ run[head[i]].payload.source_class = "executed"
    BY DEF EventsBehind, EventRefs, OutputRef
  <2>5. EventsBehind(head) \subseteq Event /\ EventsBehind(head)' \subseteq Event
    BY DEF EventsBehind, EventRefs
  <2>6. \A e \in Event : e \in EventsBehind(head)' <=> e \in EventsBehind(head)
    BY <2>2, <2>3, <2>4
  <2> QED
    BY <2>5, <2>6
<1> QED
  BY <1>4, <1>5

-----------------------------------------------------------------------------
LEMMA InitReplay == NodeInit => ReplayInv
<1> SUFFICES ASSUME NodeInit, NEW j \in Job PROVE ReplayOf(j)
  BY DEF ReplayInv
<1>1. run[j].view = NoView /\ run[j].at = "new"
  BY DEF NodeInit
<1>2. NoView.head = <<>> /\ NoView.refs = {} /\ NoView.applied = {}
  BY DEF NoView, NoHash
<1> QED
  BY <1>1, <1>2 DEF ReplayOf, Answered

(* The steps that are not replay's. *)
LEMMA QuietReplay ==
    ASSUME NodeTypeOK, NEW j \in Job, RecordOf(j), Call(j) \/ Step(j) \/ LoseRun(j),
           ~VerifyForReplay(j), ~RefuseReplay(j), ~IndexReceipts(j), ~AnswerReplay(j),
           ~FailReplay(j)
    PROVE  /\ run'[j].view.head = run[j].view.head
           /\ run'[j].view.refs = run[j].view.refs
           /\ run'[j].view.applied = run[j].view.applied
           /\ run'[j].at \notin {"verified", "indexed"} /\ ~Answered(j)'
<1> USE DEF Unreceipted, Unexecuted, Undecided, RecallStages, ReplayStages,
    RecordedOps, RecallOps
<1>1. CASE Call(j)
  BY <1>1 DEF NodeTypeOK, RunState, Call, ReceiveEvent, StoreEvent, RejectEvent,
     RequestInspection, StartReplay, RequestQualification, RejectQualification,
     StartRecall, Begin, Answered
<1>2. CASE LoseRun(j)
  BY <1>2 DEF NodeTypeOK, RunState, LoseRun, Answered
<1>3. CASE \/ RecordPatchIntent(j) \/ DecideAuthority(j) \/ HashFile(j)
             \/ StoreArtifact(j) \/ VerifyFile(j) \/ ExecutePatch(j)
             \/ QualifyClaim(j) \/ FileGone(j) \/ FailQualification(j)
  BY <1>3 DEF NodeTypeOK, RunState, RecordPatchIntent, DecideAuthority, HashFile,
     Observe, StoreArtifact, VerifyFile, StoreExecution, FileGone, ExecutePatch,
     QualifyClaim, FailQualification, Goto, Answered
<1>4. CASE ReceiptExecution(j) \/ ReceiptNonExecution(j) \/ AppendReceipt(j) \/ StoreMemory(j)
  <2>1. run'[j].view = run[j].view /\ run'[j].request = run[j].request
    BY <1>4 DEF NodeTypeOK, RunState, ReceiptExecution, ReceiptNonExecution, IssueReceipt,
       AppendReceipt, StoreMemory, Goto
  <2>2. /\ run'[j].at \in {"receipting", "raised", "receipted", "remembered", "done"}
        /\ run'[j].at = "done" => Op(j) # "state.patch"
    BY <1>4 DEF NodeTypeOK, RunState, ReceiptExecution, ReceiptNonExecution, IssueReceipt,
       AppendReceipt, StoreMemory, AfterMemory, Goto
  <2>3. Op(j) \in RecordedOps
    BY <1>4 DEF RecordOf, PhaseOf, ReceiptExecution, ReceiptNonExecution, IssueReceipt,
       AppendReceipt, StoreMemory, Goto, InFlight
  <2> QED
    BY <2>1, <2>2, <2>3 DEF Op, Answered
<1>5. CASE \/ LocateArtifact(j) \/ LocateClaim(j) \/ RecallArtifact(j)
           \/ RecallClaim(j) \/ FinishRecall(j)
  <2>1. Op(j) \in RecallOps /\ run'[j].request = run[j].request
    BY <1>5 DEF NodeTypeOK, RunState, RecordOf, PhaseOf, LocateArtifact, LocateClaim,
       SeeSubject, RecallArtifact, RecallClaim, SeeMemories, SeeReceipts, FinishRecall, See
  <2>2. run'[j].at \notin {"verified", "indexed"}
    BY <1>5 DEF NodeTypeOK, RunState, LocateArtifact, LocateClaim, SeeSubject,
       RecallArtifact, RecallClaim, SeeMemories, SeeReceipts, FinishRecall, See
  <2>3. /\ run'[j].view.head = run[j].view.head
        /\ run'[j].view.refs = run[j].view.refs
        /\ run'[j].view.applied = run[j].view.applied
    BY <1>5 DEF NodeTypeOK, RunState, View, LocateArtifact, LocateClaim, SeeSubject,
       RecallArtifact, RecallClaim, SeeMemories, SeeReceipts, FinishRecall, See
  <2> QED
    BY <2>1, <2>2, <2>3 DEF Op, Answered
<1> QED
  BY <1>1, <1>2, <1>3, <1>4, <1>5 DEF Step

(* The three sessions of a replay. *)
LEMMA ReplaySteps ==
    ASSUME RecordInv, ChainInv, Lineage, NEW j \in Job, ReplayOf(j),
           \/ VerifyForReplay(j) \/ RefuseReplay(j) \/ IndexReceipts(j)
           \/ AnswerReplay(j) \/ FailReplay(j)
    PROVE  /\ run'[j].request = run[j].request
           /\ \A i \in DOMAIN run'[j].view.head : pc[run'[j].view.head[i]] = "appended"
           /\ run'[j].view.refs \subseteq Executed
           /\ run'[j].view.applied \subseteq run'[j].view.refs
           /\ run'[j].at \in {"indexed", "done"} =>
                /\ EventsBehind(run'[j].view.head) \subseteq run'[j].view.refs
                /\ Op(j) = "state.patch" /\ Allowed(j) => EventOf(j) \in run'[j].view.refs
           /\ run'[j].at = "done" => run'[j].view.applied = run'[j].view.refs
<1> DEFINE v == run[j].view
<1>t. v \in View /\ run \in [Job -> RunState] /\ v.head \in Hash
  BY DEF RecordInv, NodeTypeOK, RunState, View
<1>1. CASE VerifyForReplay(j)
  <2>1. /\ run'[j].view = [v EXCEPT !.head = VerifyChain(chain).head]
        /\ run'[j].at = "verified" /\ run'[j].request = run[j].request
        /\ VerifyChain(chain).valid
    BY <1>t, <1>1 DEF RunState, VerifyForReplay, See
  <2>2. VerifyChain(chain).head = HashOfRow(chain, Len(chain))
    BY <2>1 DEF VerifyChain
  <2>3. Len(chain) \in 0 .. Len(chain)
    BY DEF ChainInv, ChainTypeOK
  <2> QED
    BY <1>t, <2>1, <2>2, <2>3 DEF Lineage, ReplayOf, View
<1>2. CASE IndexReceipts(j)
  <2>1. /\ run'[j].view = [v EXCEPT !.refs = EventRefs(ExecutedRefs(chain))]
        /\ run'[j].at = "indexed" /\ run'[j].request = run[j].request
        /\ run[j].at = "verified"
    BY <1>t, <1>2 DEF RunState, IndexReceipts, See
  <2>2. EventRefs(ExecutedRefs(chain)) = Executed
    BY ExecutedEvents
  <2>3. EventsBehind(v.head) \subseteq Executed
    BY <1>t, BehindIsExecuted DEF ReplayOf
  <2>4. ASSUME Op(j) = "state.patch", Allowed(j) PROVE EventOf(j) \in Executed
    <3>1. pc[j] = "appended" /\ EventOf(j) \in objects.muef_event
      BY <2>1, <2>4 DEF RecordInv, RecordOf, PhaseOf, ProgressOf, ReplayStages
    <3>2. EventOf(j) \in Event
      BY <3>1, EventsAssumption DEF RecordInv, NodeTypeOK, Store
    <3> QED
      BY <2>4, <3>1, <3>2, ExecutedEvents DEF ExecutedBy
  <2> QED
    BY <1>t, <2>1, <2>2, <2>3, <2>4 DEF ReplayOf, View
<1>3. CASE AnswerReplay(j)
  <2>1. /\ run'[j].view = [v EXCEPT !.applied = ToApply(j)]
        /\ run'[j].at = "done" /\ run'[j].request = run[j].request
        /\ run[j].at = "indexed"
    BY <1>t, <1>3 DEF RunState, AnswerReplay, See
  <2>2. ToApply(j) = v.refs
    BY ExecutedEvents DEF ReplayOf, ToApply
  <2> QED
    BY <1>t, <2>1, <2>2 DEF ReplayOf, View
<1>4. CASE RefuseReplay(j) \/ FailReplay(j)
  <2>1. /\ run'[j].view = v /\ run'[j].request = run[j].request
        /\ run'[j].at \in {"raised", "unhashable"}
    BY <1>t, <1>4 DEF RunState, RefuseReplay, FailReplay, See
  <2> QED
    BY <2>1 DEF ReplayOf
<1> QED
  BY <1>1, <1>2, <1>3, <1>4

LEMMA StepReplay ==
    ASSUME ReplayInv, RecordInv, RecordInv', ChainInv, ChainInv', Lineage,
           [NodeNext]_nodeVars
    PROVE  ReplayInv'
<1> SUFFICES ASSUME NEW j \in Job PROVE ReplayOf(j)'
  BY DEF ReplayInv
<1>1. /\ ReplayOf(j) /\ NodeTypeOK /\ RecordOf(j) /\ NodeTypeOK'
      /\ run[j].view \in View /\ run'[j].view \in View
  BY DEF ReplayInv, RecordInv, NodeTypeOK, RunState
<1>2. ASSUME NEW head \in Hash, \A i \in DOMAIN head : pc[head[i]] = "appended"
      PROVE  /\ \A i \in DOMAIN head : pc'[head[i]] = "appended"
             /\ EventsBehind(head)' = EventsBehind(head)
  <2>1. \A i \in DOMAIN head : head[i] \in Job
    BY DEF Hash, Job
  <2> QED
    BY <1>2, <2>1, ReceiptsStay, ExecutedStays
<1>3. Executed \subseteq Executed'
  BY ExecutedStays
<1>4. run[j].view.head \in Hash /\ run'[j].view.head \in Hash
  BY <1>1 DEF View
<1>5. ASSUME run'[j] = run[j], objects'.authority[j] = objects.authority[j]
      PROVE  ReplayOf(j)'
  <2>1. Op(j)' = Op(j) /\ EventOf(j)' = EventOf(j) /\ Allowed(j)' = Allowed(j)
          /\ Answered(j)' = Answered(j)
    BY <1>5 DEF Op, EventOf, Allowed, Decision, Answered
  <2> QED
    BY <1>1, <1>2, <1>3, <1>4, <1>5, <2>1 DEF ReplayOf
<1>6. CASE Call(j) \/ Step(j) \/ LoseRun(j)
  <2>1. CASE \/ VerifyForReplay(j) \/ RefuseReplay(j) \/ IndexReceipts(j)
             \/ AnswerReplay(j) \/ FailReplay(j)
    <3>1. objects' = objects
      BY <2>1 DEF VerifyForReplay, RefuseReplay, IndexReceipts, AnswerReplay, FailReplay, See
    <3>2. run'[j].request = run[j].request
      BY <1>1, <2>1, ReplaySteps
    <3>3. Op(j)' = Op(j) /\ EventOf(j)' = EventOf(j) /\ Allowed(j)' = Allowed(j)
            /\ (Answered(j)' => run'[j].at = "done")
      BY <3>1, <3>2 DEF Op, EventOf, Allowed, Decision, Answered
    <3>4. PICK head \in Hash : head = run'[j].view.head
      BY <1>4
    <3>5. /\ EventsBehind(head)' = EventsBehind(head)
          /\ \A i \in DOMAIN head : pc'[head[i]] = "appended"
      BY <1>1, <1>2, <2>1, <3>4, ReplaySteps
    <3>6. run'[j].at \in {"indexed", "done"} => EventsBehind(head) \subseteq run'[j].view.refs
      BY <1>1, <2>1, <3>4, ReplaySteps
    <3>7. /\ run'[j].view.refs \subseteq Executed
          /\ run'[j].view.applied \subseteq run'[j].view.refs
          /\ run'[j].at \in {"indexed", "done"} =>
               (Op(j) = "state.patch" /\ Allowed(j) => EventOf(j) \in run'[j].view.refs)
          /\ run'[j].at = "done" => run'[j].view.applied = run'[j].view.refs
      BY <1>1, <2>1, ReplaySteps
    <3> QED
      BY <1>3, <3>3, <3>4, <3>5, <3>6, <3>7 DEF ReplayOf
  <2>2. CASE ~(\/ VerifyForReplay(j) \/ RefuseReplay(j) \/ IndexReceipts(j)
               \/ AnswerReplay(j) \/ FailReplay(j))
    <3>1. /\ run'[j].view.head = run[j].view.head
          /\ run'[j].view.refs = run[j].view.refs
          /\ run'[j].view.applied = run[j].view.applied
          /\ run'[j].at # "indexed" /\ ~Answered(j)'
      BY <1>1, <1>6, <2>2, QuietReplay
    <3> QED
      BY <1>1, <1>2, <1>3, <1>4, <3>1 DEF ReplayOf
  <2> QED
    BY <2>1, <2>2
<1>7. ASSUME NEW k \in Job, k # j, Call(k) \/ Step(k) \/ LoseRun(k)
      PROVE  ReplayOf(j)'
  BY <1>1, <1>5, <1>7, OtherRuns DEF SameRun
<1>8. CASE UNCHANGED nodeVars \/ \E p \in Path, content \in Content \cup {Missing} :
               ChangeFile(p, content)
  BY <1>5, <1>8 DEF nodeVars, ChangeFile
<1> QED
  BY <1>6, <1>7, <1>8 DEF NodeNext

LEMMA NodeLineage == NodeSpec => []Lineage
  BY NodeImplementsReceiptChain, LineageIsOfRows, PTL

LEMMA ReplayInvariance == NodeSpec => []ReplayInv
<1>1. ReplayInv /\ RecordInv /\ RecordInv' /\ ChainInv /\ ChainInv' /\ Lineage
        /\ [NodeNext]_nodeVars => ReplayInv'
  BY StepReplay
<1> QED
  BY <1>1, InitReplay, RecordInvariance, NodeRowsAreAppends, NodeLineage, PTL DEF NodeSpec

(* An event that some replay has reported as applied is applied by every   *)
(* later replay that answers.                                              *)
THEOREM AnswersAreKept == NodeSpec => []AnswersStand
<1>1. ReplayInv => AnswersStand
  BY DEF ReplayInv, ReplayOf, AnswersStand
<1> QED
  BY <1>1, ReplayInvariance, PTL

(* A replay's state is no older than its head: other runs append between   *)
(* its sessions, but the head is read first.                               *)
THEOREM StateIsNoOlderThanHead == NodeSpec => []AnswerCoversHead
<1>1. ReplayInv => AnswerCoversHead
  BY DEF ReplayInv, ReplayOf, AnswerCoversHead
<1> QED
  BY <1>1, ReplayInvariance, PTL

(* process_muef_event answers with a state that shows the event exactly    *)
(* when authority allowed it.                                              *)
THEOREM AnswerShowsOwnEvent == NodeSpec => []ReadsItsOwnEvent
<1>1. ASSUME ReplayInv, RecordInv, ChainInv PROVE ReadsItsOwnEvent
  <2> SUFFICES ASSUME NEW j \in Job, Answered(j), Op(j) = "state.patch"
               PROVE  EventOf(j) \in run[j].view.applied <=> Allowed(j)
    BY DEF ReadsItsOwnEvent
  <2>1. run[j].at = "done" /\ RecordOf(j) /\ ReplayOf(j)
    BY <1>1 DEF Answered, RecordInv, ReplayInv
  <2>2. EventOf(j) \in Event
    BY <1>1, <2>1, EventsAssumption DEF RecordOf, ProgressOf, RecordInv, NodeTypeOK, Store
  <2>3. ASSUME EventOf(j) \in run[j].view.applied PROVE Allowed(j)
    <3>1. PICK k \in Job : ExecutedBy(k, EventOf(j))
      BY <1>1, <2>1, <2>2, <2>3, ExecutedEvents DEF ReplayOf
    <3>2. Owns(k, EventOf(j)) /\ Owns(j, EventOf(j))
      BY <1>1, <2>1, <2>2, <3>1, PatchReceipt DEF Owns
    <3>3. k = j
      BY <1>1, <2>2, <3>2 DEF RecordInv, OneOwner
    <3> QED
      BY <3>1, <3>3 DEF ExecutedBy
  <2> QED
    BY <2>1, <2>3 DEF ReplayOf
<1> QED
  BY <1>1, ReplayInvariance, RecordInvariance, NodeRowsAreAppends, PTL

-----------------------------------------------------------------------------
(* One call at a time. *)

OneRunning == \A j, k \in Job : Running(j) /\ Running(k) => j = k

LEMMA CallStart ==
    ASSUME NodeTypeOK, NEW j \in Job, Call(j)
    PROVE  /\ run[j].at = "new" /\ run'[j].view = run[j].view
           /\ run'[j].hashed = run[j].hashed /\ run'[j].at \notin {"verified", "indexed", "hashed"}
           /\ Serial => \A k \in Job : ~Running(k)
           /\ chain' = chain /\ objects'.artifact = objects.artifact
<1>1. PICK q \in Requests :
        \/ ReceiveEvent(j, q) \/ RejectEvent(j, q) \/ RequestInspection(j, q)
        \/ StartReplay(j, q) \/ RequestQualification(j, q) \/ RejectQualification(j, q)
        \/ StartRecall(j, q)
  BY DEF Call
<1>2. PICK s \in {"event_stored", "rejected", "intent_stored", "remembered", "recalling"} :
        Begin(j, q, s)
  BY <1>1 DEF ReceiveEvent, StoreEvent, RejectEvent, RequestInspection, StartReplay,
     RequestQualification, RejectQualification, StartRecall
<1>3. chain' = chain /\ objects'.artifact = objects.artifact
  BY <1>1 DEF NodeTypeOK, Store, ReceiveEvent, StoreEvent, RejectEvent, RequestInspection,
     StartReplay, RequestQualification, RejectQualification, StartRecall, chainVars, envVars
<1> QED
  BY <1>2, <1>3 DEF Begin, NodeTypeOK, RunState

(* What a step of a run finds: with Serial, no other run is being served.  *)
LEMMA StepAlone ==
    ASSUME NodeTypeOK, OneRunning, Serial, NEW j \in Job,
           Call(j) \/ Step(j) \/ LoseRun(j)
    PROVE  \A k \in Job : k # j => run'[k] = run[k] /\ ~Running(k)
<1>1. \A k \in Job : k # j => run'[k] = run[k]
  BY OtherRuns DEF SameRun
<1>2. CASE Call(j)
  BY <1>1, <1>2, CallStart
<1>3. CASE Step(j) \/ LoseRun(j)
  <2>1. Running(j)
    BY <1>3, RequestsStay DEF Running
  <2> QED
    BY <1>1, <2>1 DEF OneRunning
<1> QED
  BY <1>2, <1>3

LEMMA StepOneRunning ==
    ASSUME Serial
    PROVE  OneRunning /\ NodeTypeOK /\ [NodeNext]_nodeVars => OneRunning'
<1> SUFFICES ASSUME OneRunning, NodeTypeOK, [NodeNext]_nodeVars PROVE OneRunning'
  OBVIOUS
<1>1. CASE run' = run
  BY <1>1 DEF OneRunning, Running
<1>2. ASSUME NEW j \in Job, Call(j) \/ Step(j) \/ LoseRun(j) PROVE OneRunning'
  <2>1. \A k \in Job : k # j => ~Running(k)'
    BY <1>2, StepAlone DEF Running
  <2> QED
    BY <2>1 DEF OneRunning
<1> QED
  BY <1>1, <1>2 DEF NodeNext, nodeVars, ChangeFile

LEMMA OneCallAtATime ==
    ASSUME Serial
    PROVE  NodeSpec => []OneRunning
<1>1. NodeInit => OneRunning
  BY DEF NodeInit, OneRunning, Running
<1> QED
  BY <1>1, StepOneRunning, NodeTypeCorrect, PTL DEF NodeSpec

(* The head a replay has verified stays the newest while it reads on, and  *)
(* so has all that it indexes behind it.                                   *)
FreshReplay(j) ==
    /\ run[j].at = "verified" => run[j].view.head = LatestReceiptHash
    /\ run[j].at = "indexed" \/ Answered(j) =>
         run[j].view.refs \subseteq EventsBehind(run[j].view.head)

FreshInv == \A j \in Job : FreshReplay(j)

(* All that is executed is behind a head that commits to every row. *)
LEMMA ExecutedIsBehind ==
    ASSUME RecordInv, ChainInv, WholeLineage
    PROVE  Executed \subseteq EventsBehind(LatestReceiptHash)
<1> DEFINE head == LatestReceiptHash
<1>1. head \in Hash /\ Len(chain) \in Nat
  BY LatestType DEF ChainInv, ChainTypeOK
<1>2. DOMAIN head = DOMAIN chain /\ \A i \in DOMAIN chain : head[i] = chain[i].receipt
  BY <1>1 DEF WholeLineage, Hash, ChainInv, ChainTypeOK
<1> HIDE DEF head
<1>3. ASSUME NEW e \in Event, NEW k \in Job, ExecutedBy(k, e) PROVE e \in EventsBehind(head)
  <2>1. PICK i \in DOMAIN chain : chain[i].receipt = k
    BY <1>3 DEF ChainInv, RowsAreAppends, ExecutedBy, Job
  <2>2. i \in DOMAIN head /\ head[i] = k
    BY <1>2, <2>1
  <2>3. OutputRef(k) = <<"event", e>> /\ run[k].payload.source_class = "executed"
    BY <1>3, PatchReceipt
  <2> QED
    BY <2>2, <2>3 DEF EventsBehind, EventRefs
<1>4. Executed \subseteq EventsBehind(head)
  BY <1>3, ExecutedEvents
<1> QED
  BY <1>4 DEF head

LEMMA StepFresh ==
    ASSUME Serial, FreshInv, OneRunning, ReplayInv, RecordInv, RecordInv', ChainInv,
           ChainInv', WholeLineage, [NodeNext]_nodeVars
    PROVE  FreshInv'
<1> SUFFICES ASSUME NEW j \in Job PROVE FreshReplay(j)'
  BY DEF FreshInv
<1>1. /\ FreshReplay(j) /\ ReplayOf(j) /\ NodeTypeOK /\ RecordOf(j) /\ NodeTypeOK'
      /\ run[j].view \in View /\ run'[j].view \in View
  BY DEF FreshInv, ReplayInv, RecordInv, NodeTypeOK, RunState
<1>2. PICK head \in Hash : head = run[j].view.head
  BY <1>1 DEF View
<1>3. EventsBehind(head)' = EventsBehind(head)
  BY <1>1, <1>2, ExecutedStays DEF ReplayOf
<1>4. CASE run'[j] = run[j] /\ (run[j].at = "verified" => chain' = chain)
  BY <1>1, <1>2, <1>3, <1>4
  DEF FreshReplay, LatestReceiptHash, HashOfRow, Answered, Op
<1>5. CASE Call(j) \/ Step(j) \/ LoseRun(j)
  <2>1. CASE VerifyForReplay(j)
    <3>1. VerifyChain(chain).head = LatestReceiptHash /\ chain' = chain
      BY <2>1 DEF VerifyForReplay, See, chainVars, VerifyChain, LatestReceiptHash
    <3>2. run'[j].at = "verified" /\ run'[j].view.head = LatestReceiptHash
      BY <1>1, <2>1, <3>1 DEF VerifyForReplay, See, NodeTypeOK, RunState, View
    <3> QED
      BY <3>1, <3>2 DEF FreshReplay, Answered, LatestReceiptHash, HashOfRow
  <2>2. CASE IndexReceipts(j)
    <3>1. run'[j].at = "indexed" /\ run[j].at = "verified" /\ run'[j].view.head = head
            /\ run'[j].view.refs = EventRefs(ExecutedRefs(chain))
      BY <1>1, <1>2, <2>2 DEF IndexReceipts, See, NodeTypeOK, RunState, View
    <3>2. run'[j].view.refs \subseteq EventsBehind(head)
      <4>1. head = LatestReceiptHash
        BY <1>1, <1>2, <3>1 DEF FreshReplay
      <4> QED
        BY <3>1, <4>1, ExecutedEvents, ExecutedIsBehind
    <3> QED
      BY <1>3, <3>1, <3>2 DEF FreshReplay
  <2>3. CASE AnswerReplay(j)
    <3>1. run'[j].at = "done" /\ run[j].at = "indexed" /\ run'[j].view.head = head
            /\ run'[j].view.refs = run[j].view.refs
      BY <1>1, <1>2, <2>3 DEF AnswerReplay, See, NodeTypeOK, RunState, View
    <3> QED
      BY <1>1, <1>2, <1>3, <3>1 DEF FreshReplay
  <2>4. CASE RefuseReplay(j) \/ FailReplay(j)
    BY <1>1, <2>4 DEF RefuseReplay, FailReplay, See, NodeTypeOK, RunState, FreshReplay,
       Answered
  <2>5. CASE ~(\/ VerifyForReplay(j) \/ RefuseReplay(j) \/ IndexReceipts(j)
               \/ AnswerReplay(j) \/ FailReplay(j))
    <3>1. run'[j].at # "indexed" /\ ~Answered(j)' /\ run'[j].at # "verified"
      BY <1>1, <1>5, <2>5, QuietReplay
    <3> QED
      BY <3>1 DEF FreshReplay
  <2> QED
    BY <2>1, <2>2, <2>3, <2>4, <2>5
<1>6. ASSUME NEW k \in Job, k # j, Call(k) \/ Step(k) \/ LoseRun(k)
      PROVE  FreshReplay(j)'
  <2>1. run'[j] = run[j] /\ ~Running(j)
    BY <1>1, <1>6, StepAlone
  <2>2. run[j].at # "verified"
    BY <2>1 DEF Running, Ended
  <2> QED
    BY <1>4, <2>1, <2>2
<1>7. CASE UNCHANGED nodeVars \/ \E p \in Path, content \in Content \cup {Missing} :
               ChangeFile(p, content)
  BY <1>4, <1>7 DEF nodeVars, ChangeFile, chainVars
<1> QED
  BY <1>5, <1>6, <1>7 DEF NodeNext

LEMMA NodeWholeLineage ==
    ASSUME Serial
    PROVE  NodeSpec => []WholeLineage
  BY NodeImplementsReceiptChain, HeadCommitsToAllRows, PTL

(* With one call at a time a replay's state and its head are of the same   *)
(* moment: the head commits to the receipt of every event in the state.    *)
THEOREM StateIsNoNewerThanHead ==
    ASSUME Serial
    PROVE  NodeSpec => []HeadCoversAnswer
<1>1. NodeInit => FreshInv
  BY DEF NodeInit, FreshInv, FreshReplay, Answered
<1>2. FreshInv /\ OneRunning /\ ReplayInv /\ RecordInv /\ RecordInv' /\ ChainInv
        /\ ChainInv' /\ WholeLineage /\ [NodeNext]_nodeVars => FreshInv'
  BY StepFresh
<1>3. FreshInv /\ ReplayInv => HeadCoversAnswer
  BY DEF FreshInv, FreshReplay, ReplayInv, ReplayOf, HeadCoversAnswer
<1> QED
  BY <1>1, <1>2, <1>3, OneCallAtATime, ReplayInvariance, RecordInvariance,
     NodeRowsAreAppends, NodeWholeLineage, PTL DEF NodeSpec

-----------------------------------------------------------------------------
(* The node implements EventLedger: what becomes of an event is what has   *)
(* become of the run that stored it.                                       *)

FateBy(j) ==
    IF pc[j] = "appended" THEN IF Allowed(j) THEN "executed" ELSE "withheld"
    ELSE IF run[j].at \in Ended THEN "abandoned" ELSE "pending"

EventsAreOwned == \A e \in objects.muef_event : \E j \in Job : Owns(j, e)

LedgerView ==
    \A e \in Event :
        /\ \A j \in Job : Owns(j, e) =>
             FateOf(e) = FateBy(j) /\ (e \in AuthorizedEvents <=> Allowed(j))
        /\ (\A j \in Job : ~Owns(j, e)) => FateOf(e) = "unseen" /\ e \notin AuthorizedEvents

LEMMA OwnersStay ==
    ASSUME NodeTypeOK, NEW j \in Job, NEW e \in Event, Step(j) \/ LoseRun(j)
    PROVE  Owns(j, e)' <=> Owns(j, e)
  BY RequestsStay DEF Owns, Op, EventOf, Ended

(* An event is stored by the call that comes to own it. *)
LEMMA StoredEvents ==
    ASSUME NodeTypeOK, RecordInv, NEW j \in Job, Call(j) \/ Step(j) \/ LoseRun(j)
    PROVE  \/ objects'.muef_event = objects.muef_event
              /\ \A e \in Event : Owns(j, e)' <=> Owns(j, e)
           \/ /\ run'[j].at = "event_stored" /\ \A e \in Event : ~Owns(j, e)
              /\ \E e \in Event \ objects.muef_event :
                   /\ objects'.muef_event = objects.muef_event \cup {e}
                   /\ \A d \in Event : Owns(j, d)' <=> d = e
<1>1. CASE Step(j) \/ LoseRun(j)
  <2>1. objects'.muef_event = objects.muef_event
    <3>1. CASE LoseRun(j)
      BY <3>1 DEF LoseRun
    <3>2. CASE \/ RecordPatchIntent(j) \/ DecideAuthority(j) \/ StoreArtifact(j)
               \/ VerifyFile(j) \/ ExecutePatch(j) \/ QualifyClaim(j) \/ StoreMemory(j)
      BY <3>2 DEF NodeTypeOK, Store, RecordPatchIntent, DecideAuthority,
         StoreArtifact, VerifyFile, StoreExecution, ExecutePatch, QualifyClaim, StoreMemory
    <3>3. CASE \/ HashFile(j) \/ FileGone(j) \/ FailQualification(j)
               \/ ReceiptExecution(j) \/ ReceiptNonExecution(j) \/ AppendReceipt(j)
      BY <3>3 DEF HashFile, Observe, FileGone, FailQualification, ReceiptExecution,
         ReceiptNonExecution, IssueReceipt, AppendReceipt
    <3>4. CASE \/ VerifyForReplay(j) \/ RefuseReplay(j) \/ IndexReceipts(j)
               \/ AnswerReplay(j) \/ FailReplay(j) \/ LocateArtifact(j)
               \/ LocateClaim(j) \/ RecallArtifact(j) \/ RecallClaim(j) \/ FinishRecall(j)
      BY <3>4 DEF VerifyForReplay, See, RefuseReplay, IndexReceipts, AnswerReplay,
         FailReplay, LocateArtifact, LocateClaim, SeeSubject, RecallArtifact,
         RecallClaim, SeeMemories, SeeReceipts, FinishRecall
    <3> QED
      BY <1>1, <3>1, <3>2, <3>3, <3>4 DEF Step
  <2> QED
    BY <1>1, <2>1, OwnersStay
<1>2. CASE Call(j)
  <2>1. PICK q \in Requests :
          \/ ReceiveEvent(j, q) \/ RejectEvent(j, q) \/ RequestInspection(j, q)
          \/ StartReplay(j, q) \/ RequestQualification(j, q) \/ RejectQualification(j, q)
          \/ StartRecall(j, q)
    BY <1>2 DEF Call
  <2>2. \A e \in Event : ~Owns(j, e)
    BY <1>2, CallStart DEF RecordInv, RecordOf, PhaseOf, Owns
  <2>3. CASE ReceiveEvent(j, q)
    <3>1. /\ q.op = "state.patch" /\ q.event \in Event \ objects.muef_event
          /\ run'[j].at = "event_stored" /\ run'[j].request = q
          /\ objects'.muef_event = objects.muef_event \cup {q.event}
      BY <2>3 DEF ReceiveEvent, StoreEvent, Begin, NodeTypeOK, RunState, Store, PatchRequest
    <3>2. \A d \in Event : Owns(j, d)' <=> d = q.event
      BY <3>1 DEF Owns, Op, EventOf
    <3> QED
      BY <2>2, <3>1, <3>2
  <2>4. CASE ~ReceiveEvent(j, q)
    <3>1. objects'.muef_event = objects.muef_event
      BY <2>1, <2>4 DEF NodeTypeOK, Store, RejectEvent, RequestInspection, StartReplay,
         RequestQualification, RejectQualification, StartRecall
    <3>2. ASSUME NEW e \in Event PROVE ~Owns(j, e)'
      <4>1. CASE RejectEvent(j, q) \/ RejectQualification(j, q)
        BY <4>1 DEF NodeTypeOK, RunState, RejectEvent, RejectQualification, Begin, Owns
      <4>2. CASE RequestInspection(j, q) \/ StartReplay(j, q) \/ RequestQualification(j, q)
                   \/ StartRecall(j, q)
        <5>1. q.op # "state.patch" /\ run'[j].request = q
          BY <4>2 DEF NodeTypeOK, RunState, RequestInspection, StartReplay,
             RequestQualification, StartRecall, Begin, InspectRequest, ReplayRequest,
             ClaimRequest, RecallRequest
        <5> QED
          BY <5>1 DEF Owns, Op
      <4> QED
        BY <2>1, <2>4, <4>1, <4>2
    <3> QED
      BY <2>2, <3>1, <3>2
  <2> QED
    BY <2>3, <2>4
<1> QED
  BY <1>1, <1>2

LEMMA StepOwned ==
    EventsAreOwned /\ RecordInv /\ [NodeNext]_nodeVars => EventsAreOwned'
<1> SUFFICES ASSUME EventsAreOwned, RecordInv, [NodeNext]_nodeVars PROVE EventsAreOwned'
  OBVIOUS
<1>1. CASE UNCHANGED <<run, objects>>
  BY <1>1 DEF EventsAreOwned, Owns, Op, EventOf
<1>2. ASSUME NEW j \in Job, Call(j) \/ Step(j) \/ LoseRun(j) PROVE EventsAreOwned'
  <2>1. NodeTypeOK /\ objects.muef_event \subseteq Event
    BY EventsAssumption DEF RecordInv, NodeTypeOK, Store
  <2>2. \A k \in Job, e \in Event : k # j => (Owns(k, e)' <=> Owns(k, e))
    BY <1>2, <2>1, OthersRecord DEF SameRecord, SameRun, Owns, Op, EventOf
  <2>3. \A e \in objects.muef_event : \E k \in Job : Owns(k, e)'
    BY <1>2, <2>1, <2>2, StoredEvents DEF EventsAreOwned
  <2> QED
    BY <1>2, <2>1, <2>3, StoredEvents DEF EventsAreOwned
<1> QED
  BY <1>1, <1>2 DEF NodeNext, nodeVars, ChangeFile

LEMMA EventsHaveOwners == NodeSpec => []EventsAreOwned
<1>1. NodeInit => EventsAreOwned
  BY DEF NodeInit, EventsAreOwned
<1> QED
  BY <1>1, StepOwned, RecordInvariance, PTL DEF NodeSpec

LEMMA FatesByOwner == RecordInv /\ ChainInv /\ EventsAreOwned => LedgerView
<1> SUFFICES ASSUME RecordInv, ChainInv, EventsAreOwned, NEW e \in Event
             PROVE  /\ \A j \in Job : Owns(j, e) =>
                         /\ FateOf(e) = FateBy(j)
                         /\ e \in AuthorizedEvents <=> Allowed(j)
                    /\ (\A j \in Job : ~Owns(j, e)) =>
                         FateOf(e) = "unseen" /\ e \notin AuthorizedEvents
  BY DEF LedgerView
<1>1. (\A j \in Job : ~Owns(j, e)) => FateOf(e) = "unseen" /\ e \notin AuthorizedEvents
  BY DEF EventsAreOwned, FateOf, AuthorizedEvents
<1>2. ASSUME NEW j \in Job, Owns(j, e)
      PROVE  FateOf(e) = FateBy(j) /\ (e \in AuthorizedEvents <=> Allowed(j))
  <2>1. \A k \in Job : Owns(k, e) <=> k = j
    BY <1>2 DEF RecordInv, OneOwner
  <2>2. e \in objects.muef_event /\ RecordOf(j)
    BY <1>2 DEF RecordInv, RecordOf, ProgressOf, Owns
  <2>3. e \in Executed <=> pc[j] = "appended" /\ Allowed(j)
    <3>1. e \in Executed <=> \E k \in Job : ExecutedBy(k, e)
      BY ExecutedEvents
    <3>2. \A k \in Job : ExecutedBy(k, e) => k = j
      BY <2>1, PatchReceipt
    <3>3. ExecutedBy(j, e) <=> pc[j] = "appended" /\ Allowed(j)
      BY <1>2 DEF ExecutedBy, Owns
    <3> QED
      BY <3>1, <3>2, <3>3
  <2>4. (\E i \in DOMAIN chain : OutputRef(chain[i].receipt) = <<"event", e>>)
          <=> pc[j] = "appended"
    <3>1. ASSUME NEW i \in DOMAIN chain, OutputRef(chain[i].receipt) = <<"event", e>>
          PROVE  pc[j] = "appended"
      <4>1. PICK k \in Job : k = chain[i].receipt /\ pc[k] = "appended"
        BY RowOfRun
      <4>2. OutputRef(k) = <<"event", e>> /\ RecordOf(k)
        BY <3>1, <4>1 DEF RecordInv
      <4>3. Op(k) = "state.patch"
        <5>1. Op(k) = "claim.qualify" => OutputRef(k)[1] = "claim"
          BY <4>1, <4>2, OutputOf
        <5>2. Op(k) = "artifact.inspect" => OutputRef(k)[1] \in {"artifact", "authority"}
          BY <4>1, <4>2, OutputOf
        <5>3. OutputRef(k)[1] = "event"
          BY <4>2
        <5> QED
          BY <4>1, <4>2, <5>1, <5>2, <5>3, OutputOf DEF RecordedOps
      <4>4. Owns(k, e)
        BY <4>1, <4>2, <4>3, OutputOf DEF Owns
      <4> QED
        BY <2>1, <4>1, <4>4
    <3>2. ASSUME pc[j] = "appended"
          PROVE  \E i \in DOMAIN chain : OutputRef(chain[i].receipt) = <<"event", e>>
      <4>1. PICK i \in DOMAIN chain : chain[i].receipt = j
        BY <3>2 DEF ChainInv, RowsAreAppends, Job
      <4>2. OutputRef(j) = <<"event", e>>
        BY <1>2, <2>2, <3>2, OutputOf DEF Owns
      <4> QED
        BY <4>1, <4>2
    <3> QED
      BY <3>1, <3>2
  <2>5. (\E k \in Job : Owns(k, e) /\ run[k].at \in Ended) <=> run[j].at \in Ended
    BY <2>1
  <2>6. e \in AuthorizedEvents <=> Allowed(j)
    BY <2>1 DEF AuthorizedEvents
  <2> QED
    BY <2>2, <2>3, <2>4, <2>5, <2>6 DEF FateOf, FateBy
<1> QED
  BY <1>1, <1>2

LEMMA LedgerViews == NodeSpec => []LedgerView
  BY FatesByOwner, RecordInvariance, NodeRowsAreAppends, EventsHaveOwners, PTL

(* Steps of the ledger, by what they do to the one event they are about.   *)
SameAuthorized(e) == (e \in AuthorizedEvents)' <=> e \in AuthorizedEvents
SameReadable == ChainValid' <=> ChainValid

LedgerMove(e) ==
    \/ FateOf(e)' = FateOf(e) /\ SameAuthorized(e)
    \/ /\ FateOf(e) = "unseen" /\ FateOf(e)' = "pending"
       /\ SameAuthorized(e) /\ SameReadable
    \/ /\ FateOf(e) = "pending" /\ FateOf(e)' = "pending"
       /\ (e \in AuthorizedEvents)' /\ SameReadable
    \/ /\ FateOf(e) = "pending" /\ FateOf(e)' = "executed"
       /\ e \in AuthorizedEvents /\ SameAuthorized(e)
    \/ /\ FateOf(e) = "pending" /\ FateOf(e)' = "withheld"
       /\ e \notin AuthorizedEvents /\ SameAuthorized(e)
    \/ /\ FateOf(e) = "pending" /\ FateOf(e)' = "abandoned"
       /\ SameAuthorized(e) /\ SameReadable

(* The table is readable or it is not, and no step mends it; a step that   *)
(* does not append its run's receipt leaves it as it is.                   *)
LEMMA ReadableFalls ==
    ASSUME ChainInv, [NodeNext]_nodeVars
    PROVE  /\ ChainValid \in BOOLEAN
           /\ ChainValid' \in {ChainValid, FALSE}
           /\ UNCHANGED chain => SameReadable
<1>1. ~VerifyChain(chain).valid => VerifyChain(chain') = VerifyChain(chain)
  BY NodeStepRefines, VerifyStep
<1>2. VerifyChain(chain).valid \in BOOLEAN /\ VerifyChain(chain').valid \in BOOLEAN
  BY DEF VerifyChain
<1>3. ChainValid' = VerifyChain(chain').valid
  BY DEF ChainValid, VerifyChain, BadRows, RowReason, HashOfRow
<1> QED
  BY <1>1, <1>2, <1>3 DEF ChainValid, SameReadable

LEMMA OnlyAppendsGrow ==
    ASSUME ChainInv, NEW j \in Job, Call(j) \/ Step(j) \/ LoseRun(j)
    PROVE  \/ UNCHANGED chain
           \/ pc[j] # "appended" /\ pc'[j] = "appended"
<1>1. CASE InsertReceipt(j)
  BY <1>1 DEF InsertReceipt, ChainInv, ChainTypeOK, Job
<1>2. CASE ~InsertReceipt(j)
  BY <1>2, ReceiptSteps
  DEF MakeReceipt, CheckHead, RefuseReceipt, LoseReceipt, chainVars
<1> QED
  BY <1>1, <1>2

LEMMA LedgerStep ==
    ASSUME NEW e \in Event, LedgerMove(e),
           \A d \in Event : d # e => FateOf(d)' = FateOf(d) /\ SameAuthorized(d),
           ChainValid \in BOOLEAN, ChainValid' \in {ChainValid, FALSE}
    PROVE  [Ledger!LedgerNext]_(Ledger!ledgerVars)
<1> DEFINE before == [d \in Event |-> FateOf(d)]
           after == [d \in Event |-> FateOf(d)']
<1>1. after = [before EXCEPT ![e] = FateOf(e)']
  OBVIOUS
<1>2. AuthorizedEvents \subseteq Event /\ AuthorizedEvents' \subseteq Event
  BY DEF AuthorizedEvents
<1>3. SameAuthorized(e) => AuthorizedEvents' = AuthorizedEvents
  BY <1>2 DEF SameAuthorized
<1>4. (e \in AuthorizedEvents)' => AuthorizedEvents' = AuthorizedEvents \cup {e}
  BY <1>2 DEF SameAuthorized
<1>5. before[e] = FateOf(e)
  OBVIOUS
<1>r. SameReadable => VerifyChain(chain).valid' = VerifyChain(chain).valid
  BY DEF SameReadable, ChainValid
<1>l. SameAuthorized(e) => Ledger!Receipted
  BY <1>3 DEF Ledger!Receipted, ChainValid
<1>6. CASE FateOf(e)' = FateOf(e) /\ SameAuthorized(e)
  <2>1. after = before
    BY <1>6
  <2>2. Ledger!ReceiptOther
    BY <1>l, <1>6, <2>1 DEF Ledger!ReceiptOther
  <2> QED
    BY <2>2 DEF Ledger!LedgerNext
<1>7. CASE FateOf(e) = "unseen" /\ FateOf(e)' = "pending" /\ SameAuthorized(e)
             /\ SameReadable
  <2>1. Ledger!Accept(e)
    BY <1>1, <1>3, <1>5, <1>7, <1>r DEF Ledger!Accept
  <2> QED
    BY <2>1 DEF Ledger!LedgerNext
<1>8. CASE FateOf(e) = "pending" /\ FateOf(e)' = "pending" /\ (e \in AuthorizedEvents)'
             /\ SameReadable
  <2>1. Ledger!Authorize(e)
    BY <1>1, <1>4, <1>5, <1>8, <1>r DEF Ledger!Authorize
  <2> QED
    BY <2>1 DEF Ledger!LedgerNext
<1>9. CASE /\ FateOf(e) = "pending" /\ FateOf(e)' = "executed"
           /\ e \in AuthorizedEvents /\ SameAuthorized(e)
  <2>1. Ledger!Execute(e)
    BY <1>1, <1>l, <1>5, <1>9 DEF Ledger!Execute
  <2> QED
    BY <2>1 DEF Ledger!LedgerNext
<1>10. CASE /\ FateOf(e) = "pending" /\ FateOf(e)' = "withheld"
            /\ e \notin AuthorizedEvents /\ SameAuthorized(e)
  <2>1. Ledger!Withhold(e)
    BY <1>1, <1>l, <1>5, <1>10 DEF Ledger!Withhold
  <2> QED
    BY <2>1 DEF Ledger!LedgerNext
<1>11. CASE FateOf(e) = "pending" /\ FateOf(e)' = "abandoned" /\ SameAuthorized(e)
              /\ SameReadable
  <2>1. Ledger!Abandon(e)
    BY <1>1, <1>3, <1>5, <1>11, <1>r DEF Ledger!Abandon
  <2> QED
    BY <2>1 DEF Ledger!LedgerNext
<1> QED
  BY <1>6, <1>7, <1>8, <1>9, <1>10, <1>11 DEF LedgerMove

LEMMA DecisionsStay ==
    ASSUME NodeTypeOK, NEW j \in Job, Call(j) \/ Step(j) \/ LoseRun(j), ~DecideAuthority(j)
    PROVE  Allowed(j)' = Allowed(j)
<1>1. objects'.authority = objects.authority
  <2>1. CASE Call(j)
    BY <2>1 DEF NodeTypeOK, Store, Call, ReceiveEvent, StoreEvent, RejectEvent,
       RequestInspection, StartReplay, RequestQualification, RejectQualification,
       StartRecall
  <2>2. CASE LoseRun(j)
    BY <2>2 DEF LoseRun
  <2>3. CASE \/ RecordPatchIntent(j) \/ StoreArtifact(j)
             \/ VerifyFile(j) \/ ExecutePatch(j) \/ QualifyClaim(j) \/ StoreMemory(j)
    BY <2>3 DEF NodeTypeOK, Store, RecordPatchIntent, StoreArtifact, VerifyFile,
       StoreExecution, ExecutePatch, QualifyClaim, StoreMemory
  <2>4. CASE \/ HashFile(j) \/ FileGone(j) \/ FailQualification(j)
             \/ ReceiptExecution(j) \/ ReceiptNonExecution(j) \/ AppendReceipt(j)
    BY <2>4 DEF HashFile, Observe, FileGone, FailQualification, ReceiptExecution,
       ReceiptNonExecution, IssueReceipt, AppendReceipt
  <2>5. CASE \/ VerifyForReplay(j) \/ RefuseReplay(j) \/ IndexReceipts(j)
             \/ AnswerReplay(j) \/ FailReplay(j) \/ LocateArtifact(j)
             \/ LocateClaim(j) \/ RecallArtifact(j) \/ RecallClaim(j) \/ FinishRecall(j)
    BY <2>5 DEF VerifyForReplay, See, RefuseReplay, IndexReceipts, AnswerReplay,
       FailReplay, LocateArtifact, LocateClaim, SeeSubject, RecallArtifact,
       RecallClaim, SeeMemories, SeeReceipts, FinishRecall
  <2> QED
    BY <2>1, <2>2, <2>3, <2>4, <2>5 DEF Step
<1> QED
  BY <1>1 DEF Allowed, Decision

(* What a step does to the event of its run. *)
LEMMA OwnEventMoves ==
    ASSUME RecordInv, RecordInv', ChainInv, ChainInv', LedgerView, LedgerView',
           [NodeNext]_nodeVars,
           NEW j \in Job, NEW e \in Event, Owns(j, e), Step(j) \/ LoseRun(j)
    PROVE  LedgerMove(e)
<1>1. NodeTypeOK /\ RecordOf(j) /\ run[j].at \notin Ended
  BY RequestsStay DEF RecordInv
<1>2. Owns(j, e)'
  BY <1>1, OwnersStay
<1>3. /\ FateOf(e) = FateBy(j) /\ FateOf(e)' = FateBy(j)'
      /\ e \in AuthorizedEvents <=> Allowed(j)
      /\ (e \in AuthorizedEvents)' <=> Allowed(j)'
  BY <1>2 DEF LedgerView
<1>4. CASE DecideAuthority(j)
  <2>1. /\ run[j].at = "intent_stored" /\ run'[j].at = "authority_stored"
        /\ pc' = pc
    BY <1>1, <1>4 DEF DecideAuthority, Goto, NodeTypeOK, RunState, chainVars
  <2>2. pc[j] = "idle" /\ ~Allowed(j)
    BY <1>1, <2>1 DEF RecordOf, PhaseOf, ProgressOf, Unreceipted, Unexecuted, Undecided,
       Allowed, A!Allowed, NoDecision
  <2>3. FateOf(e) = "pending" /\ FateOf(e)' = "pending"
    BY <1>3, <2>1, <2>2 DEF FateBy, Ended
  <2>4. SameReadable
    BY <2>1, OnlyAppendsGrow, ReadableFalls
  <2> QED
    BY <1>3, <2>2, <2>3, <2>4 DEF LedgerMove, SameAuthorized
<1>5. CASE ~DecideAuthority(j)
  <2>1. (Allowed(j)' <=> Allowed(j)) /\ SameAuthorized(e)
    <3>1. Allowed(j)' = Allowed(j)
      BY <1>1, <1>5, DecisionsStay
    <3> QED
      BY <1>3, <3>1 DEF SameAuthorized
  <2>2. CASE pc[j] = "appended"
    <3>1. pc'[j] = "appended"
      BY <2>2, ReceiptsStay
    <3> QED
      BY <1>3, <2>1, <2>2, <3>1 DEF LedgerMove, FateBy
  <2>3. CASE pc[j] # "appended"
    <3>1. FateOf(e) = "pending"
      BY <1>1, <1>3, <2>3 DEF FateBy
    <3>2. FateOf(e)' = IF pc'[j] = "appended"
                       THEN IF Allowed(j) THEN "executed" ELSE "withheld"
                       ELSE IF run'[j].at \in Ended THEN "abandoned" ELSE "pending"
      BY <1>3, <2>1 DEF FateBy
    <3>3. pc'[j] # "appended" => SameReadable
      BY <2>3, OnlyAppendsGrow, ReadableFalls
    <3> QED
      BY <1>3, <2>1, <3>1, <3>2, <3>3 DEF LedgerMove
  <2> QED
    BY <2>2, <2>3
<1> QED
  BY <1>4, <1>5

(* No step touches the events of other runs. *)
LEMMA OtherEventsStay ==
    ASSUME LedgerView, LedgerView', NEW e \in Event,
           \A k \in Job : Owns(k, e)' <=> Owns(k, e),
           \A k \in Job : Owns(k, e) => run'[k] = run[k] /\ pc'[k] = pc[k]
                                          /\ objects'.authority[k] = objects.authority[k]
    PROVE  FateOf(e)' = FateOf(e) /\ SameAuthorized(e)
<1>1. CASE \A k \in Job : ~Owns(k, e)
  <2>1. \A k \in Job : ~Owns(k, e)'
    BY <1>1
  <2> QED
    BY <1>1, <2>1 DEF LedgerView, SameAuthorized
<1>2. ASSUME NEW k \in Job, Owns(k, e) PROVE FateOf(e)' = FateOf(e) /\ SameAuthorized(e)
  <2>1. Owns(k, e)'
    BY <1>2
  <2>2. Allowed(k)' = Allowed(k) /\ FateBy(k)' = FateBy(k)
    BY <1>2 DEF Allowed, A!Allowed, Decision, FateBy
  <2>3. FateOf(e) = FateBy(k) /\ (e \in AuthorizedEvents <=> Allowed(k))
    BY <1>2 DEF LedgerView
  <2>4. FateOf(e)' = FateBy(k)' /\ ((e \in AuthorizedEvents)' <=> Allowed(k)')
    BY <2>1 DEF LedgerView
  <2> QED
    BY <2>2, <2>3, <2>4 DEF SameAuthorized
<1> QED
  BY <1>1, <1>2

LEMMA NodeStepIsLedgerStep ==
    RecordInv /\ RecordInv' /\ ChainInv /\ ChainInv' /\ LedgerView /\ LedgerView'
      /\ [NodeNext]_nodeVars
      => [Ledger!LedgerNext]_(Ledger!ledgerVars)
<1> SUFFICES ASSUME RecordInv, RecordInv', ChainInv, ChainInv', LedgerView, LedgerView',
                    [NodeNext]_nodeVars
             PROVE  [Ledger!LedgerNext]_(Ledger!ledgerVars)
  OBVIOUS
<1>r. ChainValid \in BOOLEAN /\ ChainValid' \in {ChainValid, FALSE}
  BY ReadableFalls
<1>1. ASSUME \A e \in Event : FateOf(e)' = FateOf(e) /\ SameAuthorized(e)
      PROVE  [Ledger!LedgerNext]_(Ledger!ledgerVars)
  <2>1. [e \in Event |-> FateOf(e)]' = [e \in Event |-> FateOf(e)]
    BY <1>1
  <2>2. AuthorizedEvents' = AuthorizedEvents
    BY <1>1 DEF AuthorizedEvents, SameAuthorized
  <2>3. Ledger!ReceiptOther
    BY <1>r, <2>1, <2>2 DEF Ledger!ReceiptOther, Ledger!Receipted, ChainValid
  <2> QED
    BY <2>3 DEF Ledger!LedgerNext
<1>2. CASE UNCHANGED <<run, pc, objects>>
  <2>1. \A e \in Event, k \in Job : Owns(k, e)' <=> Owns(k, e)
    BY <1>2 DEF Owns, Op, EventOf
  <2> QED
    BY <1>1, <1>2, <2>1, OtherEventsStay
<1>3. ASSUME NEW j \in Job, Call(j) \/ Step(j) \/ LoseRun(j)
      PROVE  [Ledger!LedgerNext]_(Ledger!ledgerVars)
  <2>1. NodeTypeOK
    BY DEF RecordInv
  <2>2. ASSUME NEW k \in Job, k # j
        PROVE  /\ run'[k] = run[k] /\ pc'[k] = pc[k]
               /\ objects'.authority[k] = objects.authority[k]
               /\ \A e \in Event : Owns(k, e)' <=> Owns(k, e)
    BY <1>3, <2>1, <2>2, OthersRecord DEF SameRecord, SameRun, Owns, Op, EventOf
  <2>3. ASSUME NEW e \in Event, ~Owns(j, e), ~Owns(j, e)'
        PROVE  FateOf(e)' = FateOf(e) /\ SameAuthorized(e)
    BY <2>2, <2>3, OtherEventsStay
  <2>4. ASSUME NEW e \in Event, Owns(j, e) PROVE Step(j) \/ LoseRun(j)
    BY <1>3, <2>1, <2>4, CallStart DEF RecordInv, RecordOf, PhaseOf, Owns
  <2>5. \A d, e \in Event : Owns(j, d) /\ Owns(j, e) => d = e
    BY DEF Owns
  <2>6. CASE \E e \in Event : Owns(j, e)
    <3>1. PICK e \in Event : Owns(j, e)
      BY <2>6
    <3>2. Step(j) \/ LoseRun(j)
      BY <2>4, <3>1
    <3>3. LedgerMove(e)
      BY <3>1, <3>2, OwnEventMoves
    <3>4. \A d \in Event : d # e => ~Owns(j, d) /\ ~Owns(j, d)'
      BY <2>1, <2>5, <3>1, <3>2, OwnersStay
    <3> QED
      BY <1>r, <2>3, <3>3, <3>4, LedgerStep
  <2>7. CASE (\A e \in Event : ~Owns(j, e)) /\ \E e \in Event : Owns(j, e)'
    <3>1. PICK e \in Event : Owns(j, e)'
      BY <2>7
    <3>2. e \notin objects.muef_event /\ run'[j].at = "event_stored"
      BY <1>3, <2>1, <2>7, <3>1, OwnerStep, StoredEvents
    <3>3. \A d \in Event : d # e => ~Owns(j, d)'
      BY <3>1 DEF Owns
    <3>4. FateOf(e) = "unseen" /\ e \notin AuthorizedEvents
      <4>1. \A k \in Job : ~Owns(k, e)
        BY <3>2 DEF RecordInv, RecordOf, ProgressOf, Owns
      <4> QED
        BY <4>1 DEF LedgerView
    <3>5. pc'[j] = "idle" /\ ~Allowed(j)'
      BY <3>2 DEF RecordInv, RecordOf, PhaseOf, ProgressOf, Unreceipted, Unexecuted,
         Undecided, Allowed, A!Allowed, NoDecision
    <3>6. FateOf(e)' = "pending" /\ ~(e \in AuthorizedEvents)'
      <4>1. FateOf(e)' = FateBy(j)' /\ ((e \in AuthorizedEvents)' <=> Allowed(j)')
        BY <3>1 DEF LedgerView
      <4> QED
        BY <3>2, <3>5, <4>1 DEF FateBy, Ended
    <3>7. SameReadable
      BY <1>3, <3>5, OnlyAppendsGrow, ReadableFalls
    <3>8. LedgerMove(e)
      BY <3>4, <3>6, <3>7 DEF LedgerMove, SameAuthorized
    <3> QED
      BY <1>r, <2>3, <2>7, <3>3, <3>8, LedgerStep
  <2>8. CASE \A e \in Event : ~Owns(j, e) /\ ~Owns(j, e)'
    BY <1>1, <2>3, <2>8
  <2> QED
    BY <2>6, <2>7, <2>8
<1> QED
  BY <1>2, <1>3 DEF NodeNext, nodeVars, ChangeFile, chainVars

(* Deliveries, threads and crashes notwithstanding, the node's receipts    *)
(* decide each event once and for all and call none executed that has no   *)
(* authority; a record that replays refuse stays so. It is a ledger of     *)
(* events.                                                                 *)
THEOREM NodeImplementsEventLedger == NodeSpec => ImplementsEventLedger
<1>1. NodeInit => Ledger!LedgerInit
  <2> SUFFICES ASSUME NodeInit PROVE Ledger!LedgerInit
    OBVIOUS
  <2>1. \A j \in Job, e \in Event : ~Owns(j, e)
    BY DEF NodeInit, NoRequest, Owns, Op
  <2>2. objects.muef_event = {}
    BY DEF NodeInit
  <2>3. \A e \in Event : FateOf(e) = "unseen"
    BY <2>2 DEF FateOf
  <2>4. AuthorizedEvents = {}
    BY <2>1 DEF AuthorizedEvents
  <2>5. VerifyChain(chain).valid = TRUE
    BY DEF NodeInit, ChainInit, VerifyChain, BadRows
  <2> QED
    BY <2>3, <2>4, <2>5 DEF Ledger!LedgerInit
<1> QED
  BY <1>1, NodeStepIsLedgerStep, LedgerViews, RecordInvariance, NodeRowsAreAppends, PTL
  DEF NodeSpec, ImplementsEventLedger, Ledger!LedgerSpec
=============================================================================
