------------------------- MODULE GenesisNodeProofs --------------------------
(***************************************************************************)
(* Theorems about GenesisNode, for every set of requests, events, files    *)
(* and runs. The node's steps on the receipt table are those of            *)
(* ReceiptChain, so what ReceiptChainProofs proves of the table holds of   *)
(* the node's; the rest is an inductive invariant of the runs. The second  *)
(* part is about what the node leaves behind: receipts tell the truth, no  *)
(* two of them are about the same output, and what is recalled hangs       *)
(* together.                                                               *)
(***************************************************************************)
EXTENDS GenesisNode, ReceiptChainProofs

-----------------------------------------------------------------------------
(* The receipt table of the node. *)

LEMMA NodeInitRefines == NodeInit => ChainInit
  BY DEF NodeInit

(* Of the receipt table, a step of a run moves its own receipt at most. *)
LEMMA ReceiptSteps ==
    ASSUME NEW j \in Job, Call(j) \/ Step(j) \/ LoseRun(j)
    PROVE  \/ MakeReceipt(j) \/ CheckHead(j) \/ RefuseReceipt(j)
           \/ InsertReceipt(j) \/ LoseReceipt(j)
           \/ UNCHANGED chainVars
<1>1. CASE Call(j)
  BY <1>1 DEF Call, ReceiveEvent, StoreEvent, RejectEvent, RequestInspection,
     StartReplay, RequestQualification, RejectQualification, StartRecall
<1>2. CASE LoseRun(j)
  BY <1>2 DEF LoseRun
<1>3. CASE ReceiptExecution(j) \/ ReceiptNonExecution(j)
  BY <1>3 DEF ReceiptExecution, ReceiptNonExecution, IssueReceipt
<1>4. CASE AppendReceipt(j)
  BY <1>4 DEF AppendReceipt
<1>5. CASE Step(j) /\ ~ReceiptExecution(j) /\ ~ReceiptNonExecution(j) /\ ~AppendReceipt(j)
  BY <1>5 DEF Step, RecordPatchIntent, DecideAuthority, HashFile, Observe,
     StoreArtifact, VerifyFile, StoreExecution, FileGone, ExecutePatch,
     QualifyClaim, FailQualification, StoreMemory, VerifyForReplay, See,
     RefuseReplay, IndexReceipts, AnswerReplay, FailReplay, LocateArtifact,
     LocateClaim, SeeSubject, RecallArtifact, RecallClaim, SeeMemories,
     SeeReceipts, FinishRecall
<1> QED
  BY <1>1, <1>2, <1>3, <1>4, <1>5

LEMMA NodeStepRefines == [NodeNext]_nodeVars => [ChainNext]_chainVars
<1> SUFFICES ASSUME [NodeNext]_nodeVars PROVE [ChainNext]_chainVars
  OBVIOUS
<1>1. CASE UNCHANGED nodeVars
  BY <1>1 DEF nodeVars, chainVars
<1>2. ASSUME NEW j \in Job, Call(j) \/ Step(j) \/ LoseRun(j)
      PROVE  [ChainNext]_chainVars
  BY <1>2, ReceiptSteps DEF ChainNext, Job
<1>3. ASSUME NEW p \in Path, NEW content \in Content \cup {Missing},
             ChangeFile(p, content)
      PROVE  UNCHANGED chainVars
  BY <1>3 DEF ChangeFile
<1> QED
  BY <1>1, <1>2, <1>3 DEF NodeNext

(* Whatever the node's handlers do, and wherever they die, its receipt     *)
(* table behaves as ReceiptChain says.                                     *)
THEOREM NodeImplementsReceiptChain == NodeSpec => ChainSpec
  BY NodeInitRefines, NodeStepRefines, PTL DEF NodeSpec, ChainSpec

(* The node's receipts: rows are linked, told is stored, refusals stand.   *)
THEOREM NodeReceiptsAreSound ==
    NodeSpec => [](Linkage /\ AppendedOnce /\ RefusalIsFinal)
  BY NodeImplementsReceiptChain, RowsAreLinked, AppendsAreRows, RefusalStands, PTL

(* One call at a time: the chain that replay demands to be valid is valid. *)
THEOREM SerialNodeChainIsValid ==
    ASSUME Serial
    PROVE  NodeSpec => []ChainValid
  BY NodeImplementsReceiptChain, SerialChainIsValid, PTL

(* One call at a time: the node's table is the append-only log that the    *)
(* documents describe.                                                     *)
THEOREM SerialNodeImplementsLog ==
    ASSUME Serial
    PROVE  NodeSpec => ImplementsChainLog
  BY NodeImplementsReceiptChain, SerialChainImplementsLog, PTL

-----------------------------------------------------------------------------
(* Types. *)

LEMMA NodeInitType == NodeInit => NodeTypeOK
<1> SUFFICES ASSUME NodeInit PROVE NodeTypeOK
  OBVIOUS
<1>1. ChainTypeOK
  BY InitChainInv DEF NodeInit, ChainInv
<1>2. objects \in Store
  <2>2. [j \in Job |-> NoDecision] \in [Job -> A!Decisions \cup {NoDecision}]
    OBVIOUS
  <2>3. [j \in Job |-> "none"] \in [Job -> {"none", "success", "mismatch"}]
    OBVIOUS
  <2> QED
    BY <2>2, <2>3 DEF NodeInit, Store
<1>3. NoPayload \in Payload /\ NotHashed \in Hashed /\ NoView \in View
  BY DEF NoPayload, Payload, PayloadRefs, NotHashed, Hashed, NoView, View, NoHash, Hash
<1>4. run \in [Job -> RunState]
  BY <1>3 DEF NodeInit, RunState, Stage
<1>5. file \in [Path -> Content \cup {Missing}]
        /\ changes \in 0 .. MaxFileChanges
  BY FilesAssumption DEF NodeInit
<1> QED
  BY <1>1, <1>2, <1>4, <1>5 DEF NodeTypeOK

(* Changing one part of one run's locals leaves the rest typed. *)
LEMMA RunUpdate ==
    ASSUME run \in [Job -> RunState], NEW j \in Job
    PROVE  /\ \A s \in Stage : [run EXCEPT ![j].at = s] \in [Job -> RunState]
           /\ \A s \in Stage, q \in Requests :
                [run EXCEPT ![j].at = s, ![j].request = q] \in [Job -> RunState]
           /\ \A s \in Stage, p \in Payload :
                [run EXCEPT ![j].at = s, ![j].payload = p] \in [Job -> RunState]
           /\ \A s \in Stage, h \in Hashed :
                [run EXCEPT ![j].at = s, ![j].hashed = h] \in [Job -> RunState]
           /\ \A s \in Stage, v \in View :
                [run EXCEPT ![j].at = s, ![j].view = v] \in [Job -> RunState]
  BY DEF RunState

(* The guard's decision is a decision. *)
LEMMA EvaluateType ==
    ASSUME NEW action, NEW scope, NEW target
    PROVE  A!Evaluate(action, scope, target) \in A!Decisions
<1>1. A!EvaluateArtifactInspect(scope, target) \in A!Decisions
  BY DEF A!EvaluateArtifactInspect, A!Decision, A!Decisions, A!TreLogic,
     A!ReasonCode
<1>2. A!EvaluateStatePatch(scope, target) \in A!Decisions
  BY DEF A!EvaluateStatePatch, A!Decision, A!Decisions, A!TreLogic,
     A!ReasonCode
<1>3. A!EvaluateClaimQualify(scope, target) \in A!Decisions
  BY DEF A!EvaluateClaimQualify, A!Decision, A!Decisions, A!TreLogic,
     A!ReasonCode
<1>4. A!Decision("-1", "policy.action_not_allowlisted") \in A!Decisions
  BY DEF A!Decision, A!Decisions, A!TreLogic, A!ReasonCode
<1> QED
  BY <1>1, <1>2, <1>3, <1>4 DEF A!Evaluate

(* Storing one object leaves the store typed. *)
LEMMA StoreUpdate ==
    ASSUME objects \in Store, NEW j \in Job
    PROVE  /\ \A e \in WellFormed :
                [objects EXCEPT !.muef_event = @ \cup {e}] \in Store
           /\ [objects EXCEPT !.intent = @ \cup {j}] \in Store
           /\ [objects EXCEPT !.artifact = @ \cup {j}] \in Store
           /\ [objects EXCEPT !.memory = @ \cup {j}] \in Store
           /\ \A d \in A!Decisions : [objects EXCEPT !.authority[j] = d] \in Store
           /\ \A x \in {"success", "mismatch"} :
                [objects EXCEPT !.execution[j] = x] \in Store
  BY DEF Store

LEMMA CallType ==
    ASSUME NodeTypeOK, ChainTypeOK', NEW j \in Job, Call(j)
    PROVE  NodeTypeOK'
<1>1. PICK q \in Requests :
        \/ ReceiveEvent(j, q) \/ RejectEvent(j, q) \/ RequestInspection(j, q)
        \/ StartReplay(j, q) \/ RequestQualification(j, q) \/ RejectQualification(j, q)
        \/ StartRecall(j, q)
  BY DEF Call
<1>2. PICK s \in {"event_stored", "rejected", "intent_stored", "remembered", "recalling"} :
        Begin(j, q, s)
  BY <1>1 DEF ReceiveEvent, StoreEvent, RejectEvent, RequestInspection,
     StartReplay, RequestQualification, RejectQualification, StartRecall
<1>3. run' \in [Job -> RunState]
  BY <1>2, RunUpdate DEF NodeTypeOK, Begin, Stage, Ended
<1>4. UNCHANGED envVars
  BY <1>1 DEF ReceiveEvent, StoreEvent, RejectEvent, RequestInspection,
     StartReplay, RequestQualification, RejectQualification, StartRecall
<1>5. objects' \in Store
  <2>1. CASE ReceiveEvent(j, q)
    BY <2>1, StoreUpdate DEF NodeTypeOK, ReceiveEvent, StoreEvent
  <2>2. CASE RequestInspection(j, q) \/ RequestQualification(j, q)
    BY <2>2, StoreUpdate DEF NodeTypeOK, RequestInspection, RequestQualification
  <2>3. CASE RejectEvent(j, q) \/ StartReplay(j, q) \/ RejectQualification(j, q)
               \/ StartRecall(j, q)
    BY <2>3 DEF NodeTypeOK, RejectEvent, StartReplay, RejectQualification, StartRecall
  <2> QED
    BY <1>1, <2>1, <2>2, <2>3
<1> QED
  BY <1>3, <1>4, <1>5 DEF NodeTypeOK, envVars

(* The steps that move on and put nothing else into the run's locals. *)
LEMMA GotoType ==
    ASSUME NodeTypeOK, ChainTypeOK', NEW j \in Job, NEW from, NEW to \in Stage,
           Goto(j, from, to), objects' \in Store, UNCHANGED envVars
    PROVE  NodeTypeOK'
  BY RunUpdate DEF NodeTypeOK, Goto, envVars

LEMMA DecideType ==
    ASSUME NodeTypeOK, ChainTypeOK', NEW j \in Job, DecideAuthority(j)
    PROVE  NodeTypeOK'
<1>1. A!Evaluate(Op(j), run[j].request.scope, TargetOf(j)) \in A!Decisions
  BY EvaluateType
<1>2. objects' \in Store
  BY <1>1, StoreUpdate DEF NodeTypeOK, DecideAuthority
<1>3. "authority_stored" \in Stage
  BY DEF Stage
<1>4. UNCHANGED envVars /\ Goto(j, "intent_stored", "authority_stored")
  BY DEF DecideAuthority
<1> QED
  BY <1>2, <1>3, <1>4, GotoType

LEMMA StorageType ==
    ASSUME NodeTypeOK, ChainTypeOK', NEW j \in Job,
           \/ RecordPatchIntent(j) \/ StoreArtifact(j) \/ VerifyFile(j)
           \/ ExecutePatch(j) \/ QualifyClaim(j) \/ StoreMemory(j)
    PROVE  NodeTypeOK'
<1>1. objects' \in Store
  BY StoreUpdate DEF NodeTypeOK, RecordPatchIntent, StoreArtifact, VerifyFile,
     ExecutePatch, QualifyClaim, StoreMemory, StoreExecution
<1>2. \E s, to \in Stage : Goto(j, s, to)
  BY DEF RecordPatchIntent, StoreArtifact, VerifyFile, ExecutePatch,
     QualifyClaim, StoreMemory, StoreExecution, AfterMemory, Stage, Ended
<1>3. UNCHANGED envVars
  BY DEF RecordPatchIntent, StoreArtifact, VerifyFile, ExecutePatch,
     QualifyClaim, StoreMemory, StoreExecution
<1> QED
  BY <1>1, <1>2, <1>3, GotoType

LEMMA QuietType ==
    ASSUME NodeTypeOK, ChainTypeOK', NEW j \in Job,
           \/ FileGone(j) \/ FailQualification(j) \/ AppendReceipt(j) \/ LoseRun(j)
    PROVE  NodeTypeOK'
<1>1. UNCHANGED <<objects, envVars>>
  BY DEF FileGone, FailQualification, AppendReceipt, LoseRun
<1>2. PICK to \in Stage : run' = [run EXCEPT ![j].at = to]
  BY DEF FileGone, FailQualification, AppendReceipt, LoseRun, Goto, Stage, Ended
<1>3. run' \in [Job -> RunState]
  BY <1>2, RunUpdate DEF NodeTypeOK
<1> QED
  BY <1>1, <1>3 DEF NodeTypeOK, envVars

LEMMA HashFileType ==
    ASSUME NodeTypeOK, ChainTypeOK', NEW j \in Job, HashFile(j)
    PROVE  NodeTypeOK'
<1>1. FileOf(j) \in Content \cup {Missing}
  <2>1. run[j].request \in Requests \cup {NoRequest} /\ run[j].request.op = "artifact.inspect"
    BY DEF NodeTypeOK, RunState, HashFile, Op
  <2>2. run[j].request \in InspectRequest
    BY <2>1, RequestsAssumption
    DEF NoRequest, PatchRequest, InspectRequest, ReplayRequest, ClaimRequest, RecallRequest
  <2>3. run[j].request.path \in Path
    BY <2>2 DEF InspectRequest
  <2> QED
    BY <2>3 DEF NodeTypeOK, FileOf
<1>2. PICK n \in Place : run' = [run EXCEPT
        ![j].at = "hashed", ![j].hashed = [sha256 |-> FileOf(j), place |-> n]]
  BY DEF HashFile, Observe
<1>3. [sha256 |-> FileOf(j), place |-> n] \in Hashed
  BY <1>1 DEF Hashed
<1>4. run' \in [Job -> RunState]
  BY <1>2, <1>3, RunUpdate DEF NodeTypeOK, Stage
<1> QED
  BY <1>4 DEF NodeTypeOK, HashFile, Observe, envVars

LEMMA IssueReceiptType ==
    ASSUME NodeTypeOK, ChainTypeOK', NEW j \in Job,
           NEW from, NEW class \in {"proposed", "executed", "derived"},
           NEW own \in {"artifact", "authority"},
           IssueReceipt(j, from, class, RefOf(j, own))
    PROVE  NodeTypeOK'
<1>1. RefOf(j, own) \in PayloadRefs
  <2>1. run[j].request \in Requests \cup {NoRequest}
    BY DEF NodeTypeOK, RunState
  <2>2. Op(j) = "state.patch" => EventOf(j) \in Event
    BY <2>1, RequestsAssumption DEF Op, EventOf, NoRequest, PatchRequest,
       InspectRequest, ReplayRequest, ClaimRequest, RecallRequest
  <2>3. Op(j) = "claim.qualify" => run[j].request.claim \in Claim
    BY <2>1, RequestsAssumption DEF Op, NoRequest, PatchRequest,
       InspectRequest, ReplayRequest, ClaimRequest, RecallRequest
  <2> QED
    BY <2>2, <2>3 DEF RefOf, PayloadRefs
<1>2. Decision(j).tre_logic \in A!TreLogic \cup {"none"}
  BY DEF NodeTypeOK, Store, Decision, A!Decisions, NoDecision
<1>3. run' \in [Job -> RunState]
  <2> DEFINE p == [source_class |-> class, tre_logic |-> Decision(j).tre_logic,
                   output_ref |-> RefOf(j, own)]
  <2>1. p \in Payload
    BY <1>1, <1>2 DEF Payload
  <2>2. run' = [run EXCEPT ![j].at = "receipting", ![j].payload = p]
    BY DEF IssueReceipt
  <2> QED
    BY <2>1, <2>2, RunUpdate DEF NodeTypeOK, Stage
<1> QED
  BY <1>3 DEF NodeTypeOK, IssueReceipt, envVars

LEMMA ReceiptType ==
    ASSUME NodeTypeOK, ChainTypeOK', NEW j \in Job,
           ReceiptExecution(j) \/ ReceiptNonExecution(j)
    PROVE  NodeTypeOK'
<1>1. ExecutedClass(j) \in {"proposed", "executed", "derived"}
  BY DEF ExecutedClass
<1>2. CASE ReceiptExecution(j)
  BY <1>1, <1>2, IssueReceiptType DEF ReceiptExecution
<1>3. CASE ReceiptNonExecution(j)
  BY <1>3, IssueReceiptType DEF ReceiptNonExecution
<1> QED
  BY <1>2, <1>3

LEMMA ReplayType ==
    ASSUME NodeTypeOK, ChainTypeOK', NEW j \in Job,
           \/ VerifyForReplay(j) \/ RefuseReplay(j) \/ IndexReceipts(j)
           \/ AnswerReplay(j) \/ FailReplay(j)
    PROVE  NodeTypeOK'
<1>1. run[j].view \in View
  BY DEF NodeTypeOK, RunState
<1>2. VerifyChain(chain).head \in Hash
  BY HashOfRowType DEF NodeTypeOK, ChainTypeOK, VerifyChain, NoHash, Hash
<1>3. \A refs : EventRefs(refs) \subseteq Event
  BY DEF EventRefs
<1>4. ToApply(j) \subseteq Event
  BY EventsAssumption DEF NodeTypeOK, Store, ToApply
<1>5. PICK from, to \in Stage, view \in View : See(j, from, to, view)
  <2>1. CASE VerifyForReplay(j)
    BY <1>1, <1>2, <2>1 DEF VerifyForReplay, View, Stage
  <2>2. CASE RefuseReplay(j) \/ FailReplay(j)
    BY <1>1, <2>2 DEF RefuseReplay, FailReplay, Stage, Ended
  <2>3. CASE IndexReceipts(j)
    BY <1>1, <1>3, <2>3 DEF IndexReceipts, View, Stage
  <2>4. CASE AnswerReplay(j)
    BY <1>1, <1>4, <2>4 DEF AnswerReplay, View, Stage, Ended
  <2> QED
    BY <2>1, <2>2, <2>3, <2>4
<1> QED
  BY <1>5, RunUpdate DEF NodeTypeOK, See, envVars

LEMMA RecallType ==
    ASSUME NodeTypeOK, ChainTypeOK', NEW j \in Job,
           \/ LocateArtifact(j) \/ LocateClaim(j) \/ RecallArtifact(j)
           \/ RecallClaim(j) \/ FinishRecall(j)
    PROVE  NodeTypeOK'
<1>1. run[j].view \in View /\ run[j].request \in Requests \cup {NoRequest}
  BY DEF NodeTypeOK, RunState
<1>2. \A subject \in PayloadRefs :
        [run[j].view EXCEPT !.subject = subject] \in View
  BY <1>1 DEF View
<1>3. \A jobs \in SUBSET Job :
        /\ [run[j].view EXCEPT !.memories = jobs] \in View
        /\ [run[j].view EXCEPT !.history = jobs] \in View
        /\ [run[j].view EXCEPT !.resolved = jobs] \in View
  BY <1>1 DEF View
<1>4. PICK from, to \in Stage, view \in View : See(j, from, to, view)
  <2>1. CASE LocateArtifact(j)
    <3>1. \A p : \A k \in FindArtifact(p) : <<"artifact", k>> \in PayloadRefs
      BY DEF NodeTypeOK, Store, FindArtifact, ArtifactsAt, PayloadRefs
    <3> QED
      BY <1>1, <1>2, <2>1, <3>1 DEF LocateArtifact, SeeSubject, Stage, Ended
  <2>2. CASE LocateClaim(j)
    <3>1. run[j].request.claim \in Claim
      BY <1>1, <2>2, RequestsAssumption DEF LocateClaim, Op, NoRequest, PatchRequest,
         InspectRequest, ReplayRequest, ClaimRequest, RecallRequest
    <3>2. <<"claim", run[j].request.claim>> \in PayloadRefs
      BY <3>1 DEF PayloadRefs
    <3> QED
      BY <1>2, <2>2, <3>2 DEF LocateClaim, SeeSubject, Stage
  <2>3. CASE RecallArtifact(j) \/ RecallClaim(j)
    <3>1. \A subject : MemoriesOf(subject) \in SUBSET Job /\ ReceiptsOf(subject) \in SUBSET Job
      BY DEF NodeTypeOK, Store, MemoriesOf, ReceiptsOf
    <3> QED
      BY <1>3, <2>3, <3>1 DEF RecallArtifact, RecallClaim, SeeMemories, SeeReceipts, Stage
  <2>4. CASE FinishRecall(j)
    <3>1. {k \in run[j].view.history : Resolves(k)} \in SUBSET Job
      BY <1>1 DEF View
    <3> QED
      BY <1>3, <2>4, <3>1 DEF FinishRecall, Stage, Ended
  <2> QED
    BY <2>1, <2>2, <2>3, <2>4
<1> QED
  BY <1>4, RunUpdate DEF NodeTypeOK, See, envVars

LEMMA ChangeFileType ==
    ASSUME NodeTypeOK, ChainTypeOK', NEW p \in Path, NEW content \in Content \cup {Missing},
           ChangeFile(p, content)
    PROVE  NodeTypeOK'
<1>1. changes' \in 0 .. MaxFileChanges
  BY FilesAssumption DEF NodeTypeOK, ChangeFile
<1>2. file' \in [Path -> Content \cup {Missing}]
  BY DEF NodeTypeOK, ChangeFile
<1> QED
  BY <1>1, <1>2 DEF NodeTypeOK, ChangeFile

LEMMA NodeStepType ==
    NodeTypeOK /\ ChainTypeOK' /\ [NodeNext]_nodeVars => NodeTypeOK'
<1> SUFFICES ASSUME NodeTypeOK, ChainTypeOK', [NodeNext]_nodeVars PROVE NodeTypeOK'
  OBVIOUS
<1>1. CASE UNCHANGED nodeVars
  BY <1>1 DEF nodeVars, NodeTypeOK
<1>2. ASSUME NEW j \in Job, Call(j) PROVE NodeTypeOK'
  BY <1>2, CallType
<1>3. ASSUME NEW j \in Job, Step(j) PROVE NodeTypeOK'
  BY <1>3, DecideType, StorageType, QuietType, HashFileType, ReceiptType,
     ReplayType, RecallType DEF Step
<1>4. ASSUME NEW j \in Job, LoseRun(j) PROVE NodeTypeOK'
  BY <1>4, QuietType
<1>5. ASSUME NEW p \in Path, NEW content \in Content \cup {Missing},
             ChangeFile(p, content)
      PROVE  NodeTypeOK'
  BY <1>5, ChangeFileType
<1> QED
  BY <1>1, <1>2, <1>3, <1>4, <1>5 DEF NodeNext

(* The store, the runs' locals and the receipt table keep their types,     *)
(* whatever is asked of the node and whichever of its runs die.            *)
THEOREM NodeTypeCorrect == NodeSpec => []NodeTypeOK
<1>1. NodeSpec => []ChainTypeOK
  BY NodeImplementsReceiptChain, ChainTypeCorrect, PTL
<1> QED
  BY <1>1, NodeInitType, NodeStepType, PTL DEF NodeSpec

-----------------------------------------------------------------------------
(* Authority before effect. The property alone is not inductive: it takes  *)
(* where a run is to know that a decision comes before the first effect    *)
(* and is not taken again after it.                                        *)

Effect(j) ==
    run[j].hashed # NotHashed \/ j \in objects.artifact \/ objects.execution[j] # "none"

AuthorityOf(j) ==
    /\ Decision(j) # NoDecision => j \in objects.intent
    /\ Effect(j) => Allowed(j)
    /\ run[j].at \in {"new", "event_stored", "intent_stored"} => ~Effect(j)
    /\ run[j].at = "intent_stored" => j \in objects.intent
    /\ run[j].at \in {"hashed", "artifact_stored"} => Allowed(j)

AuthorityInv == NodeTypeOK /\ \A j \in Job : AuthorityOf(j)

(* What a step leaves alone for the runs other than its own. *)
SameRun(k) ==
    /\ run'[k] = run[k]
    /\ objects'.authority[k] = objects.authority[k]
    /\ objects'.execution[k] = objects.execution[k]
    /\ k \in objects'.artifact <=> k \in objects.artifact
    /\ k \in objects'.intent <=> k \in objects.intent

LEMMA SameRunAuthority ==
    ASSUME NEW k \in Job, SameRun(k), AuthorityOf(k)
    PROVE  AuthorityOf(k)'
  BY DEF SameRun, AuthorityOf, Effect, Decision, Allowed, NotHashed, NoDecision,
     A!Allowed

LEMMA InitAuthority == NodeInit => AuthorityInv
<1> SUFFICES ASSUME NodeInit PROVE AuthorityInv
  OBVIOUS
<1>1. ASSUME NEW j \in Job PROVE AuthorityOf(j)
  BY DEF NodeInit, AuthorityOf, Effect, Decision
<1> QED
  BY <1>1, NodeInitType DEF AuthorityInv

(* A step of one run is none of another's. *)
LEMMA OtherRuns ==
    ASSUME NodeTypeOK, NEW j \in Job, NEW k \in Job, k # j,
           Call(j) \/ Step(j) \/ LoseRun(j)
    PROVE  SameRun(k)
<1>1. run'[k] = run[k]
  <2>1. CASE Call(j)
    BY <2>1 DEF NodeTypeOK, Call, ReceiveEvent, StoreEvent, RejectEvent,
       RequestInspection, StartReplay, RequestQualification,
       RejectQualification, StartRecall, Begin
  <2>2. CASE LoseRun(j)
    BY <2>2 DEF NodeTypeOK, LoseRun
  <2>3. CASE Step(j)
    BY <2>3 DEF NodeTypeOK, Step, RecordPatchIntent, DecideAuthority, HashFile,
       Observe, StoreArtifact, VerifyFile, StoreExecution, FileGone, ExecutePatch,
       QualifyClaim, FailQualification, ReceiptExecution, ReceiptNonExecution,
       IssueReceipt, AppendReceipt, StoreMemory, VerifyForReplay, See,
       RefuseReplay, IndexReceipts, AnswerReplay, FailReplay, LocateArtifact,
       LocateClaim, SeeSubject, RecallArtifact, RecallClaim, SeeMemories,
       SeeReceipts, FinishRecall, Goto
  <2> QED
    BY <2>1, <2>2, <2>3
<1>2. /\ objects'.authority[k] = objects.authority[k]
      /\ objects'.execution[k] = objects.execution[k]
      /\ k \in objects'.artifact <=> k \in objects.artifact
      /\ k \in objects'.intent <=> k \in objects.intent
  <2>1. CASE Call(j)
    BY <2>1 DEF NodeTypeOK, Store, Call, ReceiveEvent, StoreEvent, RejectEvent,
       RequestInspection, StartReplay, RequestQualification, RejectQualification,
       StartRecall
  <2>2. CASE LoseRun(j)
    BY <2>2 DEF LoseRun
  <2>3. CASE \/ RecordPatchIntent(j) \/ DecideAuthority(j) \/ StoreArtifact(j)
             \/ VerifyFile(j) \/ ExecutePatch(j) \/ QualifyClaim(j) \/ StoreMemory(j)
    BY <2>3 DEF NodeTypeOK, Store, RecordPatchIntent, DecideAuthority,
       StoreArtifact, VerifyFile, StoreExecution, ExecutePatch, QualifyClaim,
       StoreMemory
  <2>4. CASE \/ HashFile(j) \/ FileGone(j) \/ FailQualification(j)
             \/ ReceiptExecution(j) \/ ReceiptNonExecution(j) \/ AppendReceipt(j)
    BY <2>4 DEF HashFile, Observe, FileGone, FailQualification, ReceiptExecution,
       ReceiptNonExecution, IssueReceipt, AppendReceipt
  <2>5. CASE \/ VerifyForReplay(j) \/ RefuseReplay(j) \/ IndexReceipts(j)
             \/ AnswerReplay(j) \/ FailReplay(j) \/ LocateArtifact(j)
             \/ LocateClaim(j) \/ RecallArtifact(j) \/ RecallClaim(j) \/ FinishRecall(j)
    BY <2>5 DEF VerifyForReplay, See, RefuseReplay, IndexReceipts, AnswerReplay,
       FailReplay, LocateArtifact, LocateClaim, SeeSubject, RecallArtifact,
       RecallClaim, SeeMemories, SeeReceipts, FinishRecall
  <2> QED
    BY <2>1, <2>2, <2>3, <2>4, <2>5 DEF Step
<1> QED
  BY <1>1, <1>2 DEF SameRun

LEMMA CallAuthority ==
    ASSUME NodeTypeOK, NEW j \in Job, AuthorityOf(j), Call(j)
    PROVE  AuthorityOf(j)'
<1>1. PICK q \in Requests :
        \/ ReceiveEvent(j, q) \/ RejectEvent(j, q) \/ RequestInspection(j, q)
        \/ StartReplay(j, q) \/ RequestQualification(j, q) \/ RejectQualification(j, q)
        \/ StartRecall(j, q)
  BY DEF Call
<1>2. run[j].at = "new" /\ run'[j].hashed = run[j].hashed
  BY <1>1 DEF NodeTypeOK, RunState, ReceiveEvent, StoreEvent, RejectEvent,
     RequestInspection, StartReplay, RequestQualification, RejectQualification, StartRecall,
     Begin
<1>3. /\ objects'.authority = objects.authority
      /\ objects'.execution = objects.execution
      /\ objects'.artifact = objects.artifact
      /\ objects.intent \subseteq objects'.intent
  BY <1>1 DEF NodeTypeOK, Store, ReceiveEvent, StoreEvent, RejectEvent,
     RequestInspection, StartReplay, RequestQualification, RejectQualification,
     StartRecall
<1>4. run'[j].at \notin {"hashed", "artifact_stored"}
  BY <1>1 DEF NodeTypeOK, RunState, ReceiveEvent, StoreEvent, RejectEvent,
     RequestInspection, StartReplay, RequestQualification, RejectQualification, StartRecall,
     Begin
<1>5. run'[j].at = "intent_stored" => j \in objects'.intent
  BY <1>1 DEF NodeTypeOK, RunState, Store, ReceiveEvent, StoreEvent, RejectEvent,
     RequestInspection, StartReplay, RequestQualification, RejectQualification, StartRecall,
     Begin
<1>6. ~Effect(j) /\ ~Effect(j)'
  BY <1>2, <1>3 DEF AuthorityOf, Effect, NotHashed
<1> QED
  BY <1>3, <1>4, <1>5, <1>6 DEF AuthorityOf, Decision, NoDecision

(* The one step that changes a decision; nothing was done before it.       *)
LEMMA DecideAuthorityHolds ==
    ASSUME NodeTypeOK, NEW j \in Job, AuthorityOf(j), DecideAuthority(j)
    PROVE  AuthorityOf(j)'
<1>1. run[j].at = "intent_stored" /\ run'[j].at = "authority_stored"
        /\ run'[j].hashed = run[j].hashed
  BY DEF NodeTypeOK, RunState, DecideAuthority, Goto
<1>2. /\ objects'.execution = objects.execution
      /\ objects'.artifact = objects.artifact
      /\ objects'.intent = objects.intent
  BY DEF NodeTypeOK, Store, DecideAuthority
<1>3. ~Effect(j)' /\ j \in objects'.intent
  BY <1>1, <1>2 DEF AuthorityOf, Effect, NotHashed
<1> QED
  BY <1>1, <1>3 DEF AuthorityOf

(* The steps that have an effect, all of which see the decision +1. *)
LEMMA EffectAuthority ==
    ASSUME NodeTypeOK, NEW j \in Job, AuthorityOf(j),
           \/ HashFile(j) \/ StoreArtifact(j) \/ VerifyFile(j)
           \/ ExecutePatch(j) \/ QualifyClaim(j)
    PROVE  AuthorityOf(j)'
<1>1. Allowed(j)
  BY DEF HashFile, StoreArtifact, VerifyFile, ExecutePatch, QualifyClaim,
     StoreExecution, AuthorityOf, Goto
<1>2. objects'.authority = objects.authority /\ objects'.intent = objects.intent
  BY DEF NodeTypeOK, Store, HashFile, Observe, StoreArtifact, VerifyFile,
     ExecutePatch, QualifyClaim, StoreExecution
<1>3. run'[j].at \in {"hashed", "artifact_stored", "execution_stored"}
  BY DEF NodeTypeOK, RunState, HashFile, Observe, StoreArtifact, VerifyFile,
     ExecutePatch, QualifyClaim, StoreExecution, Goto
<1>4. Allowed(j)' /\ (Decision(j)' # NoDecision => j \in objects'.intent)
  BY <1>1, <1>2 DEF AuthorityOf, Allowed, Decision, NoDecision, A!Allowed
<1> QED
  BY <1>3, <1>4 DEF AuthorityOf

(* A step that reads changes where its run is and what the run has seen.   *)
LEMMA SeeKeeps ==
    ASSUME NodeTypeOK, NEW j \in Job, NEW from, NEW to, NEW view, See(j, from, to, view)
    PROVE  /\ run[j].at = from /\ run'[j].at = to
           /\ run'[j].hashed = run[j].hashed /\ run'[j].request = run[j].request
           /\ run'[j].payload = run[j].payload
           /\ UNCHANGED <<chainVars, objects, envVars>>
  BY DEF See, NodeTypeOK, RunState

LEMMA ReplayKeeps ==
    ASSUME NodeTypeOK, NEW j \in Job,
           \/ VerifyForReplay(j) \/ RefuseReplay(j) \/ IndexReceipts(j)
           \/ AnswerReplay(j) \/ FailReplay(j)
    PROVE  /\ run[j].at \in {"remembered", "verified", "indexed"}
           /\ run'[j].at \in {"verified", "indexed", "raised", "unhashable", "done"}
           /\ run'[j].hashed = run[j].hashed /\ run'[j].request = run[j].request
           /\ run'[j].payload = run[j].payload
           /\ UNCHANGED <<chainVars, objects, envVars>>
<1>1. CASE VerifyForReplay(j) \/ RefuseReplay(j)
  BY <1>1, SeeKeeps DEF VerifyForReplay, RefuseReplay
<1>2. CASE IndexReceipts(j)
  BY <1>2, SeeKeeps DEF IndexReceipts
<1>3. CASE AnswerReplay(j) \/ FailReplay(j)
  BY <1>3, SeeKeeps DEF AnswerReplay, FailReplay
<1> QED
  BY <1>1, <1>2, <1>3

LEMMA RecallKeeps ==
    ASSUME NodeTypeOK, NEW j \in Job,
           \/ LocateArtifact(j) \/ LocateClaim(j) \/ RecallArtifact(j)
           \/ RecallClaim(j) \/ FinishRecall(j)
    PROVE  /\ run[j].at \in {"recalling", "located", "half_read", "gathered"}
           /\ run'[j].at \in {"located", "half_read", "gathered", "done"}
           /\ run'[j].hashed = run[j].hashed /\ run'[j].request = run[j].request
           /\ run'[j].payload = run[j].payload
           /\ UNCHANGED <<chainVars, objects, envVars>>
<1>1. CASE LocateArtifact(j) \/ LocateClaim(j)
  <2>1. \E view : See(j, "recalling", "done", view) \/ See(j, "recalling", "located", view)
    BY <1>1, Zenon DEF LocateArtifact, LocateClaim, SeeSubject
  <2> QED
    BY <2>1, SeeKeeps
<1>2. CASE RecallArtifact(j) \/ RecallClaim(j)
  BY <1>2, SeeKeeps DEF RecallArtifact, RecallClaim, SeeMemories, SeeReceipts
<1>3. CASE FinishRecall(j)
  BY <1>3, SeeKeeps DEF FinishRecall
<1> QED
  BY <1>1, <1>2, <1>3

(* The other steps, which move on. *)
LEMMA QuietAuthority ==
    ASSUME NodeTypeOK, NEW j \in Job, AuthorityOf(j),
           \/ RecordPatchIntent(j) \/ FileGone(j) \/ FailQualification(j)
           \/ ReceiptExecution(j) \/ ReceiptNonExecution(j) \/ AppendReceipt(j)
           \/ StoreMemory(j) \/ VerifyForReplay(j) \/ RefuseReplay(j)
           \/ IndexReceipts(j) \/ AnswerReplay(j) \/ FailReplay(j) \/ LoseRun(j)
           \/ LocateArtifact(j) \/ LocateClaim(j) \/ RecallArtifact(j)
           \/ RecallClaim(j) \/ FinishRecall(j)
    PROVE  AuthorityOf(j)'
<1> DEFINE Quiet ==
      /\ objects'.authority = objects.authority
      /\ objects'.execution = objects.execution
      /\ objects'.artifact = objects.artifact
      /\ objects.intent \subseteq objects'.intent
      /\ run'[j].hashed = run[j].hashed
      /\ run'[j].at \notin {"new", "event_stored", "hashed", "artifact_stored"}
      /\ run'[j].at = "intent_stored" =>
           run[j].at = "event_stored" /\ j \in objects'.intent
<1>1. ASSUME RecordPatchIntent(j) \/ FileGone(j) \/ FailQualification(j)
      PROVE  Quiet
  BY <1>1 DEF NodeTypeOK, RunState, Store, RecordPatchIntent, FileGone,
     FailQualification, Goto
<1>2. ASSUME ReceiptExecution(j) \/ ReceiptNonExecution(j)
      PROVE  Quiet
  BY <1>2 DEF NodeTypeOK, RunState, ReceiptExecution, ReceiptNonExecution, IssueReceipt
<1>3. ASSUME AppendReceipt(j) \/ StoreMemory(j) \/ LoseRun(j)
      PROVE  Quiet
  BY <1>3 DEF NodeTypeOK, RunState, Store, AppendReceipt, StoreMemory, AfterMemory,
     LoseRun, Goto
<1>4. ASSUME \/ VerifyForReplay(j) \/ RefuseReplay(j) \/ IndexReceipts(j)
             \/ AnswerReplay(j) \/ FailReplay(j)
      PROVE  Quiet
  BY <1>4, ReplayKeeps
<1>5. ASSUME \/ LocateArtifact(j) \/ LocateClaim(j) \/ RecallArtifact(j)
             \/ RecallClaim(j) \/ FinishRecall(j)
      PROVE  Quiet
  BY <1>5, RecallKeeps
<1>6. Quiet
  BY <1>1, <1>2, <1>3, <1>4, <1>5
<1>7. Effect(j)' <=> Effect(j)
  BY <1>6 DEF Effect, NotHashed
<1> QED
  BY <1>6, <1>7 DEF AuthorityOf, Decision, NoDecision, Allowed, A!Allowed

LEMMA StepAuthority ==
    AuthorityInv /\ NodeTypeOK' /\ [NodeNext]_nodeVars => AuthorityInv'
<1> SUFFICES ASSUME AuthorityInv, NodeTypeOK', [NodeNext]_nodeVars, NEW k \in Job
             PROVE  AuthorityOf(k)'
  BY DEF AuthorityInv
<1>1. CASE UNCHANGED nodeVars
  <2>1. SameRun(k)
    BY <1>1 DEF nodeVars, SameRun
  <2> QED
    BY <2>1, SameRunAuthority DEF AuthorityInv
<1>2. ASSUME NEW j \in Job, Call(j) \/ Step(j) \/ LoseRun(j), k # j
      PROVE  AuthorityOf(k)'
  BY <1>2, OtherRuns, SameRunAuthority DEF AuthorityInv
<1>3. ASSUME Call(k) \/ Step(k) \/ LoseRun(k) PROVE AuthorityOf(k)'
  BY <1>3, CallAuthority, DecideAuthorityHolds, EffectAuthority, QuietAuthority
  DEF AuthorityInv, Step
<1>4. ASSUME NEW p \in Path, NEW content \in Content \cup {Missing},
             ChangeFile(p, content)
      PROVE  AuthorityOf(k)'
  <2>1. SameRun(k)
    BY <1>4 DEF ChangeFile, SameRun
  <2> QED
    BY <2>1, SameRunAuthority DEF AuthorityInv
<1> QED
  BY <1>1, <1>2, <1>3, <1>4 DEF NodeNext

(* No file is read and nothing executed without authority, whatever the    *)
(* files do, however the node's runs overlap and wherever they die.        *)
THEOREM AuthorityComesFirst == NodeSpec => []AuthorityPrecedesEffect
<1>1. AuthorityInv => AuthorityPrecedesEffect
  BY DEF AuthorityInv, AuthorityOf, Effect, AuthorityPrecedesEffect
<1> QED
  BY <1>1, NodeTypeCorrect, InitAuthority, StepAuthority, PTL DEF NodeSpec

-----------------------------------------------------------------------------
(* What the node leaves behind. It all rests on one inductive invariant,   *)
(* which says of each run where its receipt is (PhaseOf), what it has      *)
(* stored so far (ProgressOf) and, once the receipt is made, that it says  *)
(* just that (TruthOf).                                                    *)

RecordedOps == {"state.patch", "artifact.inspect", "claim.qualify"}
RecallOps == {"artifact.recall", "claim.recall"}

(* The stages before the decision and before the receipt, and those of     *)
(* replay and recall.                                                      *)
Undecided == {"new", "event_stored", "intent_stored"}
Unexecuted == Undecided \cup {"authority_stored", "hashed", "artifact_stored"}
Unreceipted == Unexecuted \cup {"execution_stored"}
ReplayStages == {"remembered", "verified", "indexed"}
RecallStages == {"recalling", "located", "half_read", "gathered"}

(* Where a run is and how far its receipt has come, and which operations   *)
(* get there.                                                              *)
PhaseOf(j) ==
    /\ run[j].at \in Unreceipted \cup RecallStages \cup {"rejected"} => pc[j] = "idle"
    /\ run[j].at = "receipting" <=> InFlight(j)
    /\ run[j].at = "receipted" => pc[j] = "appended"
    /\ run[j].at = "new" <=> Op(j) = "none"
    /\ run[j].at \in Unreceipted \ {"new"} \/ pc[j] # "idle" => Op(j) \in RecordedOps
    /\ run[j].at = "event_stored" => Op(j) = "state.patch"
    /\ run[j].at \in {"hashed", "artifact_stored"} => Op(j) = "artifact.inspect"
    /\ run[j].at \in RecallStages => Op(j) \in RecallOps
    /\ run[j].at \in ReplayStages \/ Answered(j) =>
         Op(j) = "state.replay" \/ (Op(j) = "state.patch" /\ pc[j] = "appended")

(* What a run has stored so far. *)
ProgressOf(j) ==
    /\ Op(j) = "state.patch" /\ run[j].at # "rejected" => EventOf(j) \in objects.muef_event
    /\ run[j].at \in Unreceipted \ {"new", "event_stored"} => j \in objects.intent
    /\ run[j].at \in Undecided => Decision(j) = NoDecision
    /\ run[j].at \in Unreceipted \ Undecided => Decision(j) # NoDecision
    /\ run[j].at \in Unexecuted => objects.execution[j] = "none"
    /\ run[j].at = "artifact_stored" => j \in objects.artifact
    /\ run[j].at = "execution_stored" =>
         /\ objects.execution[j] # "none"
         /\ Allowed(j)
         /\ Op(j) = "artifact.inspect" => j \in objects.artifact
    /\ j \in objects.memory => pc[j] = "appended"

(* What the receipt of a run says, from the moment it is made. *)
TruthOf(j) ==
    pc[j] # "idle" =>
        /\ j \in objects.intent
        /\ Decision(j) # NoDecision
        /\ run[j].payload.tre_logic = Decision(j).tre_logic
        /\ Allowed(j) <=> objects.execution[j] # "none"
        /\ run[j].payload.source_class =
              IF Allowed(j) THEN ExecutedClass(j) ELSE "proposed"
        /\ OutputRef(j) = RefOf(j, IF Allowed(j) THEN "artifact" ELSE "authority")
        /\ Allowed(j) /\ Op(j) = "artifact.inspect" => j \in objects.artifact

RecordOf(j) == PhaseOf(j) /\ ProgressOf(j) /\ TruthOf(j)

(* An event is received once: its id is a primary key. *)
OneOwner == \A j, k \in Job, e \in Event : Owns(j, e) /\ Owns(k, e) => j = k

RecordInv ==
    /\ NodeTypeOK
    /\ \A j \in Job : RecordOf(j)
    /\ OneOwner

-----------------------------------------------------------------------------
(* What a step leaves alone for the runs other than its own. *)
SameRecord(k) ==
    /\ SameRun(k)
    /\ pc'[k] = pc[k]
    /\ k \in objects'.memory <=> k \in objects.memory
    /\ objects.muef_event \subseteq objects'.muef_event

LEMMA SameRecordHolds ==
    ASSUME NEW k \in Job, SameRecord(k), RecordOf(k)
    PROVE  RecordOf(k)'
<1>1. PhaseOf(k)'
  BY DEF SameRecord, SameRun, RecordOf, PhaseOf, InFlight, Op, Answered
<1>2. ProgressOf(k)'
  BY DEF SameRecord, SameRun, RecordOf, ProgressOf, Op, EventOf, Decision,
     NoDecision, Allowed, A!Allowed
<1>3. TruthOf(k)'
  BY DEF SameRecord, SameRun, RecordOf, TruthOf, Op, EventOf, Decision,
     NoDecision, Allowed, A!Allowed, OutputRef, RefOf, ExecutedClass
<1> QED
  BY <1>1, <1>2, <1>3 DEF RecordOf

LEMMA OthersRecord ==
    ASSUME NodeTypeOK, NEW j \in Job, NEW k \in Job, k # j,
           Call(j) \/ Step(j) \/ LoseRun(j)
    PROVE  SameRecord(k)
<1>1. SameRun(k)
  BY OtherRuns
<1>2. pc'[k] = pc[k]
  BY ReceiptSteps DEF NodeTypeOK, ChainTypeOK, Job, MakeReceipt, CheckHead,
     RefuseReceipt, InsertReceipt, LoseReceipt, chainVars
<1>3. /\ k \in objects'.memory <=> k \in objects.memory
      /\ objects.muef_event \subseteq objects'.muef_event
  <2>1. CASE Call(j)
    BY <2>1 DEF NodeTypeOK, Store, Call, ReceiveEvent, StoreEvent, RejectEvent,
       RequestInspection, StartReplay, RequestQualification, RejectQualification,
       StartRecall
  <2>2. CASE LoseRun(j)
    BY <2>2 DEF LoseRun
  <2>3. CASE \/ RecordPatchIntent(j) \/ DecideAuthority(j) \/ StoreArtifact(j)
             \/ VerifyFile(j) \/ ExecutePatch(j) \/ QualifyClaim(j) \/ StoreMemory(j)
    BY <2>3 DEF NodeTypeOK, Store, RecordPatchIntent, DecideAuthority,
       StoreArtifact, VerifyFile, StoreExecution, ExecutePatch, QualifyClaim,
       StoreMemory
  <2>4. CASE \/ HashFile(j) \/ FileGone(j) \/ FailQualification(j)
             \/ ReceiptExecution(j) \/ ReceiptNonExecution(j) \/ AppendReceipt(j)
    BY <2>4 DEF HashFile, Observe, FileGone, FailQualification, ReceiptExecution,
       ReceiptNonExecution, IssueReceipt, AppendReceipt
  <2>5. CASE \/ VerifyForReplay(j) \/ RefuseReplay(j) \/ IndexReceipts(j)
             \/ AnswerReplay(j) \/ FailReplay(j) \/ LocateArtifact(j)
             \/ LocateClaim(j) \/ RecallArtifact(j) \/ RecallClaim(j) \/ FinishRecall(j)
    BY <2>5 DEF VerifyForReplay, See, RefuseReplay, IndexReceipts, AnswerReplay,
       FailReplay, LocateArtifact, LocateClaim, SeeSubject, RecallArtifact,
       RecallClaim, SeeMemories, SeeReceipts, FinishRecall
  <2> QED
    BY <2>1, <2>2, <2>3, <2>4, <2>5 DEF Step
<1> QED
  BY <1>1, <1>2, <1>3 DEF SameRecord

(* A call begins a run that has stored nothing and made no receipt.        *)
LEMMA CallRecord ==
    ASSUME NodeTypeOK, NEW j \in Job, RecordOf(j), Call(j)
    PROVE  RecordOf(j)'
<1>1. PICK q \in Requests :
        \/ ReceiveEvent(j, q) \/ RejectEvent(j, q) \/ RequestInspection(j, q)
        \/ StartReplay(j, q) \/ RequestQualification(j, q) \/ RejectQualification(j, q)
        \/ StartRecall(j, q)
  BY DEF Call
<1>2. PICK s \in {"event_stored", "rejected", "intent_stored", "remembered", "recalling"} :
        Begin(j, q, s)
  BY <1>1 DEF ReceiveEvent, StoreEvent, RejectEvent, RequestInspection,
     StartReplay, RequestQualification, RejectQualification, StartRecall
<1>3. run[j].at = "new" /\ run'[j].at = s /\ run'[j].request = q
  BY <1>2 DEF NodeTypeOK, RunState, Begin
<1>4. pc'[j] = "idle" /\ pc[j] = "idle"
  BY <1>1, <1>3 DEF RecordOf, PhaseOf, Unreceipted, Unexecuted, Undecided, chainVars,
     ReceiveEvent, StoreEvent, RejectEvent, RequestInspection,
     StartReplay, RequestQualification, RejectQualification, StartRecall
<1>5. /\ objects'.authority = objects.authority
      /\ objects'.execution = objects.execution
      /\ objects'.memory = objects.memory
  BY <1>1 DEF NodeTypeOK, Store, ReceiveEvent, StoreEvent, RejectEvent,
     RequestInspection, StartReplay, RequestQualification, RejectQualification,
     StartRecall
<1>6. /\ s = "event_stored" => q.op = "state.patch" /\ q.event \in objects'.muef_event
      /\ s = "intent_stored" => q.op \in RecordedOps \ {"state.patch"} /\ j \in objects'.intent
      /\ s = "remembered" => q.op = "state.replay"
      /\ s = "recalling" => q.op \in RecallOps
      /\ s = "rejected" => q.op \in RecordedOps
  BY <1>1, <1>2, <1>3 DEF NodeTypeOK, Store, RunState, ReceiveEvent, StoreEvent, RejectEvent,
     RequestInspection, StartReplay, RequestQualification, RejectQualification,
     StartRecall, Begin, PatchRequest, InspectRequest, ClaimRequest, ReplayRequest,
     RecallRequest, RecordedOps, RecallOps
<1>7. PhaseOf(j)'
  BY <1>3, <1>4, <1>6 DEF PhaseOf, Op, InFlight, Answered, Unreceipted, Unexecuted,
     Undecided, RecallStages, ReplayStages, RecordedOps, RecallOps
<1>8. ProgressOf(j)'
  BY <1>3, <1>4, <1>5, <1>6 DEF RecordOf, ProgressOf, Op, EventOf, Decision, NoDecision,
     Unreceipted, Unexecuted, Undecided, RecordedOps, RecallOps
<1>9. TruthOf(j)'
  BY <1>4 DEF TruthOf
<1> QED
  BY <1>7, <1>8, <1>9 DEF RecordOf

(* The steps up to the receipt. *)
LEMMA EarlyRecord ==
    ASSUME NodeTypeOK, NEW j \in Job, RecordOf(j), AuthorityOf(j),
           \/ RecordPatchIntent(j) \/ DecideAuthority(j) \/ HashFile(j)
           \/ StoreArtifact(j) \/ VerifyFile(j) \/ ExecutePatch(j)
           \/ QualifyClaim(j) \/ FileGone(j) \/ FailQualification(j)
    PROVE  RecordOf(j)'
<1>1. UNCHANGED chainVars
  BY DEF RecordPatchIntent, DecideAuthority, HashFile, Observe, StoreArtifact,
     VerifyFile, StoreExecution, ExecutePatch, QualifyClaim, FileGone,
     FailQualification
<1>2. run[j].at \in Unreceipted \ {"new", "execution_stored"}
  BY DEF RecordPatchIntent, DecideAuthority, HashFile, Observe, StoreArtifact,
     VerifyFile, StoreExecution, ExecutePatch, QualifyClaim, FileGone,
     FailQualification, Goto, Unreceipted, Unexecuted, Undecided
<1>3. pc[j] = "idle" /\ pc'[j] = "idle" /\ Op(j) \in RecordedOps
  BY <1>1, <1>2 DEF RecordOf, PhaseOf, chainVars
<1>4. run'[j].request = run[j].request
  BY DEF NodeTypeOK, RunState, RecordPatchIntent, DecideAuthority, HashFile,
     Observe, StoreArtifact, VerifyFile, StoreExecution, ExecutePatch,
     QualifyClaim, FileGone, FailQualification, Goto
<1>5. /\ objects'.muef_event = objects.muef_event
      /\ objects'.memory = objects.memory
      /\ objects.intent \subseteq objects'.intent
      /\ objects.artifact \subseteq objects'.artifact
  BY DEF NodeTypeOK, Store, RecordPatchIntent, DecideAuthority, HashFile,
     Observe, StoreArtifact, VerifyFile, StoreExecution, ExecutePatch,
     QualifyClaim, FileGone, FailQualification
<1>6. TruthOf(j)'
  BY <1>3 DEF TruthOf
<1> USE DEF Unreceipted, Unexecuted, Undecided, RecallStages, ReplayStages,
    RecordedOps, RecallOps
<1>7. CASE RecordPatchIntent(j)
  <2>1. /\ run[j].at = "event_stored" /\ run'[j].at = "intent_stored"
        /\ j \in objects'.intent
        /\ objects'.authority = objects.authority /\ objects'.execution = objects.execution
    BY <1>7 DEF NodeTypeOK, RunState, Store, RecordPatchIntent, Goto
  <2> QED
    BY <1>3, <1>4, <1>5, <1>6, <2>1 DEF RecordOf, PhaseOf, ProgressOf, Op, EventOf,
       InFlight, Answered, Decision, NoDecision
<1>8. CASE DecideAuthority(j)
  <2>1. /\ run[j].at = "intent_stored" /\ run'[j].at = "authority_stored"
        /\ objects'.execution = objects.execution
        /\ Decision(j)' \in A!Decisions
    BY <1>8, EvaluateType DEF NodeTypeOK, RunState, Store, DecideAuthority, Goto, Decision
  <2>2. Decision(j)' # NoDecision
    BY <2>1 DEF A!Decisions, A!TreLogic, NoDecision
  <2> QED
    BY <1>3, <1>4, <1>5, <1>6, <2>1, <2>2 DEF RecordOf, PhaseOf, ProgressOf, Op, EventOf,
       InFlight, Answered
<1>9. CASE HashFile(j) \/ StoreArtifact(j)
  <2>1. /\ run[j].at \in {"authority_stored", "hashed"}
        /\ run'[j].at \in {"hashed", "artifact_stored"}
        /\ run'[j].at = "artifact_stored" => j \in objects'.artifact
        /\ objects'.authority = objects.authority /\ objects'.execution = objects.execution
        /\ Op(j) = "artifact.inspect"
    BY <1>9 DEF NodeTypeOK, RunState, Store, HashFile, Observe, StoreArtifact, Goto,
       RecordOf, PhaseOf
  <2> QED
    BY <1>3, <1>4, <1>5, <1>6, <2>1 DEF RecordOf, PhaseOf, ProgressOf, Op, EventOf,
       InFlight, Answered, Decision, NoDecision
<1>10. CASE VerifyFile(j) \/ ExecutePatch(j) \/ QualifyClaim(j)
  <2>1. /\ run[j].at \in {"authority_stored", "artifact_stored"}
        /\ run'[j].at = "execution_stored"
        /\ run[j].at = "authority_stored" => Allowed(j) /\ Op(j) # "artifact.inspect"
    BY <1>10 DEF NodeTypeOK, RunState, VerifyFile, ExecutePatch, QualifyClaim,
       StoreExecution, Goto
  <2>2. PICK from \in Stage, x \in {"success", "mismatch"} : StoreExecution(j, from, x)
    BY <1>10 DEF VerifyFile, ExecutePatch, QualifyClaim, Stage
  <2>3. objects'.execution[j] # "none" /\ objects'.authority = objects.authority
    BY <2>2 DEF NodeTypeOK, Store, StoreExecution
  <2>4. Allowed(j)
    BY <2>1 DEF AuthorityOf
  <2> QED
    BY <1>3, <1>4, <1>5, <1>6, <2>1, <2>3, <2>4 DEF RecordOf, PhaseOf, ProgressOf, Op, EventOf,
       InFlight, Answered, Decision, NoDecision, Allowed, A!Allowed
<1>11. CASE FileGone(j) \/ FailQualification(j)
  <2>1. run'[j].at = "raised" /\ objects' = objects
    BY <1>11 DEF NodeTypeOK, RunState, FileGone, FailQualification, Goto
  <2> QED
    BY <1>2, <1>3, <1>4, <1>5, <1>6, <2>1 DEF RecordOf, PhaseOf, ProgressOf, Op, EventOf,
       InFlight, Answered
<1> QED
  BY <1>7, <1>8, <1>9, <1>10, <1>11

(* The receipt is made when what it refers to is in the store. *)
LEMMA ReceiptRecord ==
    ASSUME NodeTypeOK, NEW j \in Job, RecordOf(j),
           ReceiptExecution(j) \/ ReceiptNonExecution(j)
    PROVE  RecordOf(j)'
<1> DEFINE class == IF Allowed(j) THEN ExecutedClass(j) ELSE "proposed"
           output == RefOf(j, IF Allowed(j) THEN "artifact" ELSE "authority")
<1>1. /\ run[j].at \in {"execution_stored", "authority_stored"}
      /\ run[j].at = "execution_stored" <=> Allowed(j)
      /\ IssueReceipt(j, run[j].at, class, output)
  BY DEF RecordOf, ProgressOf, ReceiptExecution, ReceiptNonExecution, IssueReceipt
<1>2. /\ run'[j].at = "receipting"
      /\ run'[j].request = run[j].request
      /\ run'[j].payload = [source_class |-> class, tre_logic |-> Decision(j).tre_logic,
                            output_ref |-> output]
      /\ objects' = objects
      /\ pc'[j] = "made" /\ pc[j] = "idle"
  BY <1>1 DEF NodeTypeOK, ChainTypeOK, RunState, IssueReceipt, MakeReceipt, Job
<1>3. Op(j) \in RecordedOps /\ Op(j)' = Op(j)
  BY <1>1, <1>2 DEF RecordOf, PhaseOf, Unreceipted, Unexecuted, Undecided, Op
<1>4. PhaseOf(j)'
  BY <1>2, <1>3 DEF PhaseOf, InFlight, Answered, Unreceipted, Unexecuted,
     Undecided, RecallStages, ReplayStages, RecordedOps
<1>5. ProgressOf(j)'
  BY <1>1, <1>2, <1>3 DEF RecordOf, ProgressOf, Unreceipted, Unexecuted, Undecided, Op,
     EventOf
<1>6. /\ Decision(j)' = Decision(j) /\ Allowed(j)' = Allowed(j)
      /\ OutputRef(j)' = output /\ ExecutedClass(j)' = ExecutedClass(j)
      /\ \A own : RefOf(j, own)' = RefOf(j, own)
  BY <1>2, <1>3 DEF Decision, Allowed, OutputRef, ExecutedClass, RefOf, EventOf, Op
<1>7. /\ j \in objects.intent /\ Decision(j) # NoDecision
      /\ Allowed(j) <=> objects.execution[j] # "none"
      /\ Allowed(j) /\ Op(j) = "artifact.inspect" => j \in objects.artifact
  BY <1>1 DEF RecordOf, ProgressOf, Unreceipted, Unexecuted, Undecided
<1> HIDE DEF class, output
<1>8. TruthOf(j)'
  BY <1>2, <1>3, <1>6, <1>7 DEF TruthOf, class, output
<1> QED
  BY <1>4, <1>5, <1>8 DEF RecordOf

(* From here on a run leaves its receipt and what it refers to alone. *)
LEMMA LateTruth ==
    ASSUME NodeTypeOK, NEW j \in Job, TruthOf(j), pc[j] # "idle",
           run'[j].request = run[j].request, run'[j].payload = run[j].payload,
           objects'.intent = objects.intent, objects'.authority = objects.authority,
           objects'.execution = objects.execution, objects'.artifact = objects.artifact
    PROVE  TruthOf(j)'
  BY DEF TruthOf, Op, EventOf, Decision, NoDecision, Allowed, A!Allowed, OutputRef,
     RefOf, ExecutedClass

LEMMA LateRecord ==
    ASSUME NodeTypeOK, NEW j \in Job, RecordOf(j), AppendReceipt(j) \/ StoreMemory(j)
    PROVE  RecordOf(j)'
<1> USE DEF Unreceipted, Unexecuted, Undecided, RecallStages, ReplayStages,
    RecordedOps, RecallOps
<1>1. /\ run'[j].request = run[j].request /\ run'[j].payload = run[j].payload
      /\ objects'.intent = objects.intent /\ objects'.authority = objects.authority
      /\ objects'.execution = objects.execution /\ objects'.artifact = objects.artifact
      /\ objects'.muef_event = objects.muef_event
  BY DEF NodeTypeOK, RunState, Store, AppendReceipt, StoreMemory, Goto
<1>2. run[j].at \in {"receipting", "receipted"} /\ pc[j] # "idle" /\ Op(j) \in RecordedOps
  BY DEF AppendReceipt, StoreMemory, Goto, RecordOf, PhaseOf, InFlight
<1>3. TruthOf(j)'
  BY <1>1, <1>2, LateTruth DEF RecordOf
<1>4. CASE AppendReceipt(j)
  <2>1. /\ \/ pc'[j] = "checked" /\ run'[j].at = "receipting"
           \/ pc'[j] = "refused" /\ run'[j].at = "raised"
           \/ pc'[j] = "appended" /\ run'[j].at = "receipted"
        /\ objects' = objects
        /\ pc[j] # "appended"
    BY <1>4 DEF NodeTypeOK, ChainTypeOK, RunState, AppendReceipt, Goto, CheckHead,
       RefuseReceipt, InsertReceipt, Job
  <2> QED
    BY <1>1, <1>2, <1>3, <2>1 DEF RecordOf, PhaseOf, ProgressOf, Op, EventOf, InFlight,
       Answered
<1>5. CASE StoreMemory(j)
  <2>1. /\ pc'[j] = "appended"
        /\ run[j].at = "receipted"
        /\ run'[j].at = IF Op(j) = "state.patch" THEN "remembered" ELSE "done"
    BY <1>5 DEF NodeTypeOK, RunState, StoreMemory, AfterMemory, Goto, RecordOf, PhaseOf,
       chainVars
  <2> QED
    BY <1>1, <1>2, <1>3, <2>1 DEF RecordOf, PhaseOf, ProgressOf, Op, EventOf, InFlight,
       Answered
<1> QED
  BY <1>4, <1>5

(* Replay and recall read. *)
LEMMA ReadRecord ==
    ASSUME NodeTypeOK, NEW j \in Job, RecordOf(j),
           \/ VerifyForReplay(j) \/ RefuseReplay(j) \/ IndexReceipts(j)
           \/ AnswerReplay(j) \/ FailReplay(j)
           \/ LocateArtifact(j) \/ LocateClaim(j) \/ RecallArtifact(j)
           \/ RecallClaim(j) \/ FinishRecall(j)
    PROVE  RecordOf(j)'
<1> USE DEF Unreceipted, Unexecuted, Undecided, RecallStages, ReplayStages,
    RecordedOps, RecallOps
<1>1. /\ \/ /\ run[j].at \in ReplayStages
            /\ run'[j].at \in {"verified", "indexed", "raised", "unhashable", "done"}
         \/ /\ run[j].at \in RecallStages
            /\ run'[j].at \in {"located", "half_read", "gathered", "done"}
      /\ run'[j].request = run[j].request /\ run'[j].payload = run[j].payload
      /\ objects' = objects /\ pc' = pc
  BY ReplayKeeps, RecallKeeps DEF chainVars
<1>2. PhaseOf(j)'
  BY <1>1 DEF RecordOf, PhaseOf, InFlight, Op, Answered
<1>3. ProgressOf(j)'
  BY <1>1 DEF RecordOf, ProgressOf, Op, EventOf
<1>4. TruthOf(j)'
  BY <1>1, LateTruth DEF RecordOf, TruthOf
<1> QED
  BY <1>2, <1>3, <1>4 DEF RecordOf

(* A run that dies takes its receipt with it, if that has no row yet.      *)
LEMMA LoseRecord ==
    ASSUME NodeTypeOK, NEW j \in Job, RecordOf(j), LoseRun(j)
    PROVE  RecordOf(j)'
<1> USE DEF Unreceipted, Unexecuted, Undecided, RecallStages, ReplayStages,
    RecordedOps, RecallOps
<1>1. /\ run'[j].at = "lost" /\ run[j].at \notin Ended \cup {"new"}
      /\ run'[j].request = run[j].request /\ run'[j].payload = run[j].payload
      /\ objects' = objects
  BY DEF NodeTypeOK, RunState, LoseRun, Running
<1>2. pc'[j] = IF InFlight(j) THEN "failed" ELSE pc[j]
  BY DEF NodeTypeOK, ChainTypeOK, LoseRun, LoseReceipt, chainVars, Job
<1>3. PhaseOf(j)'
  BY <1>1, <1>2 DEF RecordOf, PhaseOf, InFlight, Op, Answered, Ended
<1>4. ProgressOf(j)'
  BY <1>1, <1>2 DEF RecordOf, ProgressOf, Op, EventOf, Ended, InFlight
<1>5. TruthOf(j)'
  BY <1>1, <1>2, LateTruth DEF RecordOf, TruthOf, InFlight
<1> QED
  BY <1>3, <1>4, <1>5 DEF RecordOf

(* What a run was asked does not change, and a run that has ended is over. *)
LEMMA RequestsStay ==
    ASSUME NodeTypeOK, NEW j \in Job, Step(j) \/ LoseRun(j)
    PROVE  /\ run'[j].request = run[j].request /\ run'[j].at # "rejected"
           /\ run[j].at \notin Ended \cup {"new"}
<1>1. CASE LoseRun(j)
  BY <1>1 DEF NodeTypeOK, RunState, LoseRun, Running
<1>2. CASE \/ RecordPatchIntent(j) \/ DecideAuthority(j) \/ HashFile(j)
             \/ StoreArtifact(j) \/ VerifyFile(j) \/ ExecutePatch(j)
             \/ QualifyClaim(j) \/ FileGone(j) \/ FailQualification(j)
  BY <1>2 DEF NodeTypeOK, RunState, RecordPatchIntent, DecideAuthority, HashFile,
     Observe, StoreArtifact, VerifyFile, StoreExecution, FileGone, ExecutePatch,
     QualifyClaim, FailQualification, Goto, Ended
<1>3. CASE ReceiptExecution(j) \/ ReceiptNonExecution(j)
  BY <1>3 DEF NodeTypeOK, RunState, ReceiptExecution, ReceiptNonExecution,
     IssueReceipt, Ended
<1>4. CASE AppendReceipt(j) \/ StoreMemory(j)
  BY <1>4 DEF NodeTypeOK, RunState, AppendReceipt, StoreMemory, AfterMemory, Goto, Ended
<1>5. CASE \/ VerifyForReplay(j) \/ RefuseReplay(j) \/ IndexReceipts(j)
             \/ AnswerReplay(j) \/ FailReplay(j)
  BY <1>5, ReplayKeeps DEF Ended
<1>6. CASE \/ LocateArtifact(j) \/ LocateClaim(j) \/ RecallArtifact(j)
             \/ RecallClaim(j) \/ FinishRecall(j)
  BY <1>6, RecallKeeps DEF Ended
<1> QED
  BY <1>1, <1>2, <1>3, <1>4, <1>5, <1>6 DEF Step

(* A run comes to own an event only by storing it. *)
LEMMA OwnerStep ==
    ASSUME NodeTypeOK, NEW j \in Job, NEW e \in Event,
           Call(j) \/ Step(j) \/ LoseRun(j), Owns(j, e)', ~Owns(j, e)
    PROVE  e \notin objects.muef_event
<1>1. CASE Step(j) \/ LoseRun(j)
  BY <1>1, RequestsStay DEF Owns, Op, EventOf, Ended
<1>2. CASE Call(j)
  <2>1. PICK q \in Requests :
          \/ ReceiveEvent(j, q) \/ RejectEvent(j, q) \/ RequestInspection(j, q)
          \/ StartReplay(j, q) \/ RequestQualification(j, q) \/ RejectQualification(j, q)
          \/ StartRecall(j, q)
    BY <1>2 DEF Call
  <2>2. CASE ReceiveEvent(j, q)
    BY <2>2 DEF NodeTypeOK, RunState, ReceiveEvent, StoreEvent, Begin, Owns, EventOf
  <2>3. CASE RejectEvent(j, q) \/ RejectQualification(j, q)
    BY <2>3 DEF NodeTypeOK, RunState, RejectEvent, RejectQualification, Begin, Owns
  <2>4. CASE RequestInspection(j, q) \/ StartReplay(j, q) \/ RequestQualification(j, q)
               \/ StartRecall(j, q)
    <3>1. q.op # "state.patch" /\ run'[j].request = q
      BY <2>4 DEF NodeTypeOK, RunState, RequestInspection, StartReplay,
         RequestQualification, StartRecall, Begin, InspectRequest, ReplayRequest,
         ClaimRequest, RecallRequest
    <3> QED
      BY <3>1 DEF Owns, Op
  <2> QED
    BY <2>1, <2>2, <2>3, <2>4
<1> QED
  BY <1>1, <1>2

LEMMA InitRecord == NodeInit => RecordInv
<1> SUFFICES ASSUME NodeInit PROVE RecordInv
  OBVIOUS
<1>1. ASSUME NEW j \in Job PROVE RecordOf(j) /\ \A e \in Event : ~Owns(j, e)
  BY DEF NodeInit, ChainInit, Job, RecordOf, PhaseOf, ProgressOf, TruthOf, Op, InFlight,
     Answered, Decision, NoRequest, Unreceipted, Unexecuted, Undecided, RecallStages,
     ReplayStages, RecordedOps, RecallOps, Owns
<1> QED
  BY <1>1, NodeInitType DEF RecordInv, OneOwner

LEMMA StepRecord ==
    RecordInv /\ AuthorityInv /\ NodeTypeOK' /\ [NodeNext]_nodeVars => RecordInv'
<1> SUFFICES ASSUME RecordInv, AuthorityInv, NodeTypeOK', [NodeNext]_nodeVars
             PROVE  (\A k \in Job : RecordOf(k)') /\ OneOwner'
  BY DEF RecordInv
<1>1. ASSUME UNCHANGED <<pc, run, objects>>
      PROVE  (\A k \in Job : RecordOf(k)') /\ OneOwner'
  <2>1. ASSUME NEW k \in Job PROVE SameRecord(k)
    BY <1>1 DEF SameRecord, SameRun
  <2>2. \A k \in Job : RecordOf(k)'
    BY <2>1, SameRecordHolds DEF RecordInv
  <2>3. OneOwner'
    BY <1>1 DEF RecordInv, OneOwner, Owns, Op, EventOf
  <2> QED
    BY <2>2, <2>3
<1>2. ASSUME NEW j \in Job, Call(j) \/ Step(j) \/ LoseRun(j)
      PROVE  (\A k \in Job : RecordOf(k)') /\ OneOwner'
  <2>1. ASSUME NEW k \in Job, k # j PROVE SameRecord(k)
    BY <1>2, <2>1, OthersRecord DEF RecordInv
  <2>2. RecordOf(j)'
    BY <1>2, CallRecord, EarlyRecord, ReceiptRecord, LateRecord, ReadRecord, LoseRecord
    DEF RecordInv, AuthorityInv, Step
  <2>3. \A k \in Job : RecordOf(k)'
    BY <2>1, <2>2, SameRecordHolds DEF RecordInv
  <2>4. \A k \in Job, e \in Event : k # j => (Owns(k, e)' <=> Owns(k, e))
    BY <2>1 DEF SameRecord, SameRun, Owns, Op, EventOf
  <2>5. \A k \in Job, e \in Event : Owns(k, e) => e \in objects.muef_event
    BY DEF RecordInv, RecordOf, ProgressOf, Owns
  <2>6. \A e \in Event : Owns(j, e)' => Owns(j, e) \/ e \notin objects.muef_event
    BY <1>2, OwnerStep DEF RecordInv
  <2>7. OneOwner'
    BY <2>4, <2>5, <2>6 DEF RecordInv, OneOwner
  <2> QED
    BY <2>3, <2>7
<1> QED
  BY <1>1, <1>2 DEF NodeNext, nodeVars, ChangeFile, chainVars

LEMMA AuthorityInvariance == NodeSpec => []AuthorityInv
  BY NodeTypeCorrect, InitAuthority, StepAuthority, PTL DEF NodeSpec

LEMMA RecordInvariance == NodeSpec => []RecordInv
  BY NodeTypeCorrect, AuthorityInvariance, InitRecord, StepRecord, PTL DEF NodeSpec

(* The rows of the receipt table are those of appended receipts. *)
LEMMA NodeRowsAreAppends == NodeSpec => []ChainInv
  BY NodeImplementsReceiptChain, ChainInvariance, PTL

LEMMA RowOfRun ==
    ASSUME ChainInv, NEW i \in DOMAIN chain
    PROVE  chain[i].receipt \in Job /\ pc[chain[i].receipt] = "appended"
<1>1. chain[i] \in Row
  BY DEF ChainInv, ChainTypeOK
<1> QED
  BY <1>1 DEF ChainInv, RowsAreAppends, Row, Job

(* What a receipt is about, by the operation it is for. *)
LEMMA OutputOf ==
    ASSUME NEW j \in Job, RecordOf(j), pc[j] # "idle"
    PROVE  /\ Op(j) \in RecordedOps /\ run[j].at # "rejected"
           /\ Op(j) = "state.patch" => OutputRef(j) = <<"event", EventOf(j)>>
           /\ Op(j) = "claim.qualify" => OutputRef(j) = <<"claim", run[j].request.claim>>
           /\ Op(j) = "artifact.inspect" =>
                 OutputRef(j) = <<IF Allowed(j) THEN "artifact" ELSE "authority", j>>
<1>1. Op(j) \in RecordedOps /\ run[j].at # "rejected"
  BY DEF RecordOf, PhaseOf
<1>2. OutputRef(j) = RefOf(j, IF Allowed(j) THEN "artifact" ELSE "authority")
  BY DEF RecordOf, TruthOf
<1> QED
  BY <1>1, <1>2 DEF RefOf

(* However runs overlap and wherever they die, the row of a receipt can be *)
(* read only when all it refers to is in the store, and it says what the   *)
(* store says; and a memory is of a receipt in the table.                  *)
THEOREM ReceiptsAreTrue == NodeSpec => []ReceiptsTellTheTruth
<1>1. ASSUME RecordInv, ChainInv PROVE ReceiptsTellTheTruth
  <2>1. ASSUME NEW i \in DOMAIN chain
        PROVE  LET j == chain[i].receipt
               IN  /\ j \in objects.intent
                   /\ Decision(j) # NoDecision
                   /\ run[j].payload.tre_logic = Decision(j).tre_logic
                   /\ run[j].payload.source_class # "proposed" <=> objects.execution[j] # "none"
                   /\ run[j].payload.source_class # "proposed" =>
                        run[j].payload.tre_logic = "+1"
                   /\ OutputRef(j)[1] = "event" => OutputRef(j)[2] \in objects.muef_event
                   /\ OutputRef(j)[1] = "artifact" => OutputRef(j)[2] \in objects.artifact
    <3> DEFINE j == chain[i].receipt
    <3>1. j \in Job /\ pc[j] = "appended"
      BY <1>1, RowOfRun
    <3> HIDE DEF j
    <3>2. RecordOf(j)
      BY <1>1, <3>1 DEF RecordInv
    <3>3. /\ j \in objects.intent
          /\ Decision(j) # NoDecision
          /\ run[j].payload.tre_logic = Decision(j).tre_logic
          /\ run[j].payload.source_class # "proposed" <=> objects.execution[j] # "none"
          /\ run[j].payload.source_class # "proposed" => run[j].payload.tre_logic = "+1"
      BY <3>1, <3>2 DEF RecordOf, TruthOf, ExecutedClass, Allowed, A!Allowed
    <3>4. /\ OutputRef(j)[1] = "event" => OutputRef(j)[2] \in objects.muef_event
          /\ OutputRef(j)[1] = "artifact" => OutputRef(j)[2] \in objects.artifact
      <4>1. CASE Op(j) = "state.patch"
        BY <3>1, <3>2, <4>1, OutputOf DEF RecordOf, ProgressOf
      <4>2. CASE Op(j) = "claim.qualify"
        BY <3>1, <3>2, <4>2, OutputOf
      <4>3. CASE Op(j) = "artifact.inspect"
        BY <3>1, <3>2, <4>3, OutputOf DEF RecordOf, TruthOf
      <4> QED
        BY <3>1, <3>2, <4>1, <4>2, <4>3, OutputOf DEF RecordedOps
    <3> QED
      BY <3>3, <3>4 DEF j
  <2>2. ASSUME NEW j \in objects.memory
        PROVE  \E i \in DOMAIN chain : chain[i].receipt = j
    <3>1. j \in Job
      BY <1>1 DEF RecordInv, NodeTypeOK, Store
    <3>2. pc[j] = "appended"
      BY <1>1, <3>1 DEF RecordInv, RecordOf, ProgressOf
    <3> QED
      BY <1>1, <3>1, <3>2 DEF ChainInv, RowsAreAppends, Job
  <2> QED
    BY <2>1, <2>2 DEF ReceiptsTellTheTruth
<1> QED
  BY <1>1, RecordInvariance, NodeRowsAreAppends, PTL

(* However often an event is sent, one receipt is about it; and no other   *)
(* output but a claim has two receipts.                                    *)
THEOREM OutputsHaveOneReceipt == NodeSpec => []OneReceiptPerOutput
<1>1. ASSUME RecordInv, ChainInv PROVE OneReceiptPerOutput
  <2> SUFFICES ASSUME NEW i \in DOMAIN chain, NEW n \in DOMAIN chain,
                      OutputRef(chain[i].receipt) = OutputRef(chain[n].receipt),
                      OutputRef(chain[i].receipt)[1] # "claim"
               PROVE  i = n
    BY DEF OneReceiptPerOutput
  <2> DEFINE j == chain[i].receipt
             k == chain[n].receipt
  <2>1. /\ j \in Job /\ pc[j] = "appended" /\ RecordOf(j)
        /\ k \in Job /\ pc[k] = "appended" /\ RecordOf(k)
    BY <1>1, RowOfRun DEF RecordInv
  <2>2. OutputRef(j) = OutputRef(k) /\ OutputRef(j)[1] # "claim"
    OBVIOUS
  <2>3. j = k => i = n
    BY <1>1 DEF ChainInv, RowsAreAppends
  <2> HIDE DEF j, k
  <2>4. CASE Op(j) = "state.patch" /\ Op(k) = "state.patch"
    <3>1. EventOf(j) = EventOf(k) /\ run[j].at # "rejected" /\ run[k].at # "rejected"
      BY <2>1, <2>2, <2>4, OutputOf
    <3>2. EventOf(j) \in objects.muef_event
      BY <2>1, <2>4, <3>1 DEF RecordOf, ProgressOf
    <3>3. EventOf(j) \in Event
      BY <1>1, <3>2, EventsAssumption DEF RecordInv, NodeTypeOK, Store
    <3>4. j = k
      BY <1>1, <2>1, <2>4, <3>1, <3>3 DEF RecordInv, OneOwner, Owns
    <3> QED
      BY <2>3, <3>4
  <2>5. CASE Op(j) = "artifact.inspect" /\ Op(k) = "artifact.inspect"
    <3>1. OutputRef(j)[2] = j /\ OutputRef(k)[2] = k
      BY <2>1, <2>5, OutputOf
    <3> QED
      BY <2>2, <2>3, <3>1
  <2>6. CASE Op(j) = "claim.qualify" \/ Op(k) = "claim.qualify" \/ Op(j) # Op(k)
    <3>1. /\ Op(j) = "state.patch" => OutputRef(j)[1] = "event"
          /\ Op(j) = "claim.qualify" => OutputRef(j)[1] = "claim"
          /\ Op(j) = "artifact.inspect" => OutputRef(j)[1] \in {"artifact", "authority"}
      BY <2>1, OutputOf
    <3>2. /\ Op(k) = "state.patch" => OutputRef(k)[1] = "event"
          /\ Op(k) = "claim.qualify" => OutputRef(k)[1] = "claim"
          /\ Op(k) = "artifact.inspect" => OutputRef(k)[1] \in {"artifact", "authority"}
      BY <2>1, OutputOf
    <3>3. Op(j) \in RecordedOps /\ Op(k) \in RecordedOps
      BY <2>1, OutputOf
    <3> QED
      BY <2>2, <2>6, <3>1, <3>2, <3>3 DEF RecordedOps
  <2> QED
    BY <2>1, <2>4, <2>5, <2>6, OutputOf DEF RecordedOps
<1> QED
  BY <1>1, RecordInvariance, NodeRowsAreAppends, PTL

-----------------------------------------------------------------------------
(* A receipt in the table stays as it is, and so does what it is about.    *)
LEMMA ReceiptsStay ==
    ASSUME RecordInv, [NodeNext]_nodeVars, NEW k \in Job, pc[k] = "appended"
    PROVE  /\ pc'[k] = "appended"
           /\ run'[k].request = run[k].request
           /\ run'[k].payload = run[k].payload
           /\ objects'.authority[k] = objects.authority[k]
<1>1. CASE UNCHANGED nodeVars \/ \E p \in Path, content \in Content \cup {Missing} :
               ChangeFile(p, content)
  BY <1>1 DEF nodeVars, ChangeFile, chainVars
<1>2. ASSUME NEW j \in Job, j # k, Call(j) \/ Step(j) \/ LoseRun(j)
      PROVE  SameRecord(k)
  BY <1>2, OthersRecord DEF RecordInv
<1>3. ASSUME Call(k) \/ Step(k) \/ LoseRun(k)
      PROVE  /\ pc'[k] = "appended"
             /\ run'[k].request = run[k].request
             /\ run'[k].payload = run[k].payload
             /\ objects'.authority[k] = objects.authority[k]
  <2>1. run[k].at \notin Unreceipted \cup {"receipting"}
    BY DEF RecordInv, RecordOf, PhaseOf, InFlight
  <2>2. ~Call(k)
    BY <2>1 DEF Call, ReceiveEvent, StoreEvent, RejectEvent, RequestInspection,
       StartReplay, RequestQualification, RejectQualification, StartRecall, Begin,
       Unreceipted, Unexecuted, Undecided
  <2>3. CASE LoseRun(k)
    BY <2>3 DEF RecordInv, NodeTypeOK, RunState, LoseRun, InFlight, chainVars
  <2>4. CASE Step(k)
    <3>1. \/ StoreMemory(k)
          \/ VerifyForReplay(k) \/ RefuseReplay(k) \/ IndexReceipts(k)
          \/ AnswerReplay(k) \/ FailReplay(k)
          \/ LocateArtifact(k) \/ LocateClaim(k) \/ RecallArtifact(k)
          \/ RecallClaim(k) \/ FinishRecall(k)
      BY <2>1, <2>4 DEF Step, RecordPatchIntent, DecideAuthority, HashFile, Observe,
         StoreArtifact, VerifyFile, StoreExecution, FileGone, ExecutePatch, QualifyClaim,
         FailQualification, ReceiptExecution, ReceiptNonExecution, IssueReceipt,
         AppendReceipt, Goto, Unreceipted, Unexecuted, Undecided
    <3>2. CASE StoreMemory(k)
      BY <3>2 DEF RecordInv, NodeTypeOK, RunState, Store, StoreMemory, Goto, chainVars
    <3>3. CASE \/ VerifyForReplay(k) \/ RefuseReplay(k) \/ IndexReceipts(k)
               \/ AnswerReplay(k) \/ FailReplay(k)
      BY <3>3, ReplayKeeps DEF RecordInv, chainVars
    <3>4. CASE \/ LocateArtifact(k) \/ LocateClaim(k) \/ RecallArtifact(k)
               \/ RecallClaim(k) \/ FinishRecall(k)
      BY <3>4, RecallKeeps DEF RecordInv, chainVars
    <3> QED
      BY <3>1, <3>2, <3>3, <3>4
  <2> QED
    BY <1>3, <2>2, <2>3, <2>4
<1> QED
  BY <1>1, <1>2, <1>3 DEF NodeNext, SameRecord, SameRun

(* What a recall has read so far was there to be read, and stays there.    *)
RecallOf(j) ==
    /\ run[j].at \in Unreceipted \cup {"recalling"} => run[j].view = NoView
    /\ \A k \in run[j].view.memories \cup run[j].view.history : pc[k] = "appended"
    /\ \A k \in run[j].view.memories : OutputRef(k) = run[j].view.subject
    /\ Op(j) = "claim.recall" /\ run[j].at \in {"gathered", "done"} =>
          run[j].view.memories \subseteq run[j].view.history
    /\ Op(j) \in RecallOps /\ run[j].at = "done" =>
          run[j].view.resolved = run[j].view.history

RecallInv == \A j \in Job : RecallOf(j)

LEMMA InitRecall == NodeInit => RecallInv
<1> SUFFICES ASSUME NodeInit, NEW j \in Job PROVE RecallOf(j)
  BY DEF RecallInv
<1>1. run[j].view = NoView /\ run[j].at = "new" /\ Op(j) = "none"
  BY DEF NodeInit, NoRequest, Op
<1>2. NoView.memories = {} /\ NoView.history = {}
  BY DEF NoView
<1> QED
  BY <1>1, <1>2 DEF RecallOf, RecallOps

(* The steps that see nothing new of memories and receipts. *)
LEMMA QuietRecall ==
    ASSUME NodeTypeOK, NEW j \in Job, RecordOf(j), RecallOf(j),
           Call(j) \/ Step(j) \/ LoseRun(j),
           ~LocateArtifact(j), ~LocateClaim(j), ~RecallArtifact(j), ~RecallClaim(j),
           ~FinishRecall(j)
    PROVE  /\ run'[j].view.memories = run[j].view.memories
           /\ run'[j].view.history = run[j].view.history
           /\ run'[j].view.subject = run[j].view.subject
           /\ run'[j].at \in Unreceipted \cup {"recalling"} => run'[j].view = NoView
           /\ run'[j].at \in {"gathered", "done"} => Op(j)' \notin RecallOps
<1> USE DEF Unreceipted, Unexecuted, Undecided, RecallStages, ReplayStages,
    RecordedOps, RecallOps
<1>1. CASE Call(j)
  BY <1>1 DEF NodeTypeOK, RunState, RecallOf, Call, ReceiveEvent, StoreEvent, RejectEvent,
     RequestInspection, StartReplay, RequestQualification, RejectQualification,
     StartRecall, Begin
<1>2. CASE LoseRun(j)
  BY <1>2 DEF NodeTypeOK, RunState, LoseRun
<1>3. CASE \/ RecordPatchIntent(j) \/ DecideAuthority(j) \/ HashFile(j)
             \/ StoreArtifact(j) \/ VerifyFile(j) \/ ExecutePatch(j)
             \/ QualifyClaim(j) \/ FileGone(j) \/ FailQualification(j)
  BY <1>3 DEF NodeTypeOK, RunState, RecallOf, RecordPatchIntent, DecideAuthority, HashFile,
     Observe, StoreArtifact, VerifyFile, StoreExecution, FileGone, ExecutePatch,
     QualifyClaim, FailQualification, Goto
<1>4. CASE ReceiptExecution(j) \/ ReceiptNonExecution(j) \/ AppendReceipt(j) \/ StoreMemory(j)
  <2>1. run'[j].view = run[j].view /\ run'[j].request = run[j].request
    BY <1>4 DEF NodeTypeOK, RunState, ReceiptExecution, ReceiptNonExecution, IssueReceipt,
       AppendReceipt, StoreMemory, Goto
  <2>2. run'[j].at \in {"receipting", "raised", "receipted", "remembered", "done"}
    BY <1>4 DEF NodeTypeOK, RunState, ReceiptExecution, ReceiptNonExecution, IssueReceipt,
       AppendReceipt, StoreMemory, AfterMemory, Goto
  <2>3. Op(j) \in RecordedOps
    BY <1>4 DEF RecordOf, PhaseOf, ReceiptExecution, ReceiptNonExecution, IssueReceipt,
       AppendReceipt, StoreMemory, Goto, InFlight
  <2> QED
    BY <2>1, <2>2, <2>3 DEF Op
<1>5. CASE \/ VerifyForReplay(j) \/ RefuseReplay(j) \/ IndexReceipts(j)
             \/ AnswerReplay(j) \/ FailReplay(j)
  <2>1. run[j].at \in ReplayStages /\ run'[j].request = run[j].request
    BY <1>5 DEF NodeTypeOK, RunState, VerifyForReplay, See, RefuseReplay, IndexReceipts,
       AnswerReplay, FailReplay
  <2>2. run'[j].at \in {"verified", "indexed", "raised", "unhashable", "done"}
    BY <1>5 DEF NodeTypeOK, RunState, VerifyForReplay, See, RefuseReplay, IndexReceipts,
       AnswerReplay, FailReplay
  <2>3. /\ run'[j].view.memories = run[j].view.memories
        /\ run'[j].view.history = run[j].view.history
        /\ run'[j].view.subject = run[j].view.subject
    BY <1>5 DEF NodeTypeOK, RunState, View, VerifyForReplay, See, RefuseReplay,
       IndexReceipts, AnswerReplay, FailReplay
  <2> QED
    BY <2>1, <2>2, <2>3 DEF RecordOf, PhaseOf, Op
<1> QED
  BY <1>1, <1>2, <1>3, <1>4, <1>5 DEF Step

(* What is read of memories and receipts is of receipts in the table. *)
LEMMA ReadRows ==
    ASSUME RecordInv, ChainInv, NEW subject
    PROVE  /\ \A k \in MemoriesOf(subject) :
                k \in Job /\ pc[k] = "appended" /\ OutputRef(k) = subject
           /\ \A k \in ReceiptsOf(subject) : k \in Job /\ pc[k] = "appended"
           /\ \A k \in Job : pc[k] = "appended" /\ OutputRef(k) = subject =>
                k \in ReceiptsOf(subject)
<1>1. \A k \in objects.memory : k \in Job /\ pc[k] = "appended"
  BY DEF RecordInv, NodeTypeOK, Store, RecordOf, ProgressOf
<1>2. \A k \in ReceiptsOf(subject) : k \in Job /\ pc[k] = "appended"
  BY RowOfRun DEF ReceiptsOf
<1>3. \A k \in Job : pc[k] = "appended" => \E i \in DOMAIN chain : chain[i].receipt = k
  BY DEF ChainInv, RowsAreAppends, Job
<1> QED
  BY <1>1, <1>2, <1>3 DEF MemoriesOf, ReceiptsOf

(* The steps of a recall. *)
LEMMA RecallSteps ==
    ASSUME RecordInv, ChainInv, NEW j \in Job, RecallOf(j),
           \/ LocateArtifact(j) \/ LocateClaim(j) \/ RecallArtifact(j)
           \/ RecallClaim(j) \/ FinishRecall(j)
    PROVE  /\ run'[j].at \in {"located", "half_read", "gathered", "done"}
           /\ run'[j].request = run[j].request
           /\ \A k \in run'[j].view.memories \cup run'[j].view.history : pc[k] = "appended"
           /\ \A k \in run'[j].view.memories : OutputRef(k) = run'[j].view.subject
           /\ Op(j) = "claim.recall" /\ run'[j].at \in {"gathered", "done"} =>
                run'[j].view.memories \subseteq run'[j].view.history
           /\ run'[j].at = "done" => run'[j].view.resolved = run'[j].view.history
<1> DEFINE v == run[j].view
<1>t. /\ v \in View /\ run \in [Job -> RunState]
  BY DEF RecordInv, NodeTypeOK, RunState
<1>1. CASE LocateArtifact(j) \/ LocateClaim(j)
  <2>1. v = NoView
    BY <1>1 DEF RecallOf, LocateArtifact, LocateClaim, SeeSubject, See
  <2>2. PICK to \in {"located", "done"}, s \in {v} \cup {[v EXCEPT !.subject = x] : x \in PayloadRefs} :
           See(j, "recalling", to, s) /\ (to = "done" => Op(j) = "artifact.recall")
    <3>1. CASE LocateArtifact(j)
      <4>1. \A p : \A k \in FindArtifact(p) : <<"artifact", k>> \in PayloadRefs
        BY DEF RecordInv, NodeTypeOK, Store, FindArtifact, ArtifactsAt, PayloadRefs
      <4> QED
        BY <3>1, <4>1 DEF LocateArtifact, SeeSubject
    <3>2. CASE LocateClaim(j)
      <4>1. run[j].request \in Requests \cup {NoRequest}
        BY <1>t DEF RunState
      <4>2. run[j].request.claim \in Claim
        BY <3>2, <4>1, RequestsAssumption DEF LocateClaim, Op, NoRequest, PatchRequest,
           InspectRequest, ReplayRequest, ClaimRequest, RecallRequest
      <4>3. <<"claim", run[j].request.claim>> \in PayloadRefs
        BY <4>2 DEF PayloadRefs
      <4> QED
        BY <3>2, <4>3 DEF LocateClaim, SeeSubject
    <3> QED
      BY <1>1, <3>1, <3>2
  <2>3. s.memories = {} /\ s.history = {} /\ s.resolved = {}
    BY <2>1 DEF NoView
  <2>4. run'[j].at = to /\ run'[j].view = s /\ run'[j].request = run[j].request
    BY <1>t, <2>2 DEF RunState, See
  <2> QED
    BY <2>3, <2>4
<1>2. CASE RecallArtifact(j) \/ RecallClaim(j)
  <2>1. PICK at \in {"half_read", "gathered"} :
          \/ /\ run[j].at = "located" /\ at = "half_read"
          \/ /\ run[j].at = "half_read" /\ at = "gathered"
    BY <1>2 DEF RecallArtifact, RecallClaim, SeeMemories, SeeReceipts, See
  <2>2. \/ /\ run'[j].view = [v EXCEPT !.memories = MemoriesOf(v.subject)]
           /\ Op(j) = "claim.recall" => run[j].at = "located"
        \/ /\ run'[j].view = [v EXCEPT !.history = ReceiptsOf(v.subject)]
    BY <1>t, <1>2 DEF RunState, RecallArtifact, RecallClaim, SeeMemories, SeeReceipts, See
  <2>3. run'[j].at = at /\ run'[j].request = run[j].request
    BY <1>t, <1>2, <2>1 DEF RunState, RecallArtifact, RecallClaim, SeeMemories,
       SeeReceipts, See
  <2>4. CASE run'[j].view = [v EXCEPT !.memories = MemoriesOf(v.subject)]
               /\ (Op(j) = "claim.recall" => run[j].at = "located")
    BY <1>t, <2>1, <2>3, <2>4, ReadRows DEF RecallOf, View
  <2>5. CASE run'[j].view = [v EXCEPT !.history = ReceiptsOf(v.subject)]
    <3>1. v.memories \subseteq Job
      BY <1>t DEF View
    <3>2. v.memories \subseteq ReceiptsOf(v.subject)
      BY <3>1, ReadRows DEF RecallOf
    <3> QED
      BY <1>t, <2>3, <2>5, <3>2, ReadRows DEF RecallOf, View
  <2> QED
    BY <2>2, <2>4, <2>5
<1>3. CASE FinishRecall(j)
  <2>1. /\ run[j].at = "gathered" /\ run'[j].at = "done"
        /\ run'[j].request = run[j].request
        /\ run'[j].view = [v EXCEPT !.resolved = {k \in v.history : Resolves(k)}]
    BY <1>t, <1>3 DEF RunState, FinishRecall, See
  <2>2. ASSUME NEW k \in v.history PROVE Resolves(k)
    <3>1. k \in Job /\ pc[k] = "appended"
      BY <1>t DEF RecallOf, View
    <3>2. TruthOf(k)
      BY <3>1 DEF RecordInv, RecordOf
    <3> QED
      BY <3>1, <3>2 DEF TruthOf, Resolves, ExecutedClass
  <2>3. {k \in v.history : Resolves(k)} = v.history
    BY <2>2
  <2> QED
    BY <1>t, <2>1, <2>3 DEF RecallOf, View
<1> QED
  BY <1>1, <1>2, <1>3

LEMMA StepRecall ==
    RecallInv /\ RecordInv /\ ChainInv /\ NodeTypeOK' /\ [NodeNext]_nodeVars => RecallInv'
<1> SUFFICES ASSUME RecallInv, RecordInv, ChainInv, NodeTypeOK', [NodeNext]_nodeVars,
                    NEW j \in Job
             PROVE  RecallOf(j)'
  BY DEF RecallInv
<1>1. RecallOf(j) /\ NodeTypeOK /\ RecordOf(j) /\ run[j].view \in View
  BY DEF RecallInv, RecordInv, NodeTypeOK, RunState
<1>2. \A k \in Job : pc[k] = "appended" => pc'[k] = "appended" /\ OutputRef(k)' = OutputRef(k)
  BY ReceiptsStay DEF OutputRef
<1>3. ASSUME run'[j] = run[j]
      PROVE  RecallOf(j)'
  BY <1>1, <1>2, <1>3 DEF RecallOf, View, Op
<1>4. CASE Call(j) \/ Step(j) \/ LoseRun(j)
  <2>1. CASE \/ LocateArtifact(j) \/ LocateClaim(j) \/ RecallArtifact(j)
             \/ RecallClaim(j) \/ FinishRecall(j)
    <3>1. run'[j].view \in View
      BY DEF NodeTypeOK, RunState
    <3> QED
      BY <1>1, <1>2, <2>1, <3>1, RecallSteps DEF RecallOf, View, Op, Unreceipted,
         Unexecuted, Undecided
  <2>2. CASE ~(\/ LocateArtifact(j) \/ LocateClaim(j) \/ RecallArtifact(j)
               \/ RecallClaim(j) \/ FinishRecall(j))
    <3>1. /\ run'[j].view.memories = run[j].view.memories
          /\ run'[j].view.history = run[j].view.history
          /\ run'[j].view.subject = run[j].view.subject
          /\ run'[j].at \in Unreceipted \cup {"recalling"} => run'[j].view = NoView
          /\ run'[j].at \in {"gathered", "done"} => Op(j)' \notin RecallOps
      BY <1>1, <1>4, <2>2, QuietRecall
    <3> QED
      BY <1>1, <1>2, <3>1 DEF RecallOf, View, RecallOps
  <2> QED
    BY <2>1, <2>2
<1>5. ASSUME NEW k \in Job, k # j, Call(k) \/ Step(k) \/ LoseRun(k)
      PROVE  run'[j] = run[j]
  BY <1>1, <1>5, OtherRuns DEF SameRun
<1>6. CASE UNCHANGED nodeVars \/ \E p \in Path, content \in Content \cup {Missing} :
               ChangeFile(p, content)
  BY <1>3, <1>6 DEF nodeVars, ChangeFile
<1> QED
  BY <1>3, <1>4, <1>5, <1>6 DEF NodeNext

(* What a recall tells is complete: each receipt of the history with its   *)
(* intent and execution, each memory of a claim with its receipt, whatever *)
(* is written between the reads.                                           *)
THEOREM RecallIsComplete == NodeSpec => []RecallIsGrounded
<1>1. RecallInv => RecallIsGrounded
  BY DEF RecallInv, RecallOf, RecallIsGrounded, RecallOps
<1>2. NodeSpec => []RecallInv
  BY InitRecall, StepRecall, RecordInvariance, NodeRowsAreAppends, NodeTypeCorrect, PTL
  DEF NodeSpec
<1> QED
  BY <1>1, <1>2, PTL
=============================================================================
