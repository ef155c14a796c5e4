---------------------------- MODULE GenesisNode -----------------------------
(***************************************************************************)
(* GenesisNode (src/migi/genesis.py) and VerifiableClaimRuntime            *)
(* (src/migi/claim_runtime.py) over one GenesisStore, with several runs of *)
(* their handlers at once: inspect_artifact, process_muef_event,           *)
(* replay_state, qualify_claim, recall_artifact and recall_claim. Those on *)
(* artifacts, events and state are called from the thread pool of          *)
(* src/migi/api.py, from the command line and from a CAMbus receiver,      *)
(* those on claims by programs that import them; several processes may     *)
(* share the database.                                                     *)
(*                                                                         *)
(* Every call of the store is one SQLite transaction, so a handler run is  *)
(* a sequence of atomic steps and at says which of them comes next. A run  *)
(* issues at most one receipt; it is named by that receipt, and its        *)
(* append is the one of ReceiptChain, step by step. The ids that new_id    *)
(* draws never repeat, so the intent, authority, execution, artifact and   *)
(* memory of a run are named by the run, too; only the id of an event      *)
(* comes from outside. observed_at is read from the wall clock, which may  *)
(* repeat or go back, so the artifacts' order in list_kind is arbitrary.   *)
(***************************************************************************)
EXTENDS ReceiptChain, Replay

A == INSTANCE Authority

CONSTANTS
    Requests,       \* the requests that the node's clients make
    PatchOf,        \* the payload.state_patch of each well-formed event
    WellFormed,     \* the events that validate() and the type checks accept
    Path,           \* the resolved paths that clients name
    Inside,         \* those below an allowed root
    Content,        \* what a file may contain
    Missing,        \* there is no such file
    MaxFileChanges, \* bound on the changes the file system makes
    Place,          \* the places in the order of list_kind("artifact")
    Claim           \* the claim_refs that clients ask about

Scope == A!ARTIFACT_SCOPES \cup A!STATE_SCOPES \cup A!CLAIM_SCOPES \cup {"none"}

PatchRequest == [op : {"state.patch"}, event : Event, scope : Scope]
InspectRequest == [op : {"artifact.inspect"}, path : Path, scope : Scope]
ReplayRequest == [op : {"state.replay"}]
ClaimRequest == [op : {"claim.qualify"}, claim : Claim, scope : Scope]
RecallRequest ==
    [op : {"artifact.recall"}, path : Path] \cup [op : {"claim.recall"}, claim : Claim]
NoRequest == [op |-> "none"]

ASSUME RequestsAssumption ==
    Requests \subseteq PatchRequest \cup InspectRequest \cup ReplayRequest
                  \cup ClaimRequest \cup RecallRequest
ASSUME EventsAssumption ==
    WellFormed \subseteq Event /\ PatchOf \in [Event -> Patch]
ASSUME FilesAssumption ==
    /\ Inside \subseteq Path
    /\ Missing \notin Content
    /\ MaxFileChanges \in Nat
    /\ Place \subseteq Nat \ {0}

Job == Receipt

VARIABLES
    objects,        \* the store's objects table, by kind
    run,            \* the local state of each handler run
    file,           \* the content of each path
    changes         \* the file system's changes so far

envVars == <<file, changes>>
nodeVars == <<chain, pc, ref, prev, objects, run, file, changes>>

NoDecision == [tre_logic |-> "none", reason_code |-> "none"]
NoPayload == [source_class |-> "none", tre_logic |-> "none",
              output_ref |-> <<"none">>]
NotHashed == [sha256 |-> Missing, place |-> 0]
NoView == [head |-> NoHash, refs |-> {}, applied |-> {}, subject |-> <<"none">>,
           memories |-> {}, history |-> {}, resolved |-> {}]

Ended == {"done", "rejected", "raised", "unhashable", "lost"}
Stage == Ended \cup
    {"new", "event_stored", "intent_stored", "authority_stored", "hashed",
     "artifact_stored", "execution_stored", "receipting", "receipted",
     "remembered", "verified", "indexed", "recalling", "located", "half_read",
     "gathered"}

Running(j) == run[j].at \notin Ended \cup {"new"}
Op(j) == run[j].request.op
EventOf(j) == run[j].request.event
FileOf(j) == file[run[j].request.path]

-----------------------------------------------------------------------------
(* What a reader finds in the store. *)

Decision(j) == objects.authority[j]
Allowed(j) == A!Allowed(Decision(j))
OutputRef(j) == run[j].payload.output_ref

(* Mutant of ExecutedRefs: any receipt counts, a held event's too. *)
ExecutedRefsAnyClass(rows) == {OutputRef(rows[i].receipt) : i \in DOMAIN rows}

(* The keys of replay's index: the output_refs of the receipts with source *)
(* class executed and Tre Logic +1.                                        *)
ExecutedRefs(rows) ==
    {OutputRef(rows[i].receipt) : i \in
        {i \in DOMAIN rows :
            LET p == run[rows[i].receipt].payload
            IN  p.source_class = "executed" /\ p.tre_logic = "+1"}}

EventRefs(refs) == {e \in Event : <<"event", e>> \in refs}

(* The events whose receipt says executed, which the loop of a replay      *)
(* takes up when it comes to that ...                                      *)
Executed == objects.muef_event \cap EventRefs(ExecutedRefs(chain))

(* ... and whether it does: verify_chain accepts the table, and the state  *)
(* can be hashed. A replay of the store as it is would raise otherwise.    *)
ReplayAnswers == VerifyChain(chain).valid /\ Hashable(Materialize(PatchOf, Executed))

(* list_kind("artifact"): ORDER BY created_at, object_id, which are        *)
(* observed_at and a random artifact_id.                                   *)
OldestFirst(j, k) == run[j].hashed.place < run[k].hashed.place

(* _find_artifact by path: the first of list_kind that matches. *)
ArtifactsAt(p) == {j \in objects.artifact : run[j].request.path = p}
FindArtifact(p) ==
    {j \in ArtifactsAt(p) : \A k \in ArtifactsAt(p) : k = j \/ OldestFirst(j, k)}

(* The memories about a subject, and the receipts with it as output_ref;   *)
(* each is named by the run that made it.                                  *)
MemoriesOf(subject) == {k \in objects.memory : OutputRef(k) = subject}
ReceiptsOf(subject) ==
    {k \in Job : OutputRef(k) = subject /\ \E i \in DOMAIN chain : chain[i].receipt = k}

-----------------------------------------------------------------------------
NodeInit ==
    /\ ChainInit
    /\ objects = [muef_event |-> {}, intent |-> {}, artifact |-> {}, memory |-> {},
                  authority |-> [j \in Job |-> NoDecision],
                  execution |-> [j \in Job |-> "none"]]
    /\ run = [j \in Job |-> [at |-> "new", request |-> NoRequest,
                             payload |-> NoPayload, hashed |-> NotHashed,
                             view |-> NoView]]
    /\ file \in [Path -> Content \cup {Missing}]
    /\ changes = 0

(* A call arrives; with Serial, only when no other is being served. *)
Begin(j, q, to) ==
    /\ run[j].at = "new"
    /\ Serial => \A k \in Job : ~Running(k)
    /\ run' = [run EXCEPT ![j].at = to, ![j].request = q]

Goto(j, from, to) ==
    /\ run[j].at = from
    /\ run' = [run EXCEPT ![j].at = to]

StoreEvent(j, q) ==
    /\ Begin(j, q, "event_stored")
    /\ objects' = [objects EXCEPT !.muef_event = @ \cup {q.event}]
    /\ UNCHANGED <<chainVars, envVars>>

(* Mutant of ReceiveEvent: the event is stored before it is validated. *)
ReceiveEventUnchecked(j, q) ==
    /\ q \in PatchRequest
    /\ q.event \notin objects.muef_event
    /\ StoreEvent(j, q)

(* Mutant of ReceiveEvent: INSERT OR IGNORE, an event may come twice. *)
ReceiveEventAgain(j, q) ==
    /\ q \in PatchRequest
    /\ q.event \in WellFormed
    /\ StoreEvent(j, q)

(* process_muef_event up to its first put: the event is stored under its   *)
(* own id.                                                                 *)
ReceiveEvent(j, q) ==
    /\ q \in PatchRequest
    /\ q.event \in WellFormed \ objects.muef_event
    /\ StoreEvent(j, q)

(* The event is malformed (ValueError), or its id is taken: object_id is   *)
(* the primary key of objects (IntegrityError).                            *)
RejectEvent(j, q) ==
    /\ q \in PatchRequest
    /\ q.event \notin WellFormed \/ q.event \in objects.muef_event
    /\ Begin(j, q, "rejected")
    /\ UNCHANGED <<chainVars, objects, envVars>>

RecordPatchIntent(j) ==
    /\ Goto(j, "event_stored", "intent_stored")
    /\ objects' = [objects EXCEPT !.intent = @ \cup {j}]
    /\ UNCHANGED <<chainVars, envVars>>

(* inspect_artifact up to its first put. *)
RequestInspection(j, q) ==
    /\ q \in InspectRequest
    /\ Begin(j, q, "intent_stored")
    /\ objects' = [objects EXCEPT !.intent = @ \cup {j}]
    /\ UNCHANGED <<chainVars, envVars>>

(* qualify_claim up to its first put. *)
RequestQualification(j, q) ==
    /\ q \in ClaimRequest
    /\ Begin(j, q, "intent_stored")
    /\ objects' = [objects EXCEPT !.intent = @ \cup {j}]
    /\ UNCHANGED <<chainVars, envVars>>

(* No claim_ref, or an observation that does not validate (ValueError).    *)
RejectQualification(j, q) ==
    /\ q \in ClaimRequest
    /\ Begin(j, q, "rejected")
    /\ UNCHANGED <<chainVars, objects, envVars>>

TargetOf(j) ==
    IF Op(j) = "state.patch" THEN "state_ref"
    ELSE IF Op(j) = "claim.qualify" THEN "claim_ref"
    ELSE IF FileOf(j) = Missing THEN "no_file"
    ELSE IF run[j].request.path \in Inside THEN "file_inside"
    ELSE "file_outside"

(* The guard evaluates the intent, looking at the file system as it is     *)
(* now, and the decision is stored.                                        *)
DecideAuthority(j) ==
    /\ Goto(j, "intent_stored", "authority_stored")
    /\ objects' = [objects EXCEPT !.authority[j] =
                     A!Evaluate(Op(j), run[j].request.scope, TargetOf(j))]
    /\ UNCHANGED <<chainVars, envVars>>

-----------------------------------------------------------------------------
(* inspect_artifact, allowed. *)

(* The file's hash, and a place among the artifacts that no other has.     *)
Observe(j) ==
    /\ run[j].at = "authority_stored"
    /\ \E n \in Place \ {run[k].hashed.place : k \in Job} :
          run' = [run EXCEPT ![j].at = "hashed",
                             ![j].hashed = [sha256 |-> FileOf(j), place |-> n]]
    /\ UNCHANGED <<chainVars, objects, envVars>>

(* Mutant of HashFile: the file is read whatever was decided. *)
HashFileUnasked(j) == Op(j) = "artifact.inspect" /\ Observe(j)

(* The file is read and the artifact observed. *)
HashFile(j) ==
    /\ Op(j) = "artifact.inspect"
    /\ Allowed(j)
    /\ FileOf(j) # Missing
    /\ Observe(j)

StoreArtifact(j) ==
    /\ Goto(j, "hashed", "artifact_stored")
    /\ objects' = [objects EXCEPT !.artifact = @ \cup {j}]
    /\ UNCHANGED <<chainVars, envVars>>

StoreExecution(j, from, outcome) ==
    /\ Goto(j, from, "execution_stored")
    /\ objects' = [objects EXCEPT !.execution[j] = outcome]
    /\ UNCHANGED <<chainVars, envVars>>

(* The file is read again; what the comparison says goes into execution.   *)
VerifyFile(j) ==
    /\ Op(j) = "artifact.inspect"
    /\ FileOf(j) # Missing
    /\ StoreExecution(j, "artifact_stored",
          IF FileOf(j) = run[j].hashed.sha256 THEN "success" ELSE "mismatch")

(* FileNotFoundError: the file went away after the guard saw it. *)
FileGone(j) ==
    /\ Op(j) = "artifact.inspect"
    /\ FileOf(j) = Missing
    /\ \/ Allowed(j) /\ Goto(j, "authority_stored", "raised")
       \/ Goto(j, "artifact_stored", "raised")
    /\ UNCHANGED <<chainVars, objects, envVars>>

-----------------------------------------------------------------------------
(* process_muef_event, allowed: the record is all there is to execute. *)

ExecutePatch(j) ==
    /\ Op(j) = "state.patch"
    /\ Allowed(j)
    /\ StoreExecution(j, "authority_stored", "success")

-----------------------------------------------------------------------------
(* qualify_claim, allowed. What the evidence comes to is left out. *)

QualifyClaim(j) ==
    /\ Op(j) = "claim.qualify"
    /\ Allowed(j)
    /\ StoreExecution(j, "authority_stored", "success")

(* The evidence, the profile or the requirements do not validate           *)
(* (ValueError), which nobody looked at before authority was asked.        *)
FailQualification(j) ==
    /\ Op(j) = "claim.qualify"
    /\ Allowed(j)
    /\ Goto(j, "authority_stored", "raised")
    /\ UNCHANGED <<chainVars, objects, envVars>>

-----------------------------------------------------------------------------
(* The receipt and the memory. *)

IssueReceipt(j, from, source_class, output_ref) ==
    /\ run[j].at = from
    /\ MakeReceipt(j)
    /\ run' = [run EXCEPT ![j].at = "receipting",
                          ![j].payload = [source_class |-> source_class,
                                          tre_logic |-> Decision(j).tre_logic,
                                          output_ref |-> output_ref]]
    /\ UNCHANGED <<objects, envVars>>

(* The output_ref of a receipt: an object of the run's own, but for an     *)
(* event and a claim, which others may be about, too.                      *)
RefOf(j, own) ==
    CASE Op(j) = "state.patch"   -> <<"event", EventOf(j)>>
      [] Op(j) = "claim.qualify" -> <<"claim", run[j].request.claim>>
      [] OTHER                   -> <<own, j>>

ExecutedClass(j) == IF Op(j) = "claim.qualify" THEN "derived" ELSE "executed"

(* Mutant of ReceiptExecution: the receipt goes before the execution. *)
ReceiptExecutionFirst(j) ==
    /\ Allowed(j)
    /\ Op(j) = "state.patch"
    /\ IssueReceipt(j, "authority_stored", "executed", RefOf(j, "artifact"))

(* Mutant of ReceiptExecution: another source class. *)
ReceiptExecutionAuthorized(j) ==
    IssueReceipt(j, "execution_stored", "authorized", RefOf(j, "artifact"))

(* The receipt of what was executed; a failed verification is executed too.*)
ReceiptExecution(j) ==
    IssueReceipt(j, "execution_stored", ExecutedClass(j), RefOf(j, "artifact"))

(* _record_non_execution (the node's and the claim runtime's) and          *)
(* _record_event_non_execution.                                            *)
ReceiptNonExecution(j) ==
    /\ ~Allowed(j)
    /\ IssueReceipt(j, "authority_stored", "proposed", RefOf(j, "authority"))

(* append_receipt. *)
AppendReceipt(j) ==
    /\ \/ CheckHead(j) /\ Goto(j, "receipting", "receipting")
       \/ RefuseReceipt(j) /\ Goto(j, "receipting", "raised")
       \/ InsertReceipt(j) /\ Goto(j, "receipting", "receipted")
    /\ UNCHANGED <<objects, envVars>>

AfterMemory(j) == IF Op(j) = "state.patch" THEN "remembered" ELSE "done"

(* The last put. All return then, but an event, which is replayed. *)
StoreMemory(j) ==
    /\ Goto(j, "receipted", AfterMemory(j))
    /\ objects' = [objects EXCEPT !.memory = @ \cup {j}]
    /\ UNCHANGED <<chainVars, envVars>>

-----------------------------------------------------------------------------
(* replay_state reads the store in three sessions. *)

StartReplay(j, q) ==
    /\ q \in ReplayRequest
    /\ Begin(j, q, "remembered")
    /\ UNCHANGED <<chainVars, objects, envVars>>

See(j, from, to, view) ==
    /\ run[j].at = from
    /\ run' = [run EXCEPT ![j].at = to, ![j].view = view]
    /\ UNCHANGED <<chainVars, objects, envVars>>

(* Mutant of VerifyForReplay: the verified head is not kept. *)
VerifyForReplayNoHead(j) ==
    /\ VerifyChain(chain).valid
    /\ See(j, "remembered", "verified", run[j].view)

VerifyForReplay(j) ==
    /\ VerifyChain(chain).valid
    /\ See(j, "remembered", "verified",
           [run[j].view EXCEPT !.head = VerifyChain(chain).head])

(* ValueError: cannot replay an invalid receipt chain. *)
RefuseReplay(j) ==
    /\ ~VerifyChain(chain).valid
    /\ See(j, "remembered", "raised", run[j].view)

(* Mutant of IndexReceipts: the receipts are not asked. *)
IndexReceiptsNot(j) ==
    See(j, "verified", "indexed", [run[j].view EXCEPT !.refs = objects.muef_event])

IndexReceipts(j) ==
    See(j, "verified", "indexed",
        [run[j].view EXCEPT !.refs = EventRefs(ExecutedRefs(chain))])

ToApply(j) == objects.muef_event \cap run[j].view.refs

(* Mutant of AnswerReplay: the head is read again for the answer. *)
AnswerReplayNewHead(j) ==
    /\ Hashable(Materialize(PatchOf, ToApply(j)))
    /\ See(j, "indexed", "done",
           [run[j].view EXCEPT !.applied = ToApply(j), !.head = LatestReceiptHash])

(* list_kind("muef_event") and the loop over it; the state hash is last. *)
AnswerReplay(j) ==
    /\ Hashable(Materialize(PatchOf, ToApply(j)))
    /\ See(j, "indexed", "done", [run[j].view EXCEPT !.applied = ToApply(j)])

(* TypeError: the state holds a float, which the canonical JSON forbids. *)
FailReplay(j) ==
    /\ ~Hashable(Materialize(PatchOf, ToApply(j)))
    /\ See(j, "indexed", "unhashable", run[j].view)

-----------------------------------------------------------------------------
(* recall_artifact and recall_claim read the store in several sessions, in *)
(* different orders.                                                       *)

StartRecall(j, q) ==
    /\ q \in RecallRequest
    /\ Begin(j, q, "recalling")
    /\ UNCHANGED <<chainVars, objects, envVars>>

SeeSubject(j, subject) ==
    See(j, "recalling", "located", [run[j].view EXCEPT !.subject = subject])

SeeMemories(j, from, to) ==
    See(j, from, to, [run[j].view EXCEPT !.memories = MemoriesOf(run[j].view.subject)])

SeeReceipts(j, from, to) ==
    See(j, from, to, [run[j].view EXCEPT !.history = ReceiptsOf(run[j].view.subject)])

(* _find_artifact: the first artifact of the path, or nothing to recall.   *)
LocateArtifact(j) ==
    /\ Op(j) = "artifact.recall"
    /\ LET p == run[j].request.path
       IN  \/ ArtifactsAt(p) = {} /\ See(j, "recalling", "done", run[j].view)
           \/ \E k \in FindArtifact(p) : SeeSubject(j, <<"artifact", k>>)

LocateClaim(j) ==
    /\ Op(j) = "claim.recall"
    /\ SeeSubject(j, <<"claim", run[j].request.claim>>)

(* recall_artifact: first the receipts, then the memories. *)
RecallArtifact(j) ==
    /\ Op(j) = "artifact.recall"
    /\ SeeReceipts(j, "located", "half_read") \/ SeeMemories(j, "half_read", "gathered")

(* Mutant of RecallClaim: the order of recall_artifact. *)
RecallClaimReceiptsFirst(j) ==
    /\ Op(j) = "claim.recall"
    /\ SeeReceipts(j, "located", "half_read") \/ SeeMemories(j, "half_read", "gathered")

(* recall_claim: first the memories, then the receipts. *)
RecallClaim(j) ==
    /\ Op(j) = "claim.recall"
    /\ SeeMemories(j, "located", "half_read") \/ SeeReceipts(j, "half_read", "gathered")

(* A receipt's intent is there, and the execution that its metadata names. *)
Resolves(k) ==
    /\ k \in objects.intent
    /\ run[k].payload.source_class # "proposed" => objects.execution[k] # "none"

(* The history is completed with the objects that its receipts refer to.   *)
FinishRecall(j) ==
    See(j, "gathered", "done",
        [run[j].view EXCEPT !.resolved = {k \in run[j].view.history : Resolves(k)}])

-----------------------------------------------------------------------------
(* The process dies, or a session raises (database is locked), before the  *)
(* run's next step.                                                        *)
LoseRun(j) ==
    /\ Faults
    /\ Running(j)
    /\ IF InFlight(j) THEN LoseReceipt(j) ELSE UNCHANGED chainVars
    /\ run' = [run EXCEPT ![j].at = "lost"]
    /\ UNCHANGED <<objects, envVars>>

(* Somebody writes, creates or deletes a file. *)
ChangeFile(p, content) ==
    /\ changes < MaxFileChanges
    /\ file[p] # content
    /\ file' = [file EXCEPT ![p] = content]
    /\ changes' = changes + 1
    /\ UNCHANGED <<chainVars, objects, run>>

Call(j) ==
    \E q \in Requests :
        ReceiveEvent(j, q) \/ RejectEvent(j, q) \/ RequestInspection(j, q)
          \/ StartReplay(j, q) \/ RequestQualification(j, q)
          \/ RejectQualification(j, q) \/ StartRecall(j, q)

Step(j) ==
    \/ RecordPatchIntent(j)
    \/ DecideAuthority(j)
    \/ HashFile(j)
    \/ StoreArtifact(j)
    \/ VerifyFile(j)
    \/ FileGone(j)
    \/ ExecutePatch(j)
    \/ QualifyClaim(j)
    \/ FailQualification(j)
    \/ ReceiptExecution(j)
    \/ ReceiptNonExecution(j)
    \/ AppendReceipt(j)
    \/ StoreMemory(j)
    \/ VerifyForReplay(j)
    \/ RefuseReplay(j)
    \/ IndexReceipts(j)
    \/ AnswerReplay(j)
    \/ FailReplay(j)
    \/ LocateArtifact(j) \/ LocateClaim(j)
    \/ RecallArtifact(j) \/ RecallClaim(j)
    \/ FinishRecall(j)

NodeNext ==
    \/ \E j \in Job : Call(j) \/ Step(j) \/ LoseRun(j)
    \/ \E p \in Path, content \in Content \cup {Missing} : ChangeFile(p, content)

NodeSpec == NodeInit /\ [][NodeNext]_nodeVars

(* A thread whose handler runs keeps running; a client need not call.      *)
FairNodeSpec == NodeSpec /\ \A j \in Job : WF_nodeVars(Step(j))

-----------------------------------------------------------------------------
PayloadRefs ==
    {<<"none">>} \cup {<<"event", e>> : e \in Event}
      \cup {<<"claim", c>> : c \in Claim} \cup ({"artifact", "authority"} \X Job)

Store ==
    [muef_event : SUBSET WellFormed, intent : SUBSET Job, artifact : SUBSET Job,
     memory : SUBSET Job,
     authority : [Job -> A!Decisions \cup {NoDecision}],
     execution : [Job -> {"none", "success", "mismatch"}]]

Payload ==
    [source_class : {"none", "proposed", "executed", "derived"},
     tre_logic : A!TreLogic \cup {"none"}, output_ref : PayloadRefs]

Hashed == [sha256 : Content \cup {Missing}, place : Place \cup {0}]

View == [head : Hash, refs : SUBSET Event, applied : SUBSET Event,
         subject : PayloadRefs, memories : SUBSET Job, history : SUBSET Job,
         resolved : SUBSET Job]

RunState ==
    [at : Stage, request : Requests \cup {NoRequest}, payload : Payload,
     hashed : Hashed, view : View]

(* Type invariant: the store, the runs' locals and the file system.        *)
NodeTypeOK ==
    /\ ChainTypeOK
    /\ objects \in Store
    /\ run \in [Job -> RunState]
    /\ file \in [Path -> Content \cup {Missing}]
    /\ changes \in 0 .. MaxFileChanges

(* Intent, then authority, then execution (docs/adr/0001): no file is read *)
(* and nothing is stored as artifact or execution by a run whose stored    *)
(* decision is not +1, and no decision is stored before its intent.        *)
AuthorityPrecedesEffect ==
    \A j \in Job :
        /\ run[j].hashed # NotHashed \/ j \in objects.artifact
             \/ objects.execution[j] # "none" => Allowed(j)
        /\ Decision(j) # NoDecision => j \in objects.intent

(* A receipt never runs ahead of what it vouches for: at the moment its    *)
(* row can be read, every object it refers to is in the store, its Tre     *)
(* Logic is the stored decision's, and it says executed or derived exactly *)
(* when there is an execution; and a memory is of a receipt whose row can  *)
(* be read. So recall_artifact never finds a dangling reference, wherever  *)
(* a run died.                                                             *)
ReceiptsTellTheTruth ==
    /\ \A i \in DOMAIN chain :
        LET j == chain[i].receipt
        IN  /\ j \in objects.intent
            /\ Decision(j) # NoDecision
            /\ run[j].payload.tre_logic = Decision(j).tre_logic
            /\ run[j].payload.source_class # "proposed" <=> objects.execution[j] # "none"
            /\ run[j].payload.source_class # "proposed" => run[j].payload.tre_logic = "+1"
            /\ OutputRef(j)[1] = "event" => OutputRef(j)[2] \in objects.muef_event
            /\ OutputRef(j)[1] = "artifact" => OutputRef(j)[2] \in objects.artifact
    /\ \A j \in objects.memory : \E i \in DOMAIN chain : chain[i].receipt = j

(* No two receipts have the same output_ref, but those of a claim, however *)
(* often a client sends the same event: replay's index by output_ref loses *)
(* none, and an event that was withheld is not executed by a later one.    *)
OneReceiptPerOutput ==
    \A i, k \in DOMAIN chain :
        LET output == OutputRef(chain[i].receipt)
        IN  output = OutputRef(chain[k].receipt) /\ output[1] # "claim" => i = k

(* What a replay once told is never silently taken back: a replay of the   *)
(* store as it is now, and so every later one, applies every event that    *)
(* any replay has ever reported as applied, or it answers nothing at all   *)
(* (the table forked, or a state came out that cannot be hashed).          *)
AnswersStand == ReplayAnswers => \A j \in Job : run[j].view.applied \subseteq Executed

(* The events with an executed receipt in the lineage of a chain head.     *)
EventsBehind(head) ==
    EventRefs({OutputRef(head[i]) : i \in
        {i \in DOMAIN head : run[head[i]].payload.source_class = "executed"}})

Answered(j) == run[j].at = "done" /\ Op(j) \in {"state.patch", "state.replay"}

(* The state that replay returns is no older than the chain head it        *)
(* returns with it: every event receipted in that head's lineage is in.    *)
AnswerCoversHead ==
    \A j \in Job : Answered(j) => EventsBehind(run[j].view.head) \subseteq run[j].view.applied

(* The state that replay returns is no newer than the chain head it        *)
(* returns with it: the head commits to the receipt of every applied event.*)
HeadCoversAnswer ==
    \A j \in Job : Answered(j) => run[j].view.applied \subseteq EventsBehind(run[j].view.head)

(* The replay in process_muef_event's answer shows the event itself when   *)
(* it was allowed and not when it was held or denied.                      *)
ReadsItsOwnEvent ==
    \A j \in Job :
        Answered(j) /\ Op(j) = "state.patch" =>
            (EventOf(j) \in run[j].view.applied <=> Allowed(j))

(* What recall tells hangs together, though its reads see different        *)
(* stores: every receipt of the history comes with the intent and, unless  *)
(* nothing was executed, the execution that it names; and every memory of  *)
(* a recalled claim has its receipt in the history. (Not so of an artifact:*)
(* there the memories are read last, and may be newer than the history.)   *)
RecallIsGrounded ==
    \A j \in Job :
        run[j].at = "done" /\ Op(j) \in {"claim.recall", "artifact.recall"} =>
            /\ run[j].view.resolved = run[j].view.history
            /\ Op(j) = "claim.recall" => run[j].view.memories \subseteq run[j].view.history

-----------------------------------------------------------------------------
(* Abstractions that the node implements. *)

Owns(j, e) ==
    Op(j) = "state.patch" /\ run[j].at # "rejected" /\ EventOf(j) = e

FateOf(e) ==
    IF e \notin objects.muef_event THEN "unseen"
    ELSE IF e \in Executed THEN "executed"
    ELSE IF \E i \in DOMAIN chain : OutputRef(chain[i].receipt) = <<"event", e>>
      THEN "withheld"
    ELSE IF \E j \in Job : Owns(j, e) /\ run[j].at \in Ended THEN "abandoned"
    ELSE "pending"

AuthorizedEvents ==
    {e \in Event : \E j \in Job : Owns(j, e) /\ Allowed(j)}

Ledger == INSTANCE EventLedger WITH
    fate <- [e \in Event |-> FateOf(e)],
    authorized <- AuthorizedEvents,
    readable <- VerifyChain(chain).valid

(* Deliveries, threads and crashes notwithstanding, the node's receipts    *)
(* decide each event once and for all and call none executed that has no   *)
(* authority; and once a fork keeps every replay from reading them, that   *)
(* is for good.                                                            *)
ImplementsEventLedger == Ledger!LedgerSpec

-----------------------------------------------------------------------------
(* Liveness. *)

(* An event that authority allows gets its receipt, from which on every    *)
(* replay that answers applies it - unless its handler dies or its receipt *)
(* is refused because another one came in between: nothing else keeps it   *)
(* out of the record, no file, no other event and no fork.                 *)
AllowedEventsAreExecuted ==
    \A e \in Event :
        e \in AuthorizedEvents ~>
            \/ e \in Executed
            \/ \E j \in Job :
                  Owns(j, e) /\ (run[j].at = "lost" \/ pc[j] = "refused")

-----------------------------------------------------------------------------
(* What the documents say and the code does not do. *)

(* "All other values replace the key." (cambus-replay-v0.2.md:65)          *)
EveryValueReplays == \A j \in Job : run[j].at # "unhashable"
=============================================================================
