---------------------------- MODULE RustRunnerProofs ----------------------------
(***************************************************************************)
(* Theorems about RustRunner, for every set of calls, every choice of the  *)
(* code that does not compile and every number of seconds.                 *)
(***************************************************************************)
EXTENDS RustRunner, TLAPS

(* A step of the system, taken apart once for all the proofs below.        *)
CallStep(c) ==
    \/ CreateWorkspace(c) \/ FailToCreate(c) \/ Resume(c)
    \/ CargoReads(c) \/ CargoSucceeds(c) \/ CargoFails(c)
    \/ ProgramEnds(c, "ok") \/ ProgramEnds(c, "failed")

(* The results that execute_rust_code returns with. *)
Results == {"no_binary", "not_started", "compile_failed", "compile_timeout", "exit_ok",
            "exit_bad", "execution_timeout"}

-----------------------------------------------------------------------------
(* Types. *)

LEMMA RemainsType ==
    ASSUME RustTypeOK, NEW n \in Name, NEW left \in Remains(n)
    PROVE  /\ left \in Workspace
           /\ left.there => OutOfHand(n)
           /\ left.main \in {disk[n].main, NoCode}
           /\ left.binary \in {disk[n].binary, NoCode}
<1>1. disk[n] \in Workspace /\ NoCode \in Code
  BY DEF RustTypeOK, Code
<1>2. CASE left = Missing
  BY <1>1, <1>2 DEF Missing, Workspace
<1>3. CASE left # Missing
  <2>1. OutOfHand(n) /\ left \in [there : {TRUE}, main : {disk[n].main, NoCode},
                                   binary : {disk[n].binary, NoCode}]
    BY <1>3 DEF Remains
  <2> QED
    BY <1>1, <2>1 DEF Workspace
<1> QED
  BY <1>2, <1>3

CallState == [at : {"new", "compiling", "executing", "returned"},
              began : Name, dir : Name, result : Result]

(* What an update of one field leaves. *)
LEMMA FieldUpdates ==
    ASSUME RustTypeOK, NEW c \in Call
    PROVE  /\ \A s \in {"new", "compiling", "executing", "returned"} :
                [call EXCEPT ![c].at = s] \in [Call -> CallState]
           /\ \A r \in Result :
                [call EXCEPT ![c].at = "returned", ![c].result = r] \in [Call -> CallState]
           /\ \A s \in Outcome :
                [cargo EXCEPT ![c].at = s] \in [Call -> [at : Outcome, source : Code]]
           /\ \A n \in Name : disk[n] \in Workspace
<1> USE DEF RustTypeOK
<1>1. \A s \in {"new", "compiling", "executing", "returned"} :
        [call EXCEPT ![c].at = s] \in [Call -> CallState]
  BY DEF CallState
<1>2. \A r \in Result :
        [call EXCEPT ![c].at = "returned", ![c].result = r] \in [Call -> CallState]
  BY DEF CallState
<1>3. \A s \in Outcome : [cargo EXCEPT ![c].at = s] \in [Call -> [at : Outcome, source : Code]]
  OBVIOUS
<1> QED
  BY <1>1, <1>2, <1>3

LEMMA DiskUpdates ==
    ASSUME disk \in [Name -> Workspace], NEW n \in Name, NEW code \in Code,
           \/ disk' = [disk EXCEPT ![n].binary = code]
           \/ disk' = [disk EXCEPT ![n].there = TRUE]
           \/ disk' = [disk EXCEPT ![n].there = TRUE, ![n].main = code]
    PROVE  disk' \in [Name -> Workspace]
<1>1. CASE disk' = [disk EXCEPT ![n].binary = code]
  BY <1>1 DEF Workspace
<1>2. CASE disk' = [disk EXCEPT ![n].there = TRUE]
  BY <1>2 DEF Workspace
<1>3. CASE disk' = [disk EXCEPT ![n].there = TRUE, ![n].main = code]
  BY <1>3 DEF Workspace
<1> QED
  BY <1>1, <1>2, <1>3

LEMMA ReturnEffect ==
    ASSUME RustTypeOK, NEW c \in Call, NEW result \in Results, Return(c, result)
    PROVE  /\ call' = [call EXCEPT ![c].at = "returned", ![c].result = result]
           /\ \E left \in Remains(call[c].dir) : disk' = [disk EXCEPT ![call[c].dir] = left]
           /\ UNCHANGED <<second, cargo>>
           /\ call[c].dir \in Name /\ result \in Result
  BY DEF Return, RustTypeOK, Results, Result

(* The ways in which a coroutine returns. *)
LEMMA Returns ==
    ASSUME RustTypeOK, NEW c \in Call, Resume(c), ~RunBinary(c)
    PROVE  \E result \in Results :
             /\ Return(c, result) /\ program' = program
             /\ call[c].at \in {"compiling", "executing"}
             /\ result \in {"no_binary", "not_started", "compile_failed"} =>
                  call[c].at = "compiling" /\ cargo[c].at \in {"ok", "failed"}
             /\ result = "compile_timeout" => call[c].at = "compiling"
             /\ result \in {"exit_ok", "exit_bad"} =>
                  call[c].at = "executing" /\ program[c].at \in {"ok", "failed"}
             /\ result = "execution_timeout" => call[c].at = "executing"
  BY DEF Resume, MissBinary, FailToExecute, CompileFailed, CompileTimeout, ExecuteDone, ExecuteTimeout,
     Results

LEMMA StepType == RustTypeOK /\ [RustNext]_rustVars => RustTypeOK'
<1> SUFFICES ASSUME RustTypeOK, [RustNext]_rustVars PROVE RustTypeOK'
  OBVIOUS
<1> USE DEF Code
<1>1. CASE UNCHANGED rustVars
  BY <1>1 DEF RustTypeOK, rustVars
<1>2. CASE Tick
  BY <1>2, ClockAssumption DEF RustTypeOK, Tick, Name
<1>3. ASSUME NEW c \in Call, CreateWorkspace(c) PROVE RustTypeOK'
  <2>0. second \in Name /\ c \in Code
    BY DEF RustTypeOK
  <2>1. disk' \in [Name -> Workspace]
    BY <1>3, <2>0, DiskUpdates DEF CreateWorkspace, WorkspaceName, RustTypeOK
  <2>2. cargo' \in [Call -> [at : Outcome, source : Code]]
    BY <1>3, FieldUpdates DEF CreateWorkspace, Outcome
  <2>3. call' \in [Call -> CallState]
    BY <1>3, <2>0 DEF RustTypeOK, CreateWorkspace, WorkspaceName, CallState, Result
  <2> QED
    BY <1>3, <2>1, <2>2, <2>3 DEF RustTypeOK, CreateWorkspace, CallState
<1>4. ASSUME NEW c \in Call, FailToCreate(c) PROVE RustTypeOK'
  <2>0. second \in Name
    BY DEF RustTypeOK
  <2>1. disk[second].main \in Code /\ NoCode \in Code
    BY <2>0, FieldUpdates DEF Workspace
  <2>2. PICK code \in {disk[second].main, NoCode} :
          disk' = [disk EXCEPT ![second].there = TRUE, ![second].main = code]
    BY <1>4 DEF FailToCreate, WorkspaceName
  <2>3. disk' \in [Name -> Workspace]
    BY <2>0, <2>1, <2>2, DiskUpdates DEF RustTypeOK
  <2> QED
    BY <1>4, <2>3 DEF RustTypeOK, FailToCreate, WorkspaceName, Result
<1>5. ASSUME NEW c \in Call, Resume(c), ~RunBinary(c) PROVE RustTypeOK'
  <2>1. PICK result \in Results : Return(c, result) /\ program' = program
    BY <1>5, Returns
  <2>2. PICK left \in Remains(call[c].dir) : disk' = [disk EXCEPT ![call[c].dir] = left]
    BY <2>1, ReturnEffect
  <2>3. disk' \in [Name -> Workspace]
    BY <2>1, <2>2, ReturnEffect, RemainsType DEF RustTypeOK
  <2>4. /\ call' = [call EXCEPT ![c].at = "returned", ![c].result = result]
        /\ result \in Result
    BY <2>1, ReturnEffect
  <2>5. call' \in [Call -> CallState]
    BY <2>4, FieldUpdates
  <2> QED
    BY <2>1, <2>3, <2>5, ReturnEffect DEF RustTypeOK, CallState
<1>6. ASSUME NEW c \in Call, RunBinary(c) PROVE RustTypeOK'
  <2>1. call' \in [Call -> CallState]
    BY <1>6, FieldUpdates DEF RunBinary
  <2>2. call[c].dir \in Name
    BY DEF RustTypeOK
  <2>3. disk[call[c].dir].binary \in Code
    BY <2>2, FieldUpdates DEF Workspace
  <2>4. program' \in [Call -> [at : Outcome, image : Code]]
    BY <1>6, <2>3 DEF RustTypeOK, RunBinary, Outcome
  <2> QED
    BY <1>6, <2>1, <2>4 DEF RustTypeOK, RunBinary, CallState
<1>7. ASSUME NEW c \in Call, CargoReads(c) PROVE RustTypeOK'
  <2>1. call[c].dir \in Name
    BY DEF RustTypeOK
  <2>2. disk[call[c].dir].main \in Code
    BY <2>1, FieldUpdates DEF Workspace
  <2>3. cargo' \in [Call -> [at : Outcome, source : Code]]
    BY <1>7, <2>2 DEF RustTypeOK, CargoReads, Outcome
  <2> QED
    BY <1>7, <2>3 DEF RustTypeOK, CargoReads
<1>8. ASSUME NEW c \in Call, CargoSucceeds(c) PROVE RustTypeOK'
  <2>1. call[c].dir \in Name /\ cargo[c].source \in Code
    BY DEF RustTypeOK
  <2>2. disk' = [disk EXCEPT ![call[c].dir].binary = cargo[c].source]
          /\ cargo' = [cargo EXCEPT ![c].at = "ok"]
    BY <1>8 DEF CargoSucceeds
  <2>3. disk' \in [Name -> Workspace]
    BY <2>1, <2>2, DiskUpdates DEF RustTypeOK
  <2>4. cargo' \in [Call -> [at : Outcome, source : Code]]
    BY <2>2, FieldUpdates DEF Outcome
  <2> QED
    BY <1>8, <2>3, <2>4 DEF RustTypeOK, CargoSucceeds
<1>9. ASSUME NEW c \in Call, CargoFails(c) PROVE RustTypeOK'
  <2>1. call[c].dir \in Name /\ disk \in [Name -> Workspace]
    BY DEF RustTypeOK
  <2>2. disk' \in [Name -> Workspace] /\ cargo' \in [Call -> [at : Outcome, source : Code]]
    BY <1>9, <2>1, FieldUpdates, DiskUpdates DEF CargoFails, Outcome
  <2> QED
    BY <1>9, <2>2 DEF RustTypeOK, CargoFails
<1>10. ASSUME NEW c \in Call, ProgramEnds(c, "ok") \/ ProgramEnds(c, "failed")
       PROVE  RustTypeOK'
  BY <1>10 DEF RustTypeOK, ProgramEnds, Outcome
<1> QED
  BY <1>1, <1>2, <1>3, <1>4, <1>5, <1>6, <1>7, <1>8, <1>9, <1>10 DEF RustNext

(* Type correctness of the coroutines, their processes and workspaces.     *)
THEOREM RustTypeCorrect == RustSpec => []RustTypeOK
<1>1. RustInit => RustTypeOK
  BY ClockAssumption
  DEF RustInit, RustTypeOK, Name, Workspace, Missing, Code, Result, Outcome
<1> QED
  BY <1>1, StepType, PTL DEF RustSpec

-----------------------------------------------------------------------------
(* What each kind of step does to the calls and to the processes.          *)

(* How far a call and its processes have come together. *)
StageOf(c) ==
    /\ call[c].at = "new" => cargo[c].at = "none" /\ cargo[c].source = NoCode
                               /\ program[c].at = "none"
    /\ call[c].at = "compiling" => program[c].at = "none"
    /\ call[c].at = "executing" => cargo[c].at = "ok"
    /\ call[c].at = "returned" =>
         /\ Building(c) => call[c].result = "compile_timeout"
         /\ program[c].at = "running" => call[c].result = "execution_timeout"

StageInv == RustTypeOK /\ \A c \in Call : StageOf(c)

(* The steps of one call leave the others where they are. *)
LEMMA OtherCalls ==
    ASSUME RustTypeOK, NEW c \in Call, CallStep(c), NEW d \in Call, d # c
    PROVE  call'[d] = call[d] /\ cargo'[d] = cargo[d] /\ program'[d] = program[d]
<1>1. CASE Resume(c) /\ ~RunBinary(c)
  <2>1. PICK result \in Results : Return(c, result) /\ program' = program
    BY <1>1, Returns
  <2>2. /\ call' = [call EXCEPT ![c].at = "returned", ![c].result = result]
        /\ cargo' = cargo
    BY <2>1, ReturnEffect
  <2> QED
    BY <2>1, <2>2 DEF RustTypeOK
<1>2. CASE ~Resume(c)
  BY <1>2 DEF RustTypeOK, CallStep, CreateWorkspace, FailToCreate, CargoReads,
     CargoSucceeds, CargoFails, ProgramEnds
<1>3. CASE RunBinary(c)
  BY <1>3 DEF RustTypeOK, RunBinary
<1> QED
  BY <1>1, <1>2, <1>3

LEMMA OwnStage ==
    ASSUME RustTypeOK, NEW c \in Call, StageOf(c), CallStep(c)
    PROVE  StageOf(c)'
<1> USE DEF StageOf, Building, RustTypeOK
<1>1. CASE Resume(c) /\ ~RunBinary(c)
  <2>1. PICK result \in Results :
          /\ Return(c, result) /\ program' = program
          /\ call[c].at \in {"compiling", "executing"}
          /\ result \in {"no_binary", "not_started", "compile_failed"} =>
               call[c].at = "compiling" /\ cargo[c].at \in {"ok", "failed"}
          /\ result = "compile_timeout" => call[c].at = "compiling"
          /\ result \in {"exit_ok", "exit_bad"} =>
               call[c].at = "executing" /\ program[c].at \in {"ok", "failed"}
          /\ result = "execution_timeout" => call[c].at = "executing"
    BY <1>1, Returns
  <2>2. call'[c].at = "returned" /\ call'[c].result = result /\ cargo' = cargo
    BY <2>1 DEF Return
  <2> QED
    BY <2>1, <2>2 DEF Results
<1>2. CASE RunBinary(c)
  BY <1>2 DEF RunBinary
<1>3. CASE CreateWorkspace(c)
  BY <1>3 DEF CreateWorkspace
<1>4. CASE FailToCreate(c)
  BY <1>4 DEF FailToCreate
<1>5. CASE CargoReads(c)
  BY <1>5 DEF CargoReads
<1>6. CASE CargoSucceeds(c)
  BY <1>6 DEF CargoSucceeds
<1>7. CASE CargoFails(c)
  BY <1>7 DEF CargoFails
<1>8. CASE ProgramEnds(c, "ok") \/ ProgramEnds(c, "failed")
  BY <1>8 DEF ProgramEnds
<1> QED
  BY <1>1, <1>2, <1>3, <1>4, <1>5, <1>6, <1>7, <1>8 DEF CallStep

LEMMA StageStep == StageInv /\ [RustNext]_rustVars => StageInv'
<1> SUFFICES ASSUME StageInv, [RustNext]_rustVars PROVE StageInv'
  OBVIOUS
<1>1. RustTypeOK'
  BY StepType DEF StageInv
<1>2. CASE UNCHANGED <<call, cargo, program>>
  BY <1>1, <1>2 DEF StageInv, StageOf, Building
<1>3. ASSUME NEW c \in Call, CallStep(c) PROVE StageInv'
  <2>1. ASSUME NEW d \in Call, d # c PROVE StageOf(d)'
    BY <1>3, <2>1, OtherCalls DEF StageInv, StageOf, Building
  <2> QED
    BY <1>1, <1>3, <2>1, OwnStage DEF StageInv
<1> QED
  BY <1>2, <1>3 DEF RustNext, CallStep, Tick, rustVars

LEMMA StageInvariance == RustSpec => []StageInv
<1>1. RustInit /\ RustTypeOK => StageInv
  BY DEF RustInit, StageInv, StageOf, Building
<1> QED
  BY <1>1, StageStep, RustTypeCorrect, PTL DEF RustSpec

(* A process that outlives its call belongs to a call that has reported a  *)
(* timeout: every other answer is given over dead processes, and nothing   *)
(* starts one afterwards.                                                  *)
THEOREM OrphansHaveTimedOut == RustSpec => []OrphansAreTimeouts
<1>1. StageInv => OrphansAreTimeouts
  BY DEF StageInv, StageOf, OrphansAreTimeouts, Alive
<1> QED
  BY <1>1, StageInvariance, PTL

-----------------------------------------------------------------------------
(* Workspaces that are left behind. *)

Explains(c, n) ==
    /\ call[c].at # "new" /\ call[c].dir = n
    /\ \/ call[c].at # "returned"
       \/ call[c].result \in {"raised", "compile_timeout"}
       \/ HasRun(c)

LEMMA BuildExplains ==
    ASSUME StageInv, NEW c \in Call, Building(c)
    PROVE  Explains(c, call[c].dir)
  BY DEF StageInv, StageOf, Building, Explains, RustTypeOK

(* A call that returns leaves its workspace to a build or to a program, if *)
(* to anything.                                                            *)
LEMMA ReturnLeaves ==
    ASSUME StageInv, NEW c \in Call, Resume(c), ~RunBinary(c), NEW n \in Name,
           disk'[n].there,
           disk[n].there => \E d \in Call : Explains(d, n)
    PROVE  \E d \in Call : Explains(d, n)'
<1>1. RustTypeOK /\ StageOf(c)
  BY DEF StageInv
<1>2. PICK result \in Results :
        /\ Return(c, result) /\ program' = program
        /\ call[c].at \in {"compiling", "executing"}
        /\ result \in {"no_binary", "not_started", "compile_failed"} =>
             call[c].at = "compiling" /\ cargo[c].at \in {"ok", "failed"}
        /\ result = "compile_timeout" => call[c].at = "compiling"
        /\ result \in {"exit_ok", "exit_bad"} =>
             call[c].at = "executing" /\ program[c].at \in {"ok", "failed"}
        /\ result = "execution_timeout" => call[c].at = "executing"
  BY <1>1, Returns
<1>3. /\ call' = [call EXCEPT ![c].at = "returned", ![c].result = result]
      /\ \E left \in Remains(call[c].dir) : disk' = [disk EXCEPT ![call[c].dir] = left]
      /\ call[c].dir \in Name
  BY <1>1, <1>2, ReturnEffect
<1>4. \A d \in Call : d # c => (Explains(d, n)' <=> Explains(d, n))
  BY <1>1, <1>2, <1>3 DEF RustTypeOK, Explains, HasRun
<1>5. CASE n # call[c].dir
  <2>1. disk[n].there
    BY <1>1, <1>3, <1>5 DEF RustTypeOK
  <2>2. PICK d \in Call : Explains(d, n)
    BY <2>1
  <2> QED
    BY <1>4, <1>5, <2>2 DEF Explains
<1>6. CASE n = call[c].dir /\ result = "compile_timeout"
  <2>1. Explains(c, n)'
    BY <1>1, <1>3, <1>6 DEF RustTypeOK, Explains
  <2> QED
    BY <2>1
<1>7. CASE n = call[c].dir /\ result # "compile_timeout"
  <2>1. PICK left \in Remains(n) : disk'[n] = left
    BY <1>1, <1>3, <1>7 DEF RustTypeOK
  <2>2. OutOfHand(n)
    BY <1>1, <1>3, <1>7, <2>1, RemainsType
  <2>3. CASE \E d \in Call : call[d].dir = n /\ HasRun(d)
    <3>1. PICK d \in Call : call[d].dir = n /\ HasRun(d)
      BY <2>3
    <3>2. call[d].at # "new"
      BY <3>1 DEF StageInv, StageOf, HasRun
    <3>3. call'[d].dir = n /\ call'[d].at # "new" /\ HasRun(d)'
      BY <1>1, <1>2, <1>3, <3>1, <3>2 DEF RustTypeOK, HasRun
    <3> QED
      BY <3>3 DEF Explains
  <2>4. CASE BuildingIn(n)
    <3>1. PICK d \in Call : Building(d) /\ call[d].dir = n
      BY <2>4 DEF BuildingIn
    <3>2. ~Building(c)
      BY <1>1, <1>2, <1>7 DEF StageOf, Building, Results
    <3> QED
      BY <1>4, <3>1, <3>2, BuildExplains
  <2> QED
    BY <2>2, <2>3, <2>4 DEF OutOfHand
<1> QED
  BY <1>5, <1>6, <1>7

(* A program that was started has been started for good. *)
LEMMA RunsStay ==
    ASSUME RustTypeOK, [RustNext]_rustVars, NEW d \in Call, HasRun(d)
    PROVE  HasRun(d)'
<1>1. CASE UNCHANGED program
  BY <1>1 DEF HasRun
<1>2. ASSUME NEW c \in Call, RunBinary(c) PROVE HasRun(d)'
  BY <1>2 DEF RunBinary, RustTypeOK, HasRun
<1>3. ASSUME NEW c \in Call, ProgramEnds(c, "ok") \/ ProgramEnds(c, "failed") PROVE HasRun(d)'
  BY <1>3 DEF ProgramEnds, RustTypeOK, HasRun
<1>4. ASSUME NEW c \in Call, Resume(c), ~RunBinary(c) PROVE HasRun(d)'
  BY <1>1, <1>4, Returns
<1>5. ASSUME NEW c \in Call,
             CreateWorkspace(c) \/ FailToCreate(c) \/ CargoReads(c) \/ CargoSucceeds(c)
               \/ CargoFails(c)
      PROVE  HasRun(d)'
  BY <1>1, <1>5 DEF CreateWorkspace, FailToCreate, CargoReads, CargoSucceeds, CargoFails
<1> QED
  BY <1>1, <1>2, <1>3, <1>4, <1>5 DEF RustNext, Tick, rustVars

LEMMA LeakStep ==
    ASSUME StageInv, LeaksAreExplained, [RustNext]_rustVars
    PROVE  LeaksAreExplained'
<1>0. \A d \in Call : HasRun(d) => HasRun(d)'
  BY RunsStay DEF StageInv
<1>1. RustTypeOK /\ \A n \in Name : disk[n].there => \E c \in Call : Explains(c, n)
  BY DEF StageInv, LeaksAreExplained, Explains
<1>2. SUFFICES ASSUME NEW n \in Name, disk'[n].there PROVE \E c \in Call : Explains(c, n)'
  BY DEF LeaksAreExplained, Explains
<1>3. CASE call' = call /\ disk'[n].there = disk[n].there
  BY <1>0, <1>1, <1>2, <1>3 DEF Explains
<1>4. ASSUME NEW c \in Call, CreateWorkspace(c) \/ FailToCreate(c)
      PROVE  \E d \in Call : Explains(d, n)'
  <2>1. call[c].at = "new" /\ \A d \in Call : d # c => call'[d] = call[d]
    BY <1>1, <1>4 DEF RustTypeOK, CreateWorkspace, FailToCreate
  <2>2. CASE n = second
    <3>1. Explains(c, n)'
      BY <1>1, <1>4, <2>2
      DEF RustTypeOK, CreateWorkspace, FailToCreate, WorkspaceName, Explains
    <3> QED
      BY <3>1
  <2>3. CASE n # second
    <3>1. disk'[n] = disk[n]
      BY <1>1, <1>4, <2>3 DEF RustTypeOK, CreateWorkspace, FailToCreate, WorkspaceName
    <3>2. PICK d \in Call : Explains(d, n)
      BY <1>1, <1>2, <3>1
    <3> QED
      BY <1>0, <2>1, <3>2 DEF Explains
  <2> QED
    BY <2>2, <2>3
<1>5. ASSUME NEW c \in Call, Resume(c), ~RunBinary(c)
      PROVE  \E d \in Call : Explains(d, n)'
  BY <1>1, <1>2, <1>5, ReturnLeaves
<1>6. ASSUME NEW c \in Call, RunBinary(c) PROVE \E d \in Call : Explains(d, n)'
  <2>1. PICK d \in Call : Explains(d, n)
    BY <1>1, <1>2, <1>6 DEF RunBinary
  <2>2. Explains(d, n)'
    BY <1>0, <1>1, <1>6, <2>1 DEF RustTypeOK, RunBinary, Explains
  <2> QED
    BY <2>2
<1>7. ASSUME NEW c \in Call, CargoSucceeds(c) PROVE \E d \in Call : Explains(d, n)'
  <2>1. disk'[n].there = disk[n].there
    BY <1>1, <1>7 DEF RustTypeOK, CargoSucceeds, Workspace
  <2> QED
    BY <1>3, <1>7, <2>1 DEF CargoSucceeds
<1>8. ASSUME NEW c \in Call, CargoFails(c) PROVE \E d \in Call : Explains(d, n)'
  <2>1. call' = call /\ Building(c)
    BY <1>8 DEF CargoFails, Building
  <2>2. CASE n = call[c].dir
    BY <1>0, <2>1, <2>2, BuildExplains DEF Explains
  <2>3. CASE n # call[c].dir
    BY <1>1, <1>3, <1>8, <2>1, <2>3 DEF RustTypeOK, CargoFails
  <2> QED
    BY <2>2, <2>3
<1> QED
  BY <1>3, <1>4, <1>5, <1>6, <1>7, <1>8
  DEF RustNext, rustVars, Tick, CargoReads, ProgramEnds

(* A call that ends before its program starts, over a cargo that has       *)
(* ended, leaves no workspace behind: one is there only while a call still *)
(* uses it, after a call that failed to fill it, because a build was given *)
(* up while cargo was writing, or because a program has run in it.         *)
THEOREM LeaksHaveReasons == RustSpec => []LeaksAreExplained
<1>1. RustInit => LeaksAreExplained
  BY DEF RustInit, LeaksAreExplained, Missing
<1> QED
  BY <1>1, LeakStep, StageInvariance, PTL DEF RustSpec

-----------------------------------------------------------------------------
(* Whose code is where: only those that use a workspace put code into it.  *)

Users(n) == {d \in Call : call[d].at # "new" /\ call[d].dir = n}
CodeIn(n) == Users(n) \cup {NoCode}

(* What a workspace holds, and what the processes of a call took from it.  *)
HoldsOwnCode(n) == disk[n].main \in CodeIn(n) /\ disk[n].binary \in CodeIn(n)

CodeOf(c) ==
    /\ call[c].dir = call[c].began
    /\ program[c].at # "none" => call[c].at # "new"
    /\ \A n \in Name : call[c].dir = n =>
         /\ cargo[c].source \in CodeIn(n)
         /\ program[c].at # "none" => program[c].image \in Users(n)

CodeInv ==
    /\ \A n \in Name : HoldsOwnCode(n)
    /\ \A c \in Call : CodeOf(c)

(* A call that uses a workspace goes on to do so. *)
LEMMA UsersStay ==
    ASSUME RustTypeOK, NEW c \in Call, CallStep(c), NEW n \in Name
    PROVE  Users(n) \subseteq Users(n)' /\ CodeIn(n) \subseteq CodeIn(n)'
<1>1. \A d \in Call : d # c => call'[d] = call[d]
  BY OtherCalls
<1>2. call[c].at # "new" => call'[c].at # "new" /\ call'[c].dir = call[c].dir
  <2>1. CASE Resume(c) /\ ~RunBinary(c)
    <3>1. PICK result \in Results : Return(c, result)
      BY <2>1, Returns
    <3>2. call' = [call EXCEPT ![c].at = "returned", ![c].result = result]
      BY <3>1, ReturnEffect
    <3> QED
      BY <3>2 DEF RustTypeOK
  <2>2. CASE RunBinary(c)
    BY <2>2 DEF RustTypeOK, RunBinary
  <2>3. CASE ~Resume(c)
    BY <2>3 DEF CallStep, CreateWorkspace, FailToCreate, CargoReads, CargoSucceeds,
       CargoFails, ProgramEnds
  <2> QED
    BY <2>1, <2>2, <2>3
<1> QED
  BY <1>1, <1>2 DEF Users, CodeIn

(* What a step puts into a workspace is the code of its call, or was there.*)
LEMMA WorkspaceStep ==
    ASSUME RustTypeOK, NEW c \in Call, CallStep(c), CodeOf(c), NEW n \in Name, HoldsOwnCode(n)
    PROVE  HoldsOwnCode(n)'
<1>1. CodeIn(n) \subseteq CodeIn(n)' /\ NoCode \in CodeIn(n)'
  BY UsersStay DEF CodeIn
<1>2. CASE disk'[n] = disk[n]
  BY <1>1, <1>2 DEF HoldsOwnCode
<1>3. CASE CreateWorkspace(c)
  <2>1. CASE n = second
    <3>1. disk'[n].main = c /\ disk'[n].binary = disk[n].binary
      BY <1>3, <2>1 DEF RustTypeOK, Workspace, CreateWorkspace, WorkspaceName
    <3>2. call'[c].at # "new" /\ call'[c].dir = n
      BY <1>3, <2>1 DEF RustTypeOK, CreateWorkspace, WorkspaceName
    <3> QED
      BY <1>1, <3>1, <3>2 DEF HoldsOwnCode, CodeIn, Users
  <2>2. CASE n # second
    BY <1>2, <1>3, <2>2 DEF RustTypeOK, CreateWorkspace, WorkspaceName
  <2> QED
    BY <2>1, <2>2
<1>4. CASE FailToCreate(c)
  <2>1. PICK main \in {disk[second].main, NoCode} :
          disk' = [disk EXCEPT ![second].there = TRUE, ![second].main = main]
    BY <1>4 DEF FailToCreate, WorkspaceName
  <2>2. CASE n = second
    <3>1. disk'[n].main = main /\ disk'[n].binary = disk[n].binary
      BY <2>1, <2>2 DEF RustTypeOK, Workspace
    <3> QED
      BY <1>1, <2>2, <3>1 DEF HoldsOwnCode
  <2>3. CASE n # second
    BY <1>2, <2>1, <2>3 DEF RustTypeOK
  <2> QED
    BY <2>2, <2>3
<1>5. CASE CargoSucceeds(c)
  <2>1. CASE n = call[c].dir
    <3>1. disk'[n].binary = cargo[c].source /\ disk'[n].main = disk[n].main
      BY <1>5, <2>1 DEF RustTypeOK, Workspace, CargoSucceeds
    <3>2. cargo[c].source \in CodeIn(n)
      BY <2>1 DEF CodeOf
    <3> QED
      BY <1>1, <3>1, <3>2 DEF HoldsOwnCode
  <2>2. CASE n # call[c].dir
    BY <1>2, <1>5, <2>2 DEF RustTypeOK, CargoSucceeds
  <2> QED
    BY <2>1, <2>2
<1>6. CASE CargoFails(c)
  <2>1. /\ disk' = disk \/ disk' = [disk EXCEPT ![call[c].dir].there = TRUE]
        /\ disk \in [Name -> Workspace] /\ disk[n] \in Workspace
    BY <1>6 DEF RustTypeOK, CargoFails
  <2>2. disk'[n] = disk[n] \/ disk'[n] = [disk[n] EXCEPT !.there = TRUE]
    BY <2>1
  <2>3. disk'[n].main = disk[n].main /\ disk'[n].binary = disk[n].binary
    BY <2>1, <2>2 DEF Workspace
  <2> QED
    BY <1>1, <2>3 DEF HoldsOwnCode
<1>7. CASE Resume(c) /\ ~RunBinary(c)
  <2>1. PICK result \in Results : Return(c, result)
    BY <1>7, Returns
  <2>2. call[c].dir \in Name /\ \E left \in Remains(call[c].dir) :
            disk' = [disk EXCEPT ![call[c].dir] = left]
    BY <2>1, ReturnEffect
  <2>3. CASE n = call[c].dir
    <3>1. disk'[n] \in Remains(n)
      BY <2>2, <2>3 DEF RustTypeOK
    <3>2. disk'[n].main \in {disk[n].main, NoCode} /\ disk'[n].binary \in {disk[n].binary, NoCode}
      BY <3>1, RemainsType
    <3> QED
      BY <1>1, <3>2 DEF HoldsOwnCode
  <2>4. CASE n # call[c].dir
    BY <1>2, <2>2, <2>4 DEF RustTypeOK
  <2> QED
    BY <2>3, <2>4
<1>8. CASE RunBinary(c) \/ CargoReads(c) \/ ProgramEnds(c, "ok") \/ ProgramEnds(c, "failed")
  BY <1>2, <1>8 DEF RunBinary, CargoReads, ProgramEnds
<1> QED
  BY <1>3, <1>4, <1>5, <1>6, <1>7, <1>8 DEF CallStep

(* What the processes of the call take from its workspace. *)
LEMMA OwnCodeStep ==
    ASSUME RustTypeOK, NEW c \in Call, StageOf(c), CallStep(c), CodeOf(c),
           \A n \in Name : HoldsOwnCode(n)
    PROVE  CodeOf(c)'
<1>1. \A n \in Name : Users(n) \subseteq Users(n)' /\ CodeIn(n) \subseteq CodeIn(n)'
  BY UsersStay
<1>2. call[c].dir \in Name
  BY DEF RustTypeOK
<1>3. CASE CreateWorkspace(c) \/ FailToCreate(c)
  <2>1. /\ call'[c].dir = second /\ call'[c].began = second
        /\ cargo'[c].source = NoCode /\ program'[c].at = "none"
    BY <1>3 DEF RustTypeOK, StageOf, CreateWorkspace, FailToCreate, WorkspaceName
  <2> QED
    BY <2>1 DEF CodeOf, CodeIn
<1>4. ASSUME call'[c].dir = call[c].dir, call'[c].began = call[c].began,
             call'[c].at # "new",
             cargo'[c].source = cargo[c].source
               \/ cargo'[c].source = disk[call[c].dir].main,
             \/ /\ program'[c].image = program[c].image
                /\ program[c].at # "none"
             \/ program'[c].at = "none"
             \/ /\ program'[c].image = disk[call[c].dir].binary
                /\ disk[call[c].dir].binary # NoCode
      PROVE  CodeOf(c)'
  <2> SUFFICES ASSUME NEW n \in Name, call[c].dir = n
               PROVE  /\ cargo'[c].source \in CodeIn(n)'
                      /\ program'[c].at # "none" => program'[c].image \in Users(n)'
    BY <1>4 DEF CodeOf
  <2>1. disk[n].main \in CodeIn(n) /\ disk[n].binary \in CodeIn(n)
    BY DEF HoldsOwnCode
  <2>2. /\ cargo[c].source \in CodeIn(n)
        /\ program[c].at # "none" => program[c].image \in Users(n)
    BY DEF CodeOf
  <2> QED
    BY <1>1, <1>4, <2>1, <2>2 DEF CodeIn
<1>5. CASE Resume(c) /\ ~RunBinary(c)
  <2>1. PICK result \in Results : Return(c, result) /\ program' = program
                                    /\ call[c].at \in {"compiling", "executing"}
    BY <1>5, Returns
  <2>2. /\ call' = [call EXCEPT ![c].at = "returned", ![c].result = result]
        /\ cargo' = cargo
    BY <2>1, ReturnEffect
  <2> QED
    BY <1>4, <2>1, <2>2 DEF RustTypeOK
<1>6. CASE RunBinary(c)
  BY <1>4, <1>6 DEF RustTypeOK, RunBinary
<1>7. CASE CargoReads(c)
  <2>1. call[c].at # "new" /\ call' = call /\ program' = program
    BY <1>7 DEF CargoReads, StageOf
  <2>2. cargo'[c].source = cargo[c].source \/ cargo'[c].source = disk[call[c].dir].main
    BY <1>7 DEF RustTypeOK, CargoReads
  <2> QED
    BY <1>4, <2>1, <2>2
<1>8. CASE CargoSucceeds(c) \/ CargoFails(c)
  <2>1. call[c].at # "new" /\ call' = call /\ program' = program
    BY <1>8 DEF CargoSucceeds, CargoFails, StageOf
  <2>2. cargo'[c].source = cargo[c].source
    BY <1>8 DEF RustTypeOK, CargoSucceeds, CargoFails
  <2> QED
    BY <1>4, <2>1, <2>2
<1>9. CASE ProgramEnds(c, "ok") \/ ProgramEnds(c, "failed")
  <2>1. call[c].at # "new" /\ call' = call /\ cargo' = cargo /\ program[c].at # "none"
    BY <1>9 DEF ProgramEnds, StageOf
  <2>2. program'[c].image = program[c].image
    BY <1>9 DEF RustTypeOK, ProgramEnds
  <2> QED
    BY <1>4, <2>1, <2>2
<1> QED
  BY <1>3, <1>5, <1>6, <1>7, <1>8, <1>9 DEF CallStep

LEMMA CodeStep == CodeInv /\ StageInv /\ [RustNext]_rustVars => CodeInv'
<1> SUFFICES ASSUME CodeInv, StageInv, [RustNext]_rustVars PROVE CodeInv'
  OBVIOUS
<1>1. CASE UNCHANGED <<disk, call, cargo, program>>
  BY <1>1 DEF CodeInv, HoldsOwnCode, CodeOf, CodeIn, Users
<1>2. ASSUME NEW c \in Call, CallStep(c) PROVE CodeInv'
  <2>1. \A n \in Name : HoldsOwnCode(n)'
    BY <1>2, WorkspaceStep DEF CodeInv, StageInv
  <2>2. CodeOf(c)'
    BY <1>2, OwnCodeStep DEF CodeInv, StageInv
  <2>3. ASSUME NEW d \in Call, d # c PROVE CodeOf(d)'
    <3>1. /\ call'[d] = call[d] /\ cargo'[d] = cargo[d] /\ program'[d] = program[d]
          /\ CodeOf(d)
          /\ \A n \in Name : Users(n) \subseteq Users(n)' /\ CodeIn(n) \subseteq CodeIn(n)'
      BY <1>2, <2>3, OtherCalls, UsersStay DEF CodeInv, StageInv
    <3> QED
      BY <3>1 DEF CodeOf
  <2> QED
    BY <2>1, <2>2, <2>3 DEF CodeInv
<1> QED
  BY <1>1, <1>2 DEF RustNext, CallStep, Tick, rustVars

(* A call that begins in a second of its own runs what was built from its  *)
(* own code: the clock's second is the only thing that keeps workspaces    *)
(* apart, and then it does so whatever is left of earlier calls.           *)
THEOREM LoneCallsRunTheirCode == RustSpec => []ExecutesItsOwnCode
<1>1. RustInit => CodeInv
  BY DEF RustInit, CodeInv, HoldsOwnCode, CodeOf, CodeIn, Missing
<1>2. ASSUME CodeInv, StageInv PROVE ExecutesItsOwnCode
  <2> USE DEF HasRun
  <2> SUFFICES ASSUME NEW c \in Call, program[c].at # "none",
                      \A d \in Call \ {c} : call[d].at = "new" \/ call[d].began # call[c].began
               PROVE  program[c].image = c
    BY DEF ExecutesItsOwnCode, RanItsOwnCode
  <2>1. PICK n \in Name : call[c].dir = n
    BY <1>2 DEF StageInv, RustTypeOK
  <2>2. program[c].image \in Users(n)
    BY <1>2, <2>1 DEF CodeInv, CodeOf
  <2>3. ASSUME NEW d \in Users(n) PROVE d = c
    BY <1>2, <2>1 DEF CodeInv, CodeOf, Users
  <2> QED
    BY <2>2, <2>3
<1> QED
  BY <1>1, <1>2, CodeStep, StageInvariance, PTL DEF RustSpec
=============================================================================
