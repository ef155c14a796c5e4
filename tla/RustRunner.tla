----------------------------- MODULE RustRunner -----------------------------
(***************************************************************************)
(* execute_rust_code (src/Rust runtime) called by coroutines of one event  *)
(* loop: it makes a workspace below the temporary directory, lets cargo    *)
(* build there, runs the binary and removes the workspace. A coroutine is  *)
(* suspended only while it waits for a subprocess, so what it does between *)
(* two waits is one step here; cargo and the programs are processes of     *)
(* their own, as slow as they like.                                        *)
(*                                                                         *)
(* Each call makes its own RustRunner, whose workspace_counter is 0: the   *)
(* name of a workspace is the second in which its call began.              *)
(***************************************************************************)
EXTENDS Naturals

CONSTANTS
    Call,           \* the calls; a call's code is named by the call
    Broken,         \* the calls whose code does not compile
    MaxSecond       \* bound on the clock

ASSUME CallsAssumption == Broken \subseteq Call
ASSUME ClockAssumption == MaxSecond \in Nat

VARIABLES
    second,         \* int(time.time())
    disk,           \* the workspace of each name
    call,           \* the coroutines
    cargo,          \* the cargo process of each call
    program         \* the program of each call

rustVars == <<second, disk, call, cargo, program>>

NoCode == "no code"
Name == 0 .. MaxSecond
Code == Call \cup {NoCode}

Missing == [there |-> FALSE, main |-> NoCode, binary |-> NoCode]
Workspace == [there : BOOLEAN, main : Code, binary : Code]

Result == {"none", "raised", "compile_failed", "compile_timeout", "no_binary",
           "not_started", "exit_ok", "exit_bad", "execution_timeout"}
Outcome == {"none", "waiting", "running", "ok", "failed"}

Building(c) == cargo[c].at \in {"waiting", "running"}
BuildingIn(n) == \E c \in Call : Building(c) /\ call[c].dir = n
HasRun(c) == program[c].at # "none"
Alive(c) == Building(c) \/ program[c].at = "running"

-----------------------------------------------------------------------------
RustInit ==
    /\ second = 0
    /\ disk = [n \in Name |-> Missing]
    /\ call = [c \in Call |-> [at |-> "new", began |-> 0, dir |-> 0, result |-> "none"]]
    /\ cargo = [c \in Call |-> [at |-> "none", source |-> NoCode]]
    /\ program = [c \in Call |-> [at |-> "none", image |-> NoCode]]

Tick ==
    /\ second < MaxSecond
    /\ second' = second + 1
    /\ UNCHANGED <<disk, call, cargo, program>>

(* Mutant of WorkspaceName: the next second. *)
WorkspaceNameNext == second + 1

(* Mutant of WorkspaceName: without the second. *)
WorkspaceNameFixed == 0

WorkspaceName == second

(* _create_workspace and the start of cargo: a directory that is there     *)
(* already is taken over, and its main.rs overwritten.                     *)
CreateWorkspace(c) ==
    /\ call[c].at = "new"
    /\ disk' = [disk EXCEPT ![WorkspaceName].there = TRUE, ![WorkspaceName].main = c]
    /\ call' = [call EXCEPT ![c] = [at |-> "compiling", began |-> second,
                                    dir |-> WorkspaceName, result |-> "none"]]
    /\ cargo' = [cargo EXCEPT ![c].at = "waiting"]
    /\ UNCHANGED <<second, program>>

(* A write fails after mkdir: execute reports no workspace_path, so nobody *)
(* removes the directory.                                                  *)
FailToCreate(c) ==
    /\ call[c].at = "new"
    /\ \E main \in {disk[WorkspaceName].main, NoCode} :
          disk' = [disk EXCEPT ![WorkspaceName].there = TRUE,
                               ![WorkspaceName].main = main]
    /\ call' = [call EXCEPT ![c] = [at |-> "returned", began |-> second,
                                    dir |-> WorkspaceName, result |-> "raised"]]
    /\ UNCHANGED <<second, cargo, program>>

-----------------------------------------------------------------------------
(* cargo, as far as the workspaces show it: builds in one workspace take   *)
(* turns, and each compiles the main.rs it finds when its turn comes.      *)

CargoReads(c) ==
    LET n == call[c].dir IN
    /\ cargo[c].at = "waiting"
    /\ \A d \in Call : call[d].dir = n => cargo[d].at # "running"
    /\ cargo' = [cargo EXCEPT ![c] =
                    IF disk[n].there THEN [at |-> "running", source |-> disk[n].main]
                    ELSE [@ EXCEPT !.at = "failed"]]
    /\ UNCHANGED <<second, disk, call, program>>

CargoSucceeds(c) ==
    LET n == call[c].dir IN
    /\ cargo[c].at = "running"
    /\ disk[n].there
    /\ cargo[c].source \notin Broken \cup {NoCode}
    /\ cargo' = [cargo EXCEPT ![c].at = "ok"]
    /\ disk' = [disk EXCEPT ![n].binary = cargo[c].source]
    /\ UNCHANGED <<second, call, program>>

(* The code does not compile, a dependency cannot be fetched, or the       *)
(* workspace was removed, in which case target/ may be made anew.          *)
CargoFails(c) ==
    LET n == call[c].dir IN
    /\ cargo[c].at = "running"
    /\ cargo' = [cargo EXCEPT ![c].at = "failed"]
    /\ disk' \in {disk, [disk EXCEPT ![n].there = TRUE]}
    /\ UNCHANGED <<second, call, program>>

(* The program exits, or timeout(1) ends it. *)
ProgramEnds(c, outcome) ==
    /\ program[c].at = "running"
    /\ program' = [program EXCEPT ![c].at = outcome]
    /\ UNCHANGED <<second, disk, call, cargo>>

-----------------------------------------------------------------------------
(* The workspace is no longer in the hands of the event loop alone: a      *)
(* build writes in it, or a program has been let loose in it.              *)
OutOfHand(n) == BuildingIn(n) \/ \E c \in Call : call[c].dir = n /\ HasRun(c)

(* What cleanup_workspace leaves. It swallows every failure of rmtree: a   *)
(* directory that fills up again while it is emptied, by a cargo or a      *)
(* program that lives on, or one that a program has made undeletable.      *)
Remains(n) ==
    IF OutOfHand(n)
    THEN {Missing} \cup [there : {TRUE}, main : {disk[n].main, NoCode},
                         binary : {disk[n].binary, NoCode}]
    ELSE {Missing}

(* Mutant of Return: the workspace is removed after a success only. *)
ReturnKeepsFailures(c, result) ==
    /\ call' = [call EXCEPT ![c].at = "returned", ![c].result = result]
    /\ disk' = IF result = "exit_ok" THEN [disk EXCEPT ![call[c].dir] = Missing] ELSE disk
    /\ UNCHANGED <<second, cargo>>

(* execute returns and execute_rust_code removes the workspace. *)
Return(c, result) ==
    /\ call' = [call EXCEPT ![c].at = "returned", ![c].result = result]
    /\ \E left \in Remains(call[c].dir) : disk' = [disk EXCEPT ![call[c].dir] = left]
    /\ UNCHANGED <<second, cargo>>

(* _execute_binary up to its wait: the binary is started. *)
RunBinary(c) ==
    LET n == call[c].dir IN
    /\ call[c].at = "compiling"
    /\ cargo[c].at = "ok"
    /\ disk[n].binary # NoCode
    /\ call' = [call EXCEPT ![c].at = "executing"]
    /\ program' = [program EXCEPT ![c] = [at |-> "running", image |-> disk[n].binary]]
    /\ UNCHANGED <<second, disk, cargo>>

(* "Compiled binary not found". *)
MissBinary(c) ==
    /\ call[c].at = "compiling"
    /\ cargo[c].at = "ok"
    /\ disk[call[c].dir].binary = NoCode
    /\ Return(c, "no_binary")
    /\ UNCHANGED program

(* create_subprocess_exec raises: the catch-all of _execute_binary reports  *)
(* exit code -1. Once the binary runs, only the timeout can raise.         *)
FailToExecute(c) ==
    /\ call[c].at = "compiling"
    /\ cargo[c].at = "ok"
    /\ disk[call[c].dir].binary # NoCode
    /\ Return(c, "not_started")
    /\ UNCHANGED program

CompileFailed(c) ==
    /\ call[c].at = "compiling"
    /\ cargo[c].at = "failed"
    /\ Return(c, "compile_failed")
    /\ UNCHANGED program

(* Mutant of CompileTimeout: communicate() is awaited without wait_for. *)
CompileTimeoutNever(c) ==
    /\ call[c].at = "compiling"
    /\ cargo[c].at \in {"ok", "failed"}
    /\ Return(c, "compile_timeout")
    /\ UNCHANGED program

(* wait_for gives up; nothing ends the cargo process. *)
CompileTimeout(c) ==
    /\ call[c].at = "compiling"
    /\ Return(c, "compile_timeout")
    /\ UNCHANGED program

(* Mutant of ExecuteDone: the exit code is taken before the process ends.  *)
ExecuteDoneEarly(c) ==
    /\ call[c].at = "executing"
    /\ Return(c, IF program[c].at = "failed" THEN "exit_bad" ELSE "exit_ok")
    /\ UNCHANGED program

ExecuteDone(c) ==
    /\ call[c].at = "executing"
    /\ program[c].at \in {"ok", "failed"}
    /\ Return(c, IF program[c].at = "ok" THEN "exit_ok" ELSE "exit_bad")
    /\ UNCHANGED program

(* The program outlives timeout(1) and the grace period. *)
ExecuteTimeout(c) ==
    /\ call[c].at = "executing"
    /\ Return(c, "execution_timeout")
    /\ UNCHANGED program

Resume(c) ==
    \/ RunBinary(c)
    \/ MissBinary(c)
    \/ FailToExecute(c)
    \/ CompileFailed(c)
    \/ CompileTimeout(c)
    \/ ExecuteDone(c)
    \/ ExecuteTimeout(c)

RustNext ==
    \/ Tick
    \/ \E c \in Call :
          \/ CreateWorkspace(c) \/ FailToCreate(c) \/ Resume(c)
          \/ CargoReads(c) \/ CargoSucceeds(c) \/ CargoFails(c)
          \/ ProgramEnds(c, "ok") \/ ProgramEnds(c, "failed")

RustSpec == RustInit /\ [][RustNext]_rustVars

(* The event loop resumes each coroutine when its subprocess has ended or  *)
(* its timer has run out; of the processes nothing is assumed.             *)
FairRustSpec == RustSpec /\ \A c \in Call : WF_rustVars(Resume(c))

-----------------------------------------------------------------------------
(* Type invariant: the coroutines, their processes and their workspaces.   *)
RustTypeOK ==
    /\ second \in Name
    /\ disk \in [Name -> Workspace]
    /\ call \in [Call -> [at : {"new", "compiling", "executing", "returned"},
                          began : Name, dir : Name, result : Result]]
    /\ cargo \in [Call -> [at : Outcome, source : Code]]
    /\ program \in [Call -> [at : Outcome, image : Code]]

RanItsOwnCode(c) == HasRun(c) => program[c].image = c

(* A call that begins in a second of its own runs what was built from its  *)
(* own code, whatever timeouts, leaks and late cargo processes of other    *)
(* calls do.                                                               *)
ExecutesItsOwnCode ==
    \A c \in Call :
        (\A d \in Call \ {c} : call[d].at = "new" \/ call[d].began # call[c].began)
          => RanItsOwnCode(c)

(* A cargo or a program that lives on after its call returned belongs to a *)
(* call that reported a timeout; any other answer is given over dead ones. *)
OrphansAreTimeouts ==
    \A c \in Call :
        call[c].at = "returned" /\ Alive(c) =>
            call[c].result \in {"compile_timeout", "execution_timeout"}

(* What is left of a workspace that nobody uses any more was out of the    *)
(* event loop's hands: a call failed to fill it, gave up a build that was  *)
(* still writing, or let a program run in it. A call that ends before its  *)
(* program starts, over a cargo that has ended, leaves nothing behind.     *)
LeaksAreExplained ==
    \A n \in Name :
        disk[n].there =>
            \E c \in Call :
                /\ call[c].at # "new" /\ call[c].dir = n
                /\ \/ call[c].at # "returned"
                   \/ call[c].result \in {"raised", "compile_timeout"}
                   \/ HasRun(c)

(* Every call returns, however long cargo or the program takes.            *)
EveryCallReturns ==
    \A c \in Call : call[c].at \in {"compiling", "executing"} ~> call[c].at = "returned"

-----------------------------------------------------------------------------
(* What the comments say and the code does not do: "Create isolated Cargo  *)
(* workspace for compilation", "Create unique workspace directory" (Rust   *)
(* runtime:157, 159).                                                      *)
WorkspacesAreIsolated == \A c \in Call : RanItsOwnCode(c)
=============================================================================
