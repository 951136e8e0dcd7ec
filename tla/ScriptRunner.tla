---------------------------- MODULE ScriptRunner ----------------------------
(***************************************************************************)
(* Running and stopping the user's Python scripts: runScript, killScript   *)
(* and the Ctrl+Enter shortcut of the frontend, run_script and kill_script *)
(* of the desktop commands, and the processes and their ids as the         *)
(* operating system hands them out.                                        *)
(*                                                                         *)
(* A run is what happens between the user starting a script and the answer *)
(* to the frontend.  Script text, output and history are left out.         *)
(***************************************************************************)
EXTENDS Naturals, FiniteSets

CONSTANTS
    Runs,        \* runScript calls that can be under way at the same time
    Kills,       \* killScript calls that can be under way at the same time
    Pids,        \* process ids
    NoPid        \* Option::None in running_script_pid

ASSUME ScriptConstantsOK == NoPid \notin Pids

VARIABLES
    run,                 \* phase of each run, and its process
    kill,                \* phase of each kill, and the process it goes for
    process,             \* what each process id stands for
    running_script_pid,  \* AppState::running_script_pid
    isScriptRunning      \* the frontend's flag: Stop is shown instead of Run

scriptVars == <<run, kill, process, running_script_pid, isScriptRunning>>

NoRun == [phase |-> "none", pid |-> NoPid]
NoKill == [phase |-> "none", pid |-> NoPid]

ScriptInit ==
    /\ run = [r \in Runs |-> NoRun]
    /\ kill = [k \in Kills |-> NoKill]
    /\ process = [p \in Pids |-> "free"]
    /\ running_script_pid = NoPid
    /\ isScriptRunning = FALSE

-----------------------------------------------------------------------------
\* The Run button is there while nothing runs; Ctrl+Enter always is.  runScript
\* sets its flag without looking at it, and saves the script.
StartRun(r) ==
    /\ run[r] = NoRun
    /\ run' = [run EXCEPT ![r].phase = "started"]
    /\ isScriptRunning' = TRUE
    /\ UNCHANGED <<kill, process, running_script_pid>>

\* run_script answers with an error when there is no temporary file or no
\* interpreter.
SpawnFails(r) ==
    /\ run[r].phase = "started"
    /\ run' = [run EXCEPT ![r].phase = "answered"]
    /\ UNCHANGED <<kill, process, running_script_pid, isScriptRunning>>

Spawn(r) ==
    /\ run[r].phase = "started"
    /\ \E p \in Pids :
          /\ process[p] = "free"
          /\ process' = [process EXCEPT ![p] = "script"]
          /\ run' = [run EXCEPT ![r] = [phase |-> "spawned", pid |-> p]]
    /\ UNCHANGED <<kill, running_script_pid, isScriptRunning>>

RecordPid(r) ==
    /\ run[r].phase = "spawned"
    /\ running_script_pid' = run[r].pid
    /\ run' = [run EXCEPT ![r].phase = "waiting"]
    /\ UNCHANGED <<kill, process, isScriptRunning>>

\* The script ends by itself, or because of a signal.
ScriptEnds(p) ==
    /\ process[p] \in {"script", "signalled"}
    /\ process' = [process EXCEPT ![p] = "zombie"]
    /\ UNCHANGED <<run, kill, running_script_pid, isScriptRunning>>

\* wait_with_output returns: the process is reaped, its id can be used again.
Reap(r) ==
    /\ run[r].phase = "waiting"
    /\ process[run[r].pid] = "zombie"
    /\ process' = [process EXCEPT ![run[r].pid] = "free"]
    /\ run' = [run EXCEPT ![r].phase = "ended"]
    /\ UNCHANGED <<kill, running_script_pid, isScriptRunning>>

\* ... or fails (an error on a pipe): run_script goes on without the process,
\* which the runtime reaps some time after it has ended.
WaitFails(r) ==
    /\ run[r].phase = "waiting"
    /\ run' = [run EXCEPT ![r].phase = "failed"]
    /\ UNCHANGED <<kill, process, running_script_pid, isScriptRunning>>

ReapOrphan(p) ==
    /\ process[p] = "zombie"
    /\ \A r \in Runs : run[r].pid = p => run[r].phase # "waiting" /\ run[r].phase # "spawned"
    /\ process' = [process EXCEPT ![p] = "free"]
    /\ UNCHANGED <<run, kill, running_script_pid, isScriptRunning>>

\* Mutant of Cleared: the error of the wait is returned first.
ClearedIfWaited(r) == IF run[r].phase = "ended" THEN NoPid ELSE running_script_pid

\* What the slot holds after a run is over, whoever recorded the id in it.
Cleared(r) == NoPid

ClearPid(r) ==
    /\ run[r].phase \in {"ended", "failed"}
    /\ running_script_pid' = Cleared(r)
    /\ run' = [run EXCEPT ![r].phase = "answered"]
    /\ UNCHANGED <<kill, process, isScriptRunning>>

\* The frontend gets the result or the error.
RunAnswered(r) ==
    /\ run[r].phase = "answered"
    /\ run' = [run EXCEPT ![r] = NoRun]
    /\ isScriptRunning' = FALSE
    /\ UNCHANGED <<kill, process, running_script_pid>>

-----------------------------------------------------------------------------
\* killScript does nothing unless the flag is set, kill_script nothing unless
\* there is an id; it takes the id under the lock, ...
TakePid(k) ==
    /\ kill[k] = NoKill
    /\ isScriptRunning
    /\ running_script_pid # NoPid
    /\ kill' = [kill EXCEPT ![k] = [phase |-> "taken", pid |-> running_script_pid]]
    /\ running_script_pid' = NoPid
    /\ UNCHANGED <<run, process, isScriptRunning>>

\* Mutant of Signalled: a process that is there is left alone.
SignalledNone(p) == process

\* (kill(2): a free id is an error and a zombie takes no notice.)
Signalled(p) ==
    IF process[p] = "script" THEN [process EXCEPT ![p] = "signalled"] ELSE process

\* ... and sends SIGTERM after the lock is given back.
Signal(k) ==
    /\ kill[k].phase = "taken"
    /\ process' = Signalled(kill[k].pid)
    /\ kill' = [kill EXCEPT ![k] = NoKill]
    /\ UNCHANGED <<run, running_script_pid, isScriptRunning>>

-----------------------------------------------------------------------------
RunGoesOn(r) ==
    SpawnFails(r) \/ Spawn(r) \/ RecordPid(r) \/ Reap(r) \/ ClearPid(r) \/ RunAnswered(r)

ScriptNext ==
    \/ \E r \in Runs : StartRun(r) \/ WaitFails(r) \/ RunGoesOn(r)
    \/ \E k \in Kills : TakePid(k) \/ Signal(k)
    \/ \E p \in Pids : ScriptEnds(p) \/ ReapOrphan(p)

ScriptSpec == ScriptInit /\ [][ScriptNext]_scriptVars

\* Commands go on; a script that got the signal ends ("Python responds promptly
\* to it"), another one may run for ever.
ScriptFairness ==
    /\ \A r \in Runs : WF_scriptVars(RunGoesOn(r))
    /\ \A k \in Kills : WF_scriptVars(Signal(k))
    /\ \A p \in Pids : WF_scriptVars(process[p] = "signalled" /\ ScriptEnds(p))

-----------------------------------------------------------------------------

\* Type invariant.
ScriptTypeOK ==
    /\ run \in [Runs -> [phase : {"none", "started", "spawned", "waiting", "ended",
                                  "failed", "answered"},
                         pid : Pids \cup {NoPid}]]
    /\ kill \in [Kills -> [phase : {"none", "taken"}, pid : Pids \cup {NoPid}]]
    /\ process \in [Pids -> {"free", "script", "signalled", "zombie"}]
    /\ running_script_pid \in Pids \cup {NoPid}
    /\ isScriptRunning \in BOOLEAN

\* A kill request after completion is a no-op: when no run is under way there
\* is no id left to signal, however runs, kills and failed waits interleaved.
LateKillIsNoOp ==
    (\A r \in Runs : run[r].phase \in {"none", "started", "answered"})
        => running_script_pid = NoPid

\* Liveness.  A stop that found its script ends the run, whatever else starts,
\* ends or is stopped meanwhile.
StopEndsRun ==
    \A k \in Kills, r \in Runs :
        kill[k].phase = "taken" /\ run[r].phase = "waiting" /\ kill[k].pid = run[r].pid
            ~> run[r] = NoRun

=============================================================================
