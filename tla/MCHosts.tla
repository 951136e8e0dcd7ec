------------------------------ MODULE MCHosts -------------------------------
(***************************************************************************)
(* The hosts' services and the interpreter side by side, for one run of    *)
(* TLC: the project over crashes and restarts, the web server's requests,  *)
(* the scripts, the durable UI state, and the programs a host calls.  They *)
(* share nothing, so a behaviour belongs to one of them, its scene, and    *)
(* the others stay as they began.                                          *)
(***************************************************************************)
EXTENDS MCProject, MCVm, WebServer, ScriptRunner, UiState

VARIABLE scene
hostVars == <<scene, vars, machineVars, webVars, scriptVars, uiVars>>

\* A whole archive, a directory of splits without code, and a raw DEX.
MCWebFiles ==
    {[name |-> "bundle", content |-> "zip",
      dex |-> TRUE, resources |-> TRUE, manifest |-> TRUE],
     [name |-> "dir", content |-> "zip",
      dex |-> FALSE, resources |-> FALSE, manifest |-> TRUE],
     [name |-> "other", content |-> "dex",
      dex |-> TRUE, resources |-> FALSE, manifest |-> FALSE]}
MCMaxLoads == [slot \in {"A", "B"} |-> IF slot = "A" THEN 2 ELSE 1]

Scenes == {"project", "vm", "web", "scripts", "ui"}

\* In the other scenes the project finds nothing on disk, and the interpreter
\* has one program loaded.
HostsInit ==
    /\ scene \in Scenes
    /\ Init
    /\ scene # "project" => \A p \in Paths : disk[p] = Missing
    /\ VmInit
    /\ scene # "vm" => code = CHOOSE program \in Programs : TRUE
    /\ WebInit
    /\ ScriptInit
    /\ UiInit

HostsNext ==
    /\ UNCHANGED scene
    /\ \/ /\ scene = "project" /\ Next
          /\ UNCHANGED <<machineVars, webVars, scriptVars, uiVars>>
       \/ /\ scene = "vm" /\ VmNext
          /\ UNCHANGED <<vars, webVars, scriptVars, uiVars>>
       \/ /\ scene = "web" /\ WebNext
          /\ UNCHANGED <<vars, machineVars, scriptVars, uiVars>>
       \/ /\ scene = "scripts" /\ ScriptNext
          /\ UNCHANGED <<vars, machineVars, webVars, uiVars>>
       \/ /\ scene = "ui" /\ UiNext
          /\ UNCHANGED <<vars, machineVars, webVars, scriptVars>>

HostsSpec ==
    /\ HostsInit
    /\ [][HostsNext]_hostVars
    /\ VmFairness
    /\ WebFairness
    /\ ScriptFairness
=============================================================================
