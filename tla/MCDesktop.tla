----------------------------- MODULE MCDesktop ------------------------------
(***************************************************************************)
(* The desktop application's project and its debugger side by side, for    *)
(* one run of TLC: commands that load, extract, wipe and remove the same   *)
(* contents, or a program that a user steps through.  They share nothing,  *)
(* so a behaviour belongs to one of them and the other stays as it began.  *)
(***************************************************************************)
EXTENDS MCProject, MCVm

VARIABLE window
desktopVars == <<window, vars, machineVars>>

DesktopInit ==
    /\ window \in {"project", "debugger"}
    /\ Init
    /\ window # "project" => \A p \in Paths : disk[p] = Missing
    /\ VmInit

DesktopNext ==
    /\ UNCHANGED window
    /\ \/ window = "project" /\ Next /\ UNCHANGED machineVars
       \/ window = "debugger" /\ VmNext /\ UNCHANGED vars

DesktopSpec == DesktopInit /\ [][DesktopNext]_desktopVars
=============================================================================
