------------------------------ MODULE MCCrates ------------------------------
(***************************************************************************)
(* The crates side by side, for one run of TLC: what the interpreter does  *)
(* with a method's instructions, its debugger, the Java that is printed of *)
(* the method, the taint that flows through it, the call graph of the      *)
(* taint window, the deobfuscators that are run over their call sites, the *)
(* methods that calls name, and the APK that is repacked and signed.  They *)
(* share nothing, so a behaviour belongs to one of them, its scene, and    *)
(* the others stay as they began.                                          *)
(***************************************************************************)
EXTENDS MCOpcodes, MCDebugger, MCStructure, MCTaint, MCGraph, MCApk, MCDeobf, MCLookup

VARIABLE scene
cratesVars ==
    <<scene, opVars, dbgVars, structVars, taintVars, graphVars, apkVars, deobfVars, lookupVars>>

\* Runs and requests are told apart by nothing but their names.
CratesSymmetry == Permutations(Bulks) \cup Permutations(Requests)

\* A scene that idles has one state.
CratesInit ==
    /\ scene \in {"run", "debug", "java", "taint", "graph", "apk", "deobf", "lookup"}
    /\ IF scene = "java" THEN StructInit
       ELSE /\ term = <<>> /\ covered = {} /\ handlers = <<>> /\ pc = "idle" /\ frames = <<>>
            /\ visited = {} /\ rpo = <<>> /\ idom = <<>> /\ todo = <<>> /\ changed = FALSE
            /\ frontier = <<>> /\ loopHeader = {} /\ code = <<>> /\ starts = <<>> /\ ast = Nothing
    /\ IF scene = "taint" THEN TRUE
       ELSE /\ analysed = MethodOf(OneReg("return", "p2"), OneReg("return", "p2"), OneReg("return", "p2"))
            /\ overrides = NoOverrides
    /\ TaintInit
    /\ GraphInit
    /\ DbgInit
    /\ ApkInit
    /\ DeobfInit
    /\ LookupInit
    /\ IF scene = "run" THEN OpInit
       ELSE /\ faithful = FALSE /\ program = <<>> /\ regs = <<>> /\ arrays = <<>>
            /\ statics = <<>> /\ instances = <<>> /\ lastReturn = None
            /\ exception = None /\ outcome = Continue /\ before = regs /\ done = <<>>

CratesNext ==
    /\ UNCHANGED scene
    /\ \/ scene = "run" /\ OpNext
          /\ UNCHANGED <<dbgVars, structVars, taintVars, graphVars, apkVars, deobfVars, lookupVars>>
       \/ scene = "debug" /\ DbgNext
          /\ UNCHANGED <<opVars, structVars, taintVars, graphVars, apkVars, deobfVars, lookupVars>>
       \/ scene = "java" /\ StructNext
          /\ UNCHANGED <<opVars, dbgVars, taintVars, graphVars, apkVars, deobfVars, lookupVars>>
       \/ scene = "taint" /\ TaintNext
          /\ UNCHANGED <<opVars, dbgVars, structVars, graphVars, apkVars, deobfVars, lookupVars>>
       \/ scene = "graph" /\ GraphNext
          /\ UNCHANGED <<opVars, dbgVars, structVars, taintVars, apkVars, deobfVars, lookupVars>>
       \/ scene = "apk" /\ ApkNext
          /\ UNCHANGED <<opVars, dbgVars, structVars, taintVars, graphVars, deobfVars, lookupVars>>
       \/ scene = "deobf" /\ DeobfNext
          /\ UNCHANGED <<opVars, dbgVars, structVars, taintVars, graphVars, apkVars, lookupVars>>
       \/ scene = "lookup" /\ LookupNext
          /\ UNCHANGED <<opVars, dbgVars, structVars, taintVars, graphVars, apkVars, deobfVars>>

CratesSpec == CratesInit /\ [][CratesNext]_cratesVars
=============================================================================
