-------------------------------- MODULE MCVm --------------------------------
(***************************************************************************)
(* Instances of Vm for TLC: families of small programs that call, recurse, *)
(* loop, construct, and initialise classes that depend on each other.      *)
(***************************************************************************)
EXTENDS Vm

CONSTANTS main, helper, initA, initB, banned, native,   \* methods
          fa, fa2, fb,                                  \* two fields of A, one of B
          A, B,                                         \* classes
          zero, one                                     \* values besides Null

MCMethods == {main, helper, initA, initB, banned, native}
MCFields == {fa, fa2, fb}
MCClasses == {A, B}
MCClassOf == [f \in MCFields |-> IF f = fb THEN B ELSE A]
MCClinit == [c \in MCClasses |-> IF c = A THEN initA ELSE initB]
MCDenylist == {banned}

SetReg(v) == [op |-> "const", v |-> v]
MoveRes == [op |-> "move-result"]
Jump(t) == [op |-> "goto", to |-> t]
IfZero(t) == [op |-> "if-eqz", to |-> t, zero |-> zero]
Call(m) == [op |-> "invoke", m |-> m, ctor |-> FALSE]
New(m) == [op |-> "invoke", m |-> m, ctor |-> TRUE]
Mock(v) == [op |-> "builtin", v |-> v]
Get(f) == [op |-> "sget", field |-> f]
Put(f) == [op |-> "sput", field |-> f]
Ret == [op |-> "return"]
RetVoid == [op |-> "return-void"]
Throw == [op |-> "throw"]

\* Calls: nested, recursive, refused, constructing; results read back.
HelperBodies == {
    << SetReg(one), Ret >>,                     \* answers
    << SetReg(one), Call(main), Throw >>,       \* recurses, then throws
    << Mock(one), IfZero(5), Jump(1), RetVoid >> } \* loops on a non-null argument

MainBodies == {
    << Call(helper), MoveRes, Ret >>,
    << SetReg(one), Call(helper), MoveRes, Ret >>,
    << SetReg(zero), New(helper), Ret >>,
    << Call(helper), Call(native), MoveRes, IfZero(1), Ret >>,
    << Call(banned), MoveRes, Jump(9) >> }

CallPrograms ==
    {[m \in {main, helper, banned} |->
        CASE m = main -> p [] m = helper -> h [] OTHER -> << RetVoid >>] :
        p \in MainBodies, h \in HelperBodies}

\* Statics: initialisers that read each other's class, fail, or call.
InitABodies == {
    << SetReg(one), Put(fa), Put(fa2), RetVoid >>,
    << Get(fb), Put(fa), RetVoid >>,            \* A needs B
    << Get(fa2), Put(fa), RetVoid >>,           \* A needs A
    << Call(helper), MoveRes, Put(fa), RetVoid >> }

InitBBodies == {
    << SetReg(zero), Put(fb), RetVoid >>,
    << Get(fa), Put(fb), Throw >>,              \* B needs A
    << Get(fa2), Put(fb), RetVoid >> }

StaticMains == {
    << Get(fa), Ret >>,
    << Put(fa), Get(fa2), Call(helper), RetVoid >> }

StaticPrograms ==
    {[m \in {main, helper, initA, initB, banned} |->
        CASE m = main -> p
          [] m = initA -> a
          [] m = initB -> b
          [] m = helper -> << Get(fb), Ret >>
          [] OTHER -> << RetVoid >>] :
        p \in StaticMains, a \in InitABodies, b \in InitBBodies}

AllPrograms == CallPrograms \cup StaticPrograms

\* A program to debug: the caller writes a static after the call.
DebuggedPrograms ==
    {[m \in {main, helper} |->
        IF m = main THEN << Call(helper), Put(fa), Ret >> ELSE << Ret >>]}

MCSites == MCMethods \X (1..5)
DebuggedSites == {<<main, 1>>, <<main, 2>>, <<main, 3>>, <<helper, 1>>}
=============================================================================
