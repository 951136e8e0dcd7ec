------------------------------ MODULE MCLookup ------------------------------
(***************************************************************************)
(* Instances of ClassLookup for TLC: files that define the same class with *)
(* other methods, a class without methods, overloads, and two types that   *)
(* are the same without their leading Ls.                                  *)
(***************************************************************************)
EXTENDS ClassLookup

DexType(ls, rest) == [ls |-> ls, rest |-> rest]
DexClass(type, virtual, direct) == [type |-> type, virtual |-> virtual, direct |-> direct]
DexMethod(name, body) == [name |-> name, body |-> body]

MCAskedTypes == {DexType(1, "og"), DexType(2, "og"), DexType(1, "ab")}
MCAskedNames == {"run", "<init>"}

MCDexes == {
    << DexClass(DexType(1, "ab"), <<DexMethod("run", 1)>>, <<DexMethod("<init>", 2), DexMethod("<init>", 3)>>) >>,
    << DexClass(DexType(1, "ab"), << >>, <<DexMethod("run", 4)>>), DexClass(DexType(1, "og"), << >>, << >>) >>,
    << DexClass(DexType(2, "og"), <<DexMethod("run", 5), DexMethod("run", 6)>>, << >>) >>,
    << DexClass(DexType(1, "og"), <<DexMethod("<init>", 7)>>, <<DexMethod("run", 8)>>),
       DexClass(DexType(2, "og"), << >>, <<DexMethod("<init>", 9)>>) >>,
    << >> }
=============================================================================
