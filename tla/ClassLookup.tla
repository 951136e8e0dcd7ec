---------------------------- MODULE ClassLookup -----------------------------
(***************************************************************************)
(* How the interpreter finds the method that a call names (vm.rs:          *)
(* add_dex_file, find_and_clone_method): over the DEX files in the order   *)
(* in which the host adds them, an index of their classes, and a cache of  *)
(* every answer, misses included, that nothing ever empties.  Beside it,   *)
(* how the hosts find the method that the user asked to run.               *)
(*                                                                         *)
(* A DEX file is the sequence of its classes; a class has its type, whose  *)
(* leading Ls are a number and which is otherwise a model value, and its   *)
(* methods, virtual and direct, in order: those that parse.  Calls name a  *)
(* method by class and name, without its signature.                        *)
(***************************************************************************)
EXTENDS Naturals, Sequences

CONSTANTS
    Dexes,       \* the DEX files a host may add
    AskedTypes,  \* the types that calls name
    AskedNames,  \* the method names that calls name
    MaxFiles     \* bound on the DEX files of one interpreter

\* A DEX file is a sequence, of whatever classes.
ASSUME LookupConstantsOK ==
    /\ \A dex \in Dexes : dex \in Seq({dex[k] : k \in DOMAIN dex})
    /\ MaxFiles \in Nat

VARIABLES
    files,       \* dex_files
    classIndex,  \* class_index: normalised name to file and class in it
    lookupMap,   \* lookup_map: type to name to method; decides nothing
    methodCache, \* method_cache: normalised name and name to {method} or {}
    cachedAt     \* (history) how many files there were then

lookupVars == <<files, classIndex, lookupMap, methodCache, cachedAt>>

-----------------------------------------------------------------------------
\* trim_start_matches('L') takes every leading L: "LLog;" becomes "og", as "Log;" does.
Norm(type) == type.rest

Norms(dex) == {Norm(dex[k].type) : k \in DOMAIN dex}

\* The place where a loop over places stops: none, or one.
FirstIn(places) == {i \in places : \A j \in places : i <= j}

\* Clazz::new: the virtual methods, then the direct ones.
MethodsOf(class) == class.virtual \o class.direct

\* methods.find(|m| m.method_name == name): whatever the signature.
FirstNamed(class, name) ==
    LET ms == MethodsOf(class)
    IN  {ms[i] : i \in FirstIn({i \in DOMAIN ms : ms[i].name = name})}

\* The classes of the name that have the method.
Having(dex, norm, name) ==
    {k \in DOMAIN dex : Norm(dex[k].type) = norm /\ FirstNamed(dex[k], name) # {}}

FirstOfNorm(dex, norm) ==
    CHOOSE k \in DOMAIN dex :
        /\ Norm(dex[k].type) = norm
        /\ \A j \in 1..(k - 1) : Norm(dex[j].type) # norm

\* Mutant of Indexed: insert in place of or_insert.
IndexedAnew(index, dex, n) ==
    [c \in DOMAIN index \cup Norms(dex) |->
        IF c \in Norms(dex) THEN <<n, FirstOfNorm(dex, c)>> ELSE index[c]]

\* class_index.entry(norm).or_insert((n, k)): the first class stays.
Indexed(index, dex, n) ==
    [c \in DOMAIN index \cup Norms(dex) |->
        IF c \in DOMAIN index THEN index[c] ELSE <<n, FirstOfNorm(dex, c)>>]

\* method_map: a later method takes the name over, a direct one from a virtual one.
LastNamed(class) ==
    LET ms == MethodsOf(class)
    IN  [name \in {ms[i].name : i \in DOMAIN ms} |->
            LET last == CHOOSE i \in DOMAIN ms :
                    ms[i].name = name /\ \A j \in DOMAIN ms : j > i => ms[j].name # name
            IN  ms[last]]

Mapped(map, dex) ==
    LET types == {dex[k].type : k \in DOMAIN dex}
        first(t) == CHOOSE k \in DOMAIN dex :
                        dex[k].type = t /\ \A j \in 1..(k - 1) : dex[j].type # t
    IN  [t \in DOMAIN map \cup types |->
            IF t \in DOMAIN map THEN map[t] ELSE LastNamed(dex[first(t)])]

AddDexFile(dex) ==
    /\ Len(files) < MaxFiles
    /\ files' = Append(files, dex)
    /\ classIndex' = Indexed(classIndex, dex, Len(files) + 1)
    /\ lookupMap' = Mapped(lookupMap, dex)
    /\ UNCHANGED <<methodCache, cachedAt>>

\* The scan of every class of every file, behind the index: it also finds the
\* class again, in another file, if the indexed one has no such method.
Scanned(norm, name) ==
    UNION {UNION {FirstNamed(files[i][k], name) : k \in FirstIn(Having(files[i], norm, name))} :
              i \in FirstIn({i \in DOMAIN files : Having(files[i], norm, name) # {}})}

Resolved(norm, name) ==
    LET indexed == IF norm \in DOMAIN classIndex
                   THEN LET at == classIndex[norm] IN FirstNamed(files[at[1]][at[2]], name)
                   ELSE {}
    IN  IF indexed # {} THEN indexed ELSE Scanned(norm, name)

\* A cached answer, a miss too, is given again and changes nothing.
FindAndCloneMethod(type, name) ==
    LET key == <<Norm(type), name>> IN
    /\ key \notin DOMAIN methodCache
    /\ methodCache' = [k \in DOMAIN methodCache \cup {key} |->
                          IF k = key THEN Resolved(Norm(type), name) ELSE methodCache[k]]
    /\ cachedAt' = [k \in DOMAIN cachedAt \cup {key} |->
                       IF k = key THEN Len(files) ELSE cachedAt[k]]
    /\ UNCHANGED <<files, classIndex, lookupMap>>

\* run_method: in the first file whose first class of the name has the method.
RunMethodInDex(dex, norm, name) ==
    IF norm \in Norms(dex) THEN FirstNamed(dex[FirstOfNorm(dex, norm)], name) ELSE {}

RunMethodFinds(fs, norm, name) ==
    UNION {RunMethodInDex(fs[i], norm, name) :
              i \in FirstIn({i \in DOMAIN fs : RunMethodInDex(fs[i], norm, name) # {}})}

\* find_method_in_dex goes on to a second class of the name in the same file.
FindMethodInDex(dex, norm, name) ==
    UNION {FirstNamed(dex[k], name) : k \in FirstIn(Having(dex, norm, name))}

BatchFinds(fs, norm, name) ==
    UNION {FindMethodInDex(fs[i], norm, name) :
              i \in FirstIn({i \in DOMAIN fs : FindMethodInDex(fs[i], norm, name) # {}})}

LookupInit ==
    /\ files = << >>
    /\ classIndex = << >>
    /\ lookupMap = << >>
    /\ methodCache = << >>
    /\ cachedAt = << >>

LookupNext ==
    \/ \E dex \in Dexes : AddDexFile(dex)
    \/ \E t \in AskedTypes, name \in AskedNames : FindAndCloneMethod(t, name)

LookupSpec == LookupInit /\ [][LookupNext]_lookupVars

-----------------------------------------------------------------------------
\* Type invariant.
LookupTypeOK ==
    /\ \A i \in DOMAIN files : files[i] \in Dexes
    /\ \A c \in DOMAIN classIndex :
          /\ classIndex[c][1] \in DOMAIN files
          /\ classIndex[c][2] \in DOMAIN files[classIndex[c][1]]
    /\ DOMAIN cachedAt = DOMAIN methodCache
    /\ \A key \in DOMAIN cachedAt : cachedAt[key] \in 0..Len(files)

\* One of the files has two classes that look the same without their Ls.
Twins ==
    \E i \in DOMAIN files : \E j, k \in DOMAIN files[i] :
        j # k /\ Norm(files[i][j].type) = Norm(files[i][k].type)

\* A call from inside the program reaches the method that a host runs for the
\* same name, although one goes through an index and a cache and the others
\* search the files anew: a hit is right for ever, whatever is added behind it,
\* a miss is right for the files that were there, and the two hosts agree as
\* long as no file has twins.
CallsReachHostsMethod ==
    \A key \in DOMAIN methodCache :
        LET then == SubSeq(files, 1, cachedAt[key])
            c == key[1]
            name == key[2]
        IN  /\ methodCache[key] = BatchFinds(then, c, name)
            /\ methodCache[key] # {} => methodCache[key] = BatchFinds(files, c, name)
            /\ ~Twins => BatchFinds(files, c, name) = RunMethodFinds(files, c, name)
=============================================================================
