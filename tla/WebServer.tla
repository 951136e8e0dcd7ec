----------------------------- MODULE WebServer ------------------------------
(***************************************************************************)
(* The web server's shared state and its request handlers (main.rs of the  *)
(* web server).  What the handlers share is six values, each under a       *)
(* reader-writer lock of its own: the file in slot A in four parts and the *)
(* file it is compared with, slot B, in two.  A load parses its file       *)
(* without a lock and then replaces the parts one lock at a time; a reader *)
(* keeps its guards until it answers.                                      *)
(*                                                                         *)
(* A part is the number of the load that wrote it and whether there is     *)
(* anything in it; parsing is whether a file can be parsed and which of    *)
(* the parts it has.                                                       *)
(***************************************************************************)
EXTENDS Naturals, Sequences

CONSTANTS
    Workers,     \* requests that can be in flight at the same time
    WebFiles,    \* what can be loaded
    MaxLoads     \* bound on the loads that are accepted, for slots A and B

FileRecords == [name : {"apk", "bundle", "dir", "other"},  \* .apk or .xapk; .aab, ...
                content : {"zip", "dex", "junk"},
                dex : BOOLEAN, resources : BOOLEAN, manifest : BOOLEAN]

ASSUME WebConstantsOK ==
    /\ WebFiles \subseteq FileRecords
    /\ MaxLoads \in [{"A", "B"} -> Nat]

WebSlots == {"A", "B"}
Parts == {"path", "dex", "resources", "manifest", "path_b", "dex_b"}
SlotOf(p) == IF p \in {"path_b", "dex_b"} THEN "B" ELSE "A"
PartsOf(slot) == {p \in Parts : SlotOf(p) = slot}

VARIABLES
    part,        \* ServerState: what is under each lock
    queue,       \* who waits for each lock, in order
    request,     \* what each worker is handling
    loads,       \* (history) number of accepted loads, for each slot
    mixed,       \* (history) the loads of the slot that overlapped another one
    answered     \* (history) the latest load answered of those that did not

webVars == <<part, queue, request, loads, mixed, answered>>

-----------------------------------------------------------------------------
\* Handlers, and the locks each takes, in order.
LoadsOf(slot) == IF slot = "A" THEN {"load", "upload"} ELSE {"load_b", "upload_b"}
LoadHandlers == LoadsOf("A") \cup LoadsOf("B")
ReadHandlers == {"code", "run", "manifest", "resources", "entry", "code_b"}

\* Mutant of RunLocks: the resources first.
RunLocksSwapped == <<"resources", "dex">>
RunLocks == <<"dex", "resources">>

LoadLocks(slot) == IF slot = "A" THEN <<"path", "dex", "resources", "manifest">>
                                 ELSE <<"path_b", "dex_b">>

LocksOf(h) ==
    CASE h \in LoadsOf("A") -> LoadLocks("A")
      [] h \in LoadsOf("B") -> LoadLocks("B")
      [] h = "run"       -> RunLocks            \* run_method, find_exec
      [] h = "code"      -> <<"dex">>           \* get_smali, get_java, get_xrefs, search_code
      [] h = "code_b"    -> <<"dex_b">>         \* get_smali_b, get_java_b
      [] h = "manifest"  -> <<"manifest">>
      [] h = "resources" -> <<"resources">>
      [] h = "entry"     -> <<"path">>          \* get_entry, get_asset(_info), run_script
      [] OTHER           -> <<>>
Locks == [h \in LoadHandlers \cup ReadHandlers \cup {"none", "refused"} |-> LocksOf(h)]

\* Only load_b_by_path takes .aab, .aar and .jar for a raw DEX.
AsZip(h, f) == f.name = "apk" \/ (f.name = "bundle" /\ h # "load_b")

\* Mutant of Refuses: a file without a DEX is accepted.
RefusesUnreadable(h, f) ==
    IF f.name = "dir" \/ AsZip(h, f) THEN f.content # "zip" ELSE f.content # "dex"

\* The file cannot be read or parsed as what it is taken for, or has no DEX.
Refuses(h, f) ==
    IF f.name = "dir" \/ AsZip(h, f) THEN f.content # "zip" \/ ~f.dex
                                     ELSE f.content # "dex"

\* Which parts the file fills; a raw DEX has neither resources nor manifest.
Fills(h, f) ==
    LET zip == f.name = "dir" \/ AsZip(h, f) IN
    [p \in Parts |-> CASE p \in {"path", "path_b"} -> TRUE
                       [] p \in {"dex", "dex_b"}   -> ~zip \/ f.dex
                       [] p = "resources"          -> zip /\ f.resources
                       [] p = "manifest"           -> zip /\ f.manifest]

Free == [handler |-> "none"]

IsLoad(w) == request[w].handler \in LoadHandlers
Loading(slot) == {w \in Workers : request[w].handler \in LoadsOf(slot)}

\* The lock the handler takes next.
Lacks(w) == request[w].next <= Len(Locks[request[w].handler])
NextLock(w) == Locks[request[w].handler][request[w].next]

Waits(w, p) == \E i \in DOMAIN queue[p] : queue[p][i] = w

\* A reader has the guards of the locks it has taken so far.
Holds(w, p) ==
    /\ request[w].handler \in ReadHandlers
    /\ \E i \in DOMAIN Locks[request[w].handler] :
          i < request[w].next /\ Locks[request[w].handler][i] = p

WebInit ==
    /\ part = [p \in Parts |-> [by |-> 0, some |-> FALSE]]
    /\ queue = [p \in Parts |-> <<>>]
    /\ request = [w \in Workers |-> Free]
    /\ loads = [slot \in WebSlots |-> 0]
    /\ mixed = [slot \in WebSlots |-> {}]
    /\ answered = [slot \in WebSlots |-> 0]

-----------------------------------------------------------------------------
ArriveRead(w, h) ==
    /\ request[w] = Free
    /\ request' = [request EXCEPT ![w] =
                     [handler |-> h, next |-> 1, seen |-> <<>>, since |-> answered]]
    /\ UNCHANGED <<part, queue, loads, mixed, answered>>

\* Parse; a refusal is answered before anything is written.
ArriveLoad(w, h, f) ==
    LET slot == IF h \in LoadsOf("A") THEN "A" ELSE "B" IN
    /\ request[w] = Free
    /\ f.name = "dir" => h \in {"load", "load_b"}
    /\ IF Refuses(h, f)
       THEN /\ request' = [request EXCEPT ![w] = [handler |-> "refused", next |-> 1]]
            /\ UNCHANGED <<loads, mixed>>
       ELSE /\ loads[slot] < MaxLoads[slot]
            /\ loads' = [loads EXCEPT ![slot] = @ + 1]
            /\ request' = [request EXCEPT ![w] =
                             [handler |-> h, next |-> 1,
                              by |-> loads[slot] + 1, fills |-> Fills(h, f)]]
            /\ mixed' = [mixed EXCEPT ![slot] =
                            IF Loading(slot) = {} THEN @
                            ELSE @ \cup {loads[slot] + 1}
                                   \cup {request[v].by : v \in Loading(slot)}]
    /\ UNCHANGED <<part, queue, answered>>

\* `lock.read().await` or `lock.write().await`: wait in line ...
Ask(w) ==
    /\ request[w] # Free
    /\ Lacks(w)
    /\ ~Waits(w, NextLock(w))
    /\ queue' = [queue EXCEPT ![NextLock(w)] = Append(@, w)]
    /\ UNCHANGED <<part, request, loads, mixed, answered>>

\* Mutant of Granted: a reader need not wait its turn behind a writer.
GrantedToReaders(w, p) ==
    /\ Waits(w, p)
    /\ IF IsLoad(w) THEN Head(queue[p]) = w /\ \A v \in Workers : ~Holds(v, p)
                    ELSE TRUE

\* ... until its turn comes; a writer also waits for the readers before it.
Granted(w, p) ==
    /\ queue[p] # <<>>
    /\ Head(queue[p]) = w
    /\ IsLoad(w) => \A v \in Workers : ~Holds(v, p)

Served(w, p) == [queue EXCEPT ![p] = SelectSeq(@, LAMBDA v : v # w)]

\* Mutant of Stored: a part the file does not have is not reset.
StoredIfAny(w, p) ==
    IF request[w].fills[p] THEN [by |-> request[w].by, some |-> TRUE] ELSE part[p]

Stored(w, p) == [by |-> request[w].by, some |-> request[w].fills[p]]

\* `*lock.write().await = value;` gives the guard back at the end of the statement.
Write(w) ==
    LET p == NextLock(w) IN
    /\ IsLoad(w)
    /\ Lacks(w)
    /\ Granted(w, p)
    /\ part' = [part EXCEPT ![p] = Stored(w, p)]
    /\ queue' = Served(w, p)
    /\ request' = [request EXCEPT ![w].next = @ + 1]
    /\ UNCHANGED <<loads, mixed, answered>>

Read(w) ==
    LET p == NextLock(w) IN
    /\ request[w].handler \in ReadHandlers
    /\ Lacks(w)
    /\ Granted(w, p)
    /\ queue' = Served(w, p)
    /\ request' = [request EXCEPT ![w].next = @ + 1,
                                  ![w].seen = Append(@, part[p].by)]
    /\ UNCHANGED <<part, loads, mixed, answered>>

\* The answer is computed and sent; the guards are dropped.
Answer(w) ==
    /\ request[w] # Free
    /\ ~Lacks(w)
    /\ request' = [request EXCEPT ![w] = Free]
    /\ answered' = [slot \in WebSlots |->
                      IF w \in Loading(slot) /\ request[w].by \notin mixed[slot]
                      THEN request[w].by ELSE answered[slot]]
    /\ UNCHANGED <<part, queue, loads, mixed>>

Handle(w) == Ask(w) \/ Write(w) \/ Read(w) \/ Answer(w)

WebNext ==
    \E w \in Workers :
        \/ \E h \in ReadHandlers : ArriveRead(w, h)
        \/ \E h \in LoadHandlers, f \in WebFiles : ArriveLoad(w, h, f)
        \/ Handle(w)

WebSpec == WebInit /\ [][WebNext]_webVars

\* The executor polls every request that can go on.
WebFairness == \A w \in Workers : WF_webVars(Handle(w))

-----------------------------------------------------------------------------
Requests ==
    {Free} \cup [handler : {"refused"}, next : {1}]
      \cup [handler : LoadHandlers, next : Nat \ {0}, by : Nat \ {0},
            fills : [Parts -> BOOLEAN]]
      \cup [handler : ReadHandlers, next : Nat \ {0}, seen : Seq(Nat),
            since : [WebSlots -> Nat]]

\* Type invariant.  Who waits for a lock is a request that takes it next.
WebTypeOK ==
    /\ part \in [Parts -> [by : Nat, some : BOOLEAN]]
    /\ queue \in [Parts -> Seq(Workers)]
    /\ \A p \in Parts, w \in Workers :
          Waits(w, p) => request[w] # Free /\ Lacks(w) /\ NextLock(w) = p
    /\ request \in [Workers -> Requests]
    /\ loads \in [WebSlots -> Nat]
    /\ mixed \in [WebSlots -> SUBSET Nat]
    /\ answered \in [WebSlots -> Nat]

\* When no load is under way and the latest one overlapped no other, every part
\* of the slot is that load's, whatever was loaded, refused or mixed up before,
\* and it has a DEX.
SettledWhole ==
    \A slot \in WebSlots :
        Loading(slot) = {} /\ loads[slot] \notin mixed[slot] =>
            \A p \in PartsOf(slot) :
                /\ part[p].by = loads[slot]
                /\ p \in {"dex", "dex_b"} => part[p].some = (loads[slot] > 0)

\* A run that saw the code of one load and the resources of another saw the
\* resources that load was about to replace, never those of a later load, if
\* neither load overlapped another: the guard on the code keeps later loads out.
RunNeverBehind ==
    \A w \in Workers :
        /\ request[w].handler = "run"
        /\ Len(request[w].seen) = 2
        /\ {request[w].seen[1], request[w].seen[2]} \cap mixed["A"] = {}
        => request[w].seen[2] <= request[w].seen[1]

\* What a client reads after a load was answered is that load's or newer.
FreshReads ==
    \A w \in Workers :
        request[w].handler \in ReadHandlers =>
            \A i \in DOMAIN request[w].seen :
                request[w].since[SlotOf(Locks[request[w].handler][i])]
                    <= request[w].seen[i]

\* Liveness.  Every request is answered, however many others keep coming.
RequestsAnswered ==
    \A w \in Workers : request[w] # Free ~> request[w] = Free
=============================================================================
