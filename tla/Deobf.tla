------------------------------- MODULE Deobf --------------------------------
(***************************************************************************)
(* Running deobfuscators over their call sites: the DEOBFUSCATION tab of   *)
(* the frontend (appStore.ts), which scans the sites of the marked methods *)
(* and sends them to the back end batch by batch, deobf_run_specific_sites *)
(* (commands.rs), which runs every distinct input once on the machines of  *)
(* a thread pool, and exec_calls_parallel (analysis.rs), which find_exec   *)
(* does the same with over fixed chunks.                                   *)
(*                                                                         *)
(* A value is the method and the arguments it was computed from, and       *)
(* whether what ran on the machine before was still there.  The active     *)
(* slot does not change meanwhile; the annotations of the code view, the   *)
(* wording of results and the filter's text are left out.                  *)
(***************************************************************************)
EXTENDS Integers, Sequences, FiniteSets

CONSTANTS
    Methods,      \* methods the user marks
    SitesOf,      \* the call sites of each, in the order of the scan: [row, args]
    Remembering,  \* methods whose result depends on what earlier calls left behind
    Bulks,        \* runs that can be under way at the same time
    BatchSize,    \* max(8, threads)
    Threads,      \* thread counts of find_exec
    MaxRuns       \* bound on the runs that are started

ASSUME DeobfConstantsOK ==
    /\ IsFiniteSet(Methods)
    /\ DOMAIN SitesOf = Methods
    /\ \A m \in Methods :
          /\ SitesOf[m] \in Seq({SitesOf[m][i] : i \in DOMAIN SitesOf[m]})
          /\ \A i \in DOMAIN SitesOf[m] : DOMAIN SitesOf[m][i] = {"row", "args"}
    /\ Remembering \subseteq Methods
    /\ BatchSize \in Nat \ {0}
    /\ Threads \subseteq Nat \ {0}
    /\ MaxRuns \in Nat

VARIABLES
    marked,            \* deobfMarks
    scanned,           \* deobfSitesByMark: the methods whose sites are cached
    rows,              \* deobfSiteResults, by the method and the site's row
    reports,           \* deobfResultsByMark
    found,             \* findExecResults: of which method, and what
    bulk,              \* the runs under way
    runningMarks,      \* the flags that buttons look at
    runningAll, runningShown, runningSites,
    stopRequested,     \* deobfStopRequested
    started            \* (history) number of runs started

runningFlags == <<runningMarks, runningAll, runningShown, runningSites>>
deobfVars == <<marked, scanned, rows, reports, found, bulk, runningFlags,
               stopRequested, started>>

NotRunning == [kind |-> "none"]
Empty == [x \in {} |-> 0]

DeobfInit ==
    /\ marked = Methods
    /\ scanned = {}
    /\ rows = Empty
    /\ reports = Empty
    /\ found = Empty
    /\ bulk = [b \in Bulks |-> NotRunning]
    /\ runningMarks = {} /\ runningAll = FALSE /\ runningShown = FALSE /\ runningSites = {}
    /\ stopRequested = FALSE
    /\ started = 0

-----------------------------------------------------------------------------
(* The back end.  A request is one site: the method, its row and the       *)
(* arguments that were resolved for it.                                    *)

Request(m, site) == [method |-> m, row |-> site.row, args |-> site.args]
RequestsOf(m) == [i \in DOMAIN SitesOf[m] |-> Request(m, SitesOf[m][i])]

\* reset_for_call leaves the statics of earlier calls on the machine.
Value(q, used) ==
    [method |-> q.method, args |-> q.args, fresh |-> ~(used /\ q.method \in Remembering)]

\* Mutant of Fingerprint: only the first argument counts.
FingerprintOfFirst(q) == Head(q.args)

\* static_args_fingerprint.
Fingerprint(q) == q.args

\* The first of a list of requests, or of some places in it, with an input.
FirstLike(batch, places, i) ==
    CHOOSE j \in places :
        /\ Fingerprint(batch[j]) = Fingerprint(batch[i])
        /\ \A k \in places : Fingerprint(batch[k]) = Fingerprint(batch[i]) => j <= k

\* deobf_run_specific_sites: one run for each fingerprint, on a machine that is
\* new or has run something else of the batch, and the result for each of its
\* sites.  The pool makes a machine for every group of work it splits off.
BatchAnswers(batch) ==
    LET all == DOMAIN batch
        unique == {FirstLike(batch, all, i) : i \in all}
        used == {f \in [unique -> BOOLEAN] : \A i \in unique : f[i] => i # 1}
    IN  {[i \in all |-> LET j == FirstLike(batch, all, i) IN Value(batch[j], f[j])] : f \in used}

\* Every n-th site is one worker's, or all of them when that does not pay.
Chunk(sites, n, i) ==
    IF n <= 1 \/ Len(sites) < 4 THEN DOMAIN sites
    ELSE {j \in DOMAIN sites : j % n = i % n}

\* exec_calls on one chunk, with its machine and memo: the answer for site i.
ExecCall(sites, chunk, i) ==
    LET j == FirstLike(sites, chunk, i)
    IN  Value(sites[j], \E k \in chunk : k < j)

\* Mutant of ExecCallsParallel: the chunks' results one after the other.
ExecCallsAppended(sites, n) ==
    LET before(i) == {j \in DOMAIN sites : j % n < i % n \/ (j % n = i % n /\ j <= i)}
        order == [p \in DOMAIN sites |-> CHOOSE i \in DOMAIN sites : Cardinality(before(i)) = p]
    IN  [p \in DOMAIN sites |-> ExecCall(sites, Chunk(sites, n, order[p]), order[p])]

\* ... put back together by the sites' indices.
ExecCallsParallel(sites, n) ==
    [i \in DOMAIN sites |-> ExecCall(sites, Chunk(sites, n, i), i)]

FindExec(m, n) ==
    /\ started < MaxRuns
    /\ started' = started + 1
    /\ found' = [method |-> m, values |-> ExecCallsParallel(RequestsOf(m), n)]
    /\ UNCHANGED <<marked, scanned, rows, reports, bulk, runningFlags, stopRequested>>

-----------------------------------------------------------------------------
(* The tab.                                                                *)

Row(q) == <<q.method, q.row>>

Begin(b, record) ==
    /\ bulk[b] = NotRunning
    /\ started < MaxRuns
    /\ started' = started + 1
    /\ bulk' = [bulk EXCEPT ![b] = record]
    /\ UNCHANGED <<marked, scanned, rows, reports, found>>

\* A run: the method it is of, if it is a method's own run, the methods that it
\* still has to scan, its requests, and the results it has of them.
Scanning(kind, methods) ==
    [kind |-> kind, phase |-> "scan", left |-> methods, requests |-> << >>, collected |-> << >>,
     of |-> IF kind = "mark" THEN {methods[1]} ELSE {}]
Sending(kind, phase, requests) ==
    [kind |-> kind, phase |-> phase, left |-> << >>, requests |-> requests, collected |-> << >>,
     of |-> {}]

RunForMark(b, m) ==
    /\ m \in marked \ runningMarks
    /\ Begin(b, Scanning("mark", <<m>>))
    /\ runningMarks' = runningMarks \cup {m}
    /\ stopRequested' = FALSE
    /\ UNCHANGED <<runningAll, runningShown, runningSites>>

InOrder(S) == {s \in [1..Cardinality(S) -> S] : \A i, j \in DOMAIN s : s[i] = s[j] => i = j}

RunAll(b) ==
    /\ marked # {} /\ ~runningAll
    /\ \E methods \in InOrder(marked) : Begin(b, Scanning("all", methods))
    /\ runningAll' = TRUE
    /\ stopRequested' = FALSE
    /\ UNCHANGED <<runningMarks, runningShown, runningSites>>

\* What the filter shows of the scanned methods: some part of it, in order (of
\* two of the methods at most).
RunShown(b) ==
    /\ ~runningShown
    /\ \E methods \in InOrder(scanned \cap marked) :
          LET listed == CASE Len(methods) = 0 -> << >>
                          [] Len(methods) = 1 -> RequestsOf(methods[1])
                          [] OTHER -> RequestsOf(methods[1]) \o RequestsOf(methods[2])
          IN  \E first \in 1..2 :
                /\ Len(listed) >= first
                /\ Begin(b, Sending("shown", "check", SubSeq(listed, first, Len(listed))))
    /\ runningShown' = TRUE
    /\ stopRequested' = FALSE
    /\ UNCHANGED <<runningMarks, runningAll, runningSites>>

\* One site; the stop flag is left as it is, and not looked at.
RunSite(b, m, i) ==
    /\ m \in marked \cap scanned
    /\ Row(RequestsOf(m)[i]) \notin runningSites
    /\ Begin(b, Sending("site", "sent", <<RequestsOf(m)[i]>>))
    /\ runningSites' = runningSites \cup {Row(RequestsOf(m)[i])}
    /\ UNCHANGED <<runningMarks, runningAll, runningShown, stopRequested>>

\* The button is there while a bulk run shows as running.
StopDeobf ==
    /\ ~stopRequested
    /\ runningAll \/ runningShown \/ runningMarks # {}
    /\ stopRequested' = TRUE
    /\ UNCHANGED <<marked, scanned, rows, reports, found, bulk, runningFlags, started>>

\* A method's row is opened.
OpenMark(m) ==
    /\ m \in marked \ scanned
    /\ scanned' = scanned \cup {m}
    /\ UNCHANGED <<marked, rows, reports, found, bulk, runningFlags, stopRequested, started>>

\* loadDeobfSites, which asks the back end once for each method and fails
\* when there is no file; the methods after a stop are not scanned.
Scan(b) ==
    /\ bulk[b].kind \in {"mark", "all"} /\ bulk[b].phase = "scan"
    /\ \/ /\ bulk[b].left = << >> \/ (bulk[b].kind = "all" /\ stopRequested)
          /\ bulk' = [bulk EXCEPT ![b].phase = "check"]
          /\ UNCHANGED scanned
       \/ /\ bulk[b].left # << >> /\ ~(bulk[b].kind = "all" /\ stopRequested)
          /\ LET m == Head(bulk[b].left)
             IN  \E known \in {scanned \cup {m}, scanned} :
                   /\ scanned' = known
                   /\ bulk' = [bulk EXCEPT
                         ![b].left = Tail(@),
                         ![b].requests = IF m \in known THEN @ \o RequestsOf(m) ELSE @]
    /\ UNCHANGED <<marked, rows, reports, found, runningFlags, stopRequested, started>>

Sent(b) == Len(bulk[b].collected)
Unsent(b) == Len(bulk[b].requests) - Sent(b)

\* The top of the loop in runDeobfBatches.
Halts(b) == Unsent(b) = 0 \/ stopRequested

SendBatch(b) ==
    /\ bulk[b].kind # "none" /\ bulk[b].phase = "check"
    /\ ~Halts(b)
    /\ bulk' = [bulk EXCEPT ![b].phase = "sent"]
    /\ UNCHANGED <<marked, scanned, rows, reports, found, runningFlags, stopRequested, started>>

NextBatch(b) ==
    LET size == IF Unsent(b) < BatchSize THEN Unsent(b) ELSE BatchSize
    IN  SubSeq(bulk[b].requests, Sent(b) + 1, Sent(b) + size)

\* Mutant of Paired: answers are paired with the run's first requests.
PairedFromStart(b, i) == bulk[b].requests[i]
\* "Results are paired to requests by index".
Paired(b, i) == NextBatch(b)[i]

\* The rows with a batch's answers merged in, a later one over an earlier one.
Merged(b, answer) ==
    LET hits(r) == {i \in DOMAIN answer : Row(Paired(b, i)) = r}
        hit == {Row(Paired(b, i)) : i \in DOMAIN answer}
    IN  [r \in DOMAIN rows \cup hit |->
            IF r \in hit THEN answer[CHOOSE i \in hits(r) : \A j \in hits(r) : j <= i]
            ELSE rows[r]]

\* The flags of a run go down whatever happened to it.
Over(b) ==
    /\ bulk' = [bulk EXCEPT ![b] = NotRunning]
    /\ runningMarks' = runningMarks \ bulk[b].of
    /\ runningAll' = (runningAll /\ bulk[b].kind # "all")
    /\ runningShown' = (runningShown /\ bulk[b].kind # "shown")
    /\ runningSites' = IF bulk[b].kind = "site"
                       THEN runningSites \ {Row(bulk[b].requests[1])} ELSE runningSites
    /\ UNCHANGED <<marked, scanned, found, stopRequested, started>>

\* A batch of a longer run is answered and merged.
BatchAnswered(b) ==
    /\ bulk[b].kind \in {"mark", "all", "shown"} /\ bulk[b].phase = "sent"
    /\ \E answer \in BatchAnswers(NextBatch(b)) :
          /\ rows' = Merged(b, answer)
          /\ bulk' = [bulk EXCEPT ![b].collected = @ \o answer, ![b].phase = "check"]
    /\ UNCHANGED <<marked, scanned, reports, found, runningFlags, stopRequested, started>>

\* The answer of a single site, which ends its run.
SiteAnswered(b) ==
    /\ bulk[b].kind = "site"
    /\ \E answer \in BatchAnswers(NextBatch(b)) : rows' = Merged(b, answer)
    /\ Over(b)
    /\ UNCHANGED reports

\* The request fails: what came before stays merged, and nothing is reported.
BatchFails(b) ==
    /\ bulk[b].kind # "none" /\ bulk[b].phase = "sent"
    /\ Over(b)
    /\ UNCHANGED <<rows, reports>>

\* The loop is left; a method's own run reports what it has, stopped or not,
\* unless the method has no sites.
RunEnds(b) ==
    /\ bulk[b].kind \in {"mark", "all", "shown"} /\ bulk[b].phase = "check"
    /\ Halts(b)
    /\ LET named == IF bulk[b].requests = << >> THEN {} ELSE bulk[b].of
       IN  reports' = [m \in DOMAIN reports \cup named |->
                          IF m \in named THEN bulk[b].collected ELSE reports[m]]
    /\ Over(b)
    /\ UNCHANGED rows

MarkDeobf(m) ==
    /\ m \notin marked
    /\ marked' = marked \cup {m}
    /\ UNCHANGED <<scanned, rows, reports, found, bulk, runningFlags, stopRequested, started>>

\* What the tab holds of the method goes; its runs go on.
UnmarkDeobf(m) ==
    /\ m \in marked
    /\ marked' = marked \ {m}
    /\ scanned' = scanned \ {m}
    /\ rows' = [r \in {r \in DOMAIN rows : r[1] # m} |-> rows[r]]
    /\ reports' = [n \in DOMAIN reports \ {m} |-> reports[n]]
    /\ runningMarks' = runningMarks \ {m}
    /\ runningSites' = {r \in runningSites : r[1] # m}
    /\ UNCHANGED <<found, bulk, runningAll, runningShown, stopRequested, started>>

DeobfStep(b) ==
    \/ Scan(b) \/ SendBatch(b) \/ BatchAnswered(b) \/ SiteAnswered(b)
    \/ BatchFails(b) \/ RunEnds(b)

DeobfNext ==
    \/ \E m \in Methods :
          \/ MarkDeobf(m) \/ UnmarkDeobf(m) \/ OpenMark(m)
          \/ \E n \in Threads : FindExec(m, n)
    \/ StopDeobf
    \/ \E b \in Bulks :
          \/ \E m \in Methods :
                \/ RunForMark(b, m)
                \/ \E i \in DOMAIN SitesOf[m] : RunSite(b, m, i)
          \/ RunAll(b)
          \/ RunShown(b)
          \/ DeobfStep(b)

DeobfSpec == DeobfInit /\ [][DeobfNext]_deobfVars

-----------------------------------------------------------------------------
(* Properties.                                                             *)

\* What a site gives when it runs alone on a new machine.
Alone(q) == Value(q, FALSE)

\* Sites answered by what each gives alone, as far as they go.
EachAlone(values, requests) ==
    /\ Len(values) <= Len(requests)
    /\ \A i \in DOMAIN values :
          requests[i].method \notin Remembering => values[i] = Alone(requests[i])

\* A method that keeps nothing between calls is reported, site by site, with
\* what each of its sites gives when it runs alone on a new machine: whatever
\* runs were under way, batched, stopped, failed or unmarked meanwhile, and
\* however many threads find_exec spreads the sites over (analysis.rs:
\* "Results are returned in the same order as `sites`").  A row of the tab
\* shows a result for the arguments of a site of that row.
OwnResults ==
    /\ \A m \in DOMAIN reports : EachAlone(reports[m], RequestsOf(m))
    /\ \A b \in Bulks : bulk[b].kind = "mark" => EachAlone(bulk[b].collected, bulk[b].requests)
    /\ DOMAIN found # {} =>
          /\ Len(found.values) = Len(SitesOf[found.method])
          /\ EachAlone(found.values, RequestsOf(found.method))
    /\ \A r \in DOMAIN rows :
          \E i \in DOMAIN SitesOf[r[1]] :
             r = Row(RequestsOf(r[1])[i]) /\ rows[r].args = SitesOf[r[1]][i].args

\* "Two sites that share a fingerprint MUST decrypt to the same plaintext"
\* (deobf_run_specific_sites): the row of a method shows what that method
\* computed.
RowsShowOwn == \A r \in DOMAIN rows : rows[r].method = r[1]
=============================================================================
