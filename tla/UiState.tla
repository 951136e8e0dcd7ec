------------------------------- MODULE UiState ------------------------------
(***************************************************************************)
(* The durable mirror of the frontend's state: persistSet of               *)
(* persistentStore.ts, which nobody waits for, and ui_state_write and      *)
(* ui_state_delete of the desktop commands, for one key.  A write fills a  *)
(* temporary file and renames it into place.                               *)
(*                                                                         *)
(* The value of the n-th persistSet is n.  Files are inodes, so that a     *)
(* file can be renamed while it is being written.                          *)
(***************************************************************************)
EXTENDS Integers

CONSTANTS
    Writers,     \* ui_state_set and ui_state_remove commands in flight
    Inodes,      \* files on disk
    NoFile,      \* no file of that name
    MaxSets      \* bound on the number of persistSet calls

ASSUME UiConstantsOK == NoFile \notin Inodes /\ MaxSets \in Nat

Torn == -1       \* an empty or half-written file
Mixed == -2      \* pieces of two values

VARIABLES
    name,        \* the files named <key>.tmp and <key>
    content,     \* of each file
    writer,      \* the command each writer is carrying out
    sets,        \* number of persistSet calls so far
    crossed,     \* (history) the writers whose write overlapped another one
    kept,        \* (history) the newest value whose write overlapped no other
    voided       \* (history) whether such a write was renamed over it since

diskVars == <<name, content>>
promiseVars == <<kept, voided>>
uiVars == <<diskVars, writer, sets, crossed, promiseVars>>

Rest == [phase |-> "none", value |-> 0, file |-> NoFile]

UiInit ==
    /\ name = [f \in {"tmp", "key"} |-> NoFile]
    /\ content = [i \in Inodes |-> Torn]
    /\ writer = [w \in Writers |-> Rest]
    /\ sets = 0
    /\ crossed = {}
    /\ kept = 0
    /\ voided = FALSE

InFlight == {w \in Writers : writer[w] # Rest}

Unused(i) == i \notin {name["tmp"], name["key"]} /\ \A w \in Writers : writer[w].file # i

-----------------------------------------------------------------------------
\* persistSet: the command is sent off.
PersistSet(w) ==
    /\ writer[w] = Rest
    /\ sets < MaxSets
    /\ sets' = sets + 1
    /\ writer' = [writer EXCEPT ![w] = [phase |-> "sent", value |-> sets + 1, file |-> NoFile]]
    /\ crossed' = IF InFlight = {} THEN {} ELSE InFlight \cup {w}
    /\ UNCHANGED <<diskVars, promiseVars>>

\* fs::write creates or truncates the file, ...
OpenFile(w) ==
    /\ writer[w].phase = "sent"
    /\ \E i \in Inodes :
          /\ IF name["tmp"] = NoFile THEN Unused(i) ELSE i = name["tmp"]
          /\ name' = [name EXCEPT !["tmp"] = i]
          /\ content' = [content EXCEPT ![i] = Torn]
          /\ writer' = [writer EXCEPT ![w].phase = "open", ![w].file = i]
    /\ UNCHANGED <<sets, crossed, promiseVars>>

\* ... then fills it, over what another writer left in it.
FillFile(w) ==
    /\ writer[w].phase = "open"
    /\ \E c \in {writer[w].value, Mixed} :
          /\ c = Mixed => content[writer[w].file] # Torn
          /\ content' = [content EXCEPT ![writer[w].file] = c]
    /\ writer' = [writer EXCEPT ![w].phase = "full", ![w].file = NoFile]
    /\ UNCHANGED <<name, sets, crossed, promiseVars>>

\* Mutant of FillFails: the error of the write does not end the command.
FillFailsUnseen(w) ==
    /\ writer[w].phase = "open"
    /\ writer' = [writer EXCEPT ![w].phase = "full", ![w].file = NoFile]
    /\ UNCHANGED <<diskVars, sets, crossed, promiseVars>>
\* The disk is full: the command ends with an error nobody looks at.
FillFails(w) ==
    /\ writer[w].phase = "open"
    /\ writer' = [writer EXCEPT ![w] = Rest]
    /\ crossed' = crossed \ {w}
    /\ UNCHANGED <<diskVars, sets, promiseVars>>

\* rename, ...
RenameFile(w) ==
    /\ writer[w].phase = "full"
    /\ name["tmp"] # NoFile
    /\ name' = [tmp |-> NoFile, key |-> name["tmp"]]
    /\ writer' = [writer EXCEPT ![w] = Rest]
    /\ crossed' = crossed \ {w}
    /\ IF w \in crossed THEN voided' = TRUE /\ UNCHANGED kept
       ELSE voided' = FALSE /\ kept' = writer[w].value
    /\ UNCHANGED <<content, sets>>

\* ... which fails when another writer has renamed the file before.
RenameFails(w) ==
    /\ writer[w].phase = "full"
    /\ name["tmp"] = NoFile
    /\ writer' = [writer EXCEPT ![w] = Rest]
    /\ crossed' = crossed \ {w}
    /\ UNCHANGED <<diskVars, sets, promiseVars>>

\* ui_state_delete.
DeleteFile(w) ==
    /\ writer[w] = Rest
    /\ name' = [name EXCEPT !["key"] = NoFile]
    /\ kept' = 0
    /\ voided' = FALSE
    /\ UNCHANGED <<content, writer, sets, crossed>>

\* The application dies at any point; what is on disk stays.
UiCrash ==
    /\ writer' = [w \in Writers |-> Rest]
    /\ crossed' = {}
    /\ UNCHANGED <<diskVars, sets, promiseVars>>

UiNext ==
    \/ \E w \in Writers :
          \/ PersistSet(w)
          \/ OpenFile(w)
          \/ FillFile(w)
          \/ FillFails(w)
          \/ RenameFile(w)
          \/ RenameFails(w)
          \/ DeleteFile(w)
    \/ UiCrash

UiSpec == UiInit /\ [][UiNext]_uiVars

-----------------------------------------------------------------------------
\* A crash, a full disk or a restart at any point leaves the newest value whose
\* write overlapped no other, whole, until the key is deleted, or a write that
\* did overlap another is renamed over it.  The next write alone heals that.
DurableKept ==
    kept > 0 /\ ~voided => name["key"] # NoFile /\ content[name["key"]] = kept

\* commands.rs:3670-3671, of every write: once a value was completed, no crash in
\* the middle of another write leaves the key's file truncated.
GoodStateKept ==
    kept > 0 => name["key"] # NoFile /\ content[name["key"]] # Torn
=============================================================================
