------------------------------ MODULE ApkBuild ------------------------------
(***************************************************************************)
(* platypus-apkbuild: an APK is repacked (builder.rs) and signed           *)
(* (signing/), in any order and as often as the user likes.                *)
(*                                                                         *)
(* A file is its entries, what lies between them and the central           *)
(* directory (normally nothing or one APK Signing Block), the directory,   *)
(* and the directory's offset in the end record.  Offsets count the pieces *)
(* of the file: the entries are one piece, each block is one.  A hash is   *)
(* what was hashed.  Compression, alignment and Zip64 are left out.        *)
(***************************************************************************)
EXTENDS Integers, Sequences, FiniteSets

CONSTANTS
    Names,           \* entries
    SignatureNames,  \* the v1 signature files among them
    Data,           \* contents of entries
    Keys,            \* signing keys
    Apks,            \* files the user starts from
    NoApk,           \* no file
    Truncated,       \* a file that is cut off: no archive
    Sidecars,        \* whether a sidecar is asked for: a set of Booleans
    MaxAdditions     \* bound on the additions to one builder

ASSUME ApkConstantsOK ==
    /\ SignatureNames \subseteq Names
    /\ \A entries \in Apks : entries \in Seq([name : Names, bytes : Data])
    /\ Sidecars \subseteq BOOLEAN
    /\ NoApk \notin [schemes : SUBSET {"v2", "v3"}, key : Keys]
    /\ MaxAdditions \in Nat

Schemes == {"v2", "v3"}

VARIABLES
    apk,        \* the APK on disk
    sidecar,    \* the .idsig beside it: [over, digest, key], or NoApk
    output,     \* what build or sign_bytes made, to be written, or NoApk:
                \* [apk, by], by being the signing, or NoApk
    builder,    \* an open ApkBuilder, or NoApk
    signing     \* (history) the signing of the APK: [schemes, key], or NoApk

apkVars == <<apk, sidecar, output, builder, signing>>

NamesOf(entries) == {entries[i].name : i \in DOMAIN entries}
Directory(entries) == [i \in DOMAIN entries |-> entries[i].name]

\* What ZipWriter writes.
ZipFile(entries) ==
    [entries |-> entries, blocks |-> << >>, cd |-> Directory(entries), offset |-> 1]

-----------------------------------------------------------------------------
\* ApkBuilder.

OpenBuilder ==
    /\ apk # Truncated
    /\ builder' = [original |-> apk.entries, strip |-> TRUE,
                   deleted |-> {}, replaced |-> << >>, additions |-> << >>]
    /\ UNCHANGED <<apk, sidecar, output, signing>>

\* replace, replace_with_method and delete share the map of overrides: the
\* latest of them counts.
Replace(n, b) ==
    /\ builder # NoApk
    /\ builder' = [builder EXCEPT
          !.deleted = @ \ {n},
          !.replaced = [m \in DOMAIN @ \cup {n} |-> IF m = n THEN b ELSE @[m]]]
    /\ UNCHANGED <<apk, sidecar, output, signing>>

Delete(n) ==
    /\ builder # NoApk
    /\ builder' = [builder EXCEPT
          !.deleted = @ \cup {n},
          !.replaced = [m \in DOMAIN @ \ {n} |-> @[m]]]
    /\ UNCHANGED <<apk, sidecar, output, signing>>

Add(n, b) ==
    /\ builder # NoApk
    /\ Len(builder.additions) < MaxAdditions
    /\ builder' = [builder EXCEPT !.additions = Append(@, [name |-> n, bytes |-> b])]
    /\ UNCHANGED <<apk, sidecar, output, signing>>

KeepExistingSignatures ==
    /\ builder # NoApk
    /\ builder' = [builder EXCEPT !.strip = FALSE]
    /\ UNCHANGED <<apk, sidecar, output, signing>>

Dropped(b, n) == n \in b.deleted \cup (IF b.strip THEN SignatureNames ELSE {})

\* The entries of the input that are inherited or replaced, ...
Carried(b) ==
    LET kept == SelectSeq(b.original, LAMBDA e : ~Dropped(b, e.name))
    IN  [i \in DOMAIN kept |->
            IF kept[i].name \in DOMAIN b.replaced
            THEN [kept[i] EXCEPT !.bytes = b.replaced[kept[i].name]]
            ELSE kept[i]]

\* ... and the additions whose names the input does not have.
Appended(b) == SelectSeq(b.additions, LAMBDA e : e.name \notin NamesOf(b.original))

\* The zip writer refuses a second entry of one name, and the build with it.
Buildable(b) == Cardinality(NamesOf(Appended(b))) = Len(Appended(b))

\* build: the new archive, unsigned, in memory.
Build ==
    /\ builder # NoApk
    /\ Buildable(builder)
    /\ output' = [apk |-> ZipFile(Carried(builder) \o Appended(builder)), by |-> NoApk]
    /\ builder' = NoApk
    /\ UNCHANGED <<apk, sidecar, signing>>

-----------------------------------------------------------------------------
\* Signing.  ZipLayout::parse believes the offset in the end record.

\* The bytes of the file ahead of an offset, and the directory at it: nothing
\* sensible where the offset is wrong.
Ahead(f, offset) ==
    IF offset \in 1..Len(f.blocks) + 1
    THEN [entries |-> f.entries, blocks |-> SubSeq(f.blocks, 1, offset - 1)]
    ELSE [entries |-> << >>, blocks |-> << >>]
DirectoryAt(f, offset) == IF offset = Len(f.blocks) + 1 THEN f.cd ELSE << >>

\* The three regions, the last with the offset it will have for a verifier.
DigestWithOffset(f, offset) ==
    [contents |-> Ahead(f, f.offset), cd |-> DirectoryAt(f, f.offset), eocd |-> offset]

BlockAhead(f) == f.offset \in 2..Len(f.blocks) + 1

WithBlocks(f, blocks, offset) ==
    [entries |-> f.entries, blocks |-> blocks, cd |-> f.cd, offset |-> offset]

\* Mutant of StripExistingBlock: the old block stays.
KeepExistingBlock(f) == f

StripExistingBlock(f) ==
    IF BlockAhead(f)
    THEN WithBlocks(f, SubSeq(f.blocks, 1, Len(f.blocks) - 1), f.offset - 1)
    ELSE f

InsertBlock(f, block) == WithBlocks(f, Append(f.blocks, block), f.offset + 1)

\* What a scheme puts into its pair: signed data, signature, certificate and
\* public key are the digest and the key.
V2Payload(digest, key) == [key |-> key, digest |-> digest]
V3Payload(digest, key) == [key |-> key, digest |-> digest]

BlockWith(master, schemes, key) ==
    [s \in schemes |-> IF s = "v2" THEN V2Payload(master, key) ELSE V3Payload(master, key)]

\* Mutant of MasterDigest: the end record as it is after the insertion.
MasterDigestFinalOffset(f) == DigestWithOffset(f, f.offset + 1)
\* The block starts where the directory starts now.
MasterDigest(f) == DigestWithOffset(f, f.offset)

SignWithBlock(f, schemes, key) ==
    LET clean == StripExistingBlock(f)
    IN  InsertBlock(clean, BlockWith(MasterDigest(clean), schemes, key))

\* build_idsig: the Merkle tree over the file, and what it calls the digest.
BlockStart(f) == IF BlockAhead(f) THEN f.offset - 1 ELSE f.offset
Idsig(f, key) == [over |-> f, digest |-> DigestWithOffset(f, BlockStart(f)), key |-> key]

\* sign_bytes: the signing block, v1, which does nothing, and the sidecar,
\* which is on disk before the APK is.
SignBytes(schemes, key, v4) ==
    LET f == IF schemes = {} THEN apk ELSE SignWithBlock(apk, schemes, key)
        by == IF schemes = {} THEN signing ELSE [schemes |-> schemes, key |-> key]
    IN  /\ apk # Truncated
        /\ output' = [apk |-> f, by |-> by]
        /\ sidecar' = IF v4 THEN Idsig(f, key) ELSE sidecar
        /\ UNCHANGED <<apk, builder, signing>>

-----------------------------------------------------------------------------
\* What was made is written with fs::write to the file the user names, here the
\* one it was made from: the file is truncated, ...
TruncateApk ==
    /\ output # NoApk
    /\ apk # Truncated
    /\ apk' = Truncated
    /\ UNCHANGED <<sidecar, output, builder, signing>>

\* ... and filled in place.
FillApk ==
    /\ output # NoApk
    /\ apk = Truncated
    /\ apk' = output.apk
    /\ signing' = output.by
    /\ output' = NoApk
    /\ UNCHANGED <<sidecar, builder>>

\* The process ends; what is on disk stays, cut off or not.
SignerDies ==
    /\ output' = NoApk
    /\ builder' = NoApk
    /\ UNCHANGED <<apk, sidecar, signing>>

-----------------------------------------------------------------------------
ApkInit ==
    /\ apk \in {ZipFile(entries) : entries \in Apks}
    /\ sidecar = NoApk
    /\ output = NoApk
    /\ builder = NoApk
    /\ signing = NoApk

\* The caller is one thread: what was made is written before anything else.
Idling == output = NoApk

ApkNext ==
    \/ /\ Idling
       /\ \/ OpenBuilder
          \/ \E n \in Names, b \in Data : Replace(n, b) \/ Add(n, b)
          \/ \E n \in Names : Delete(n)
          \/ KeepExistingSignatures
          \/ Build
          \/ \E schemes \in SUBSET Schemes, key \in Keys, v4 \in Sidecars :
                SignBytes(schemes, key, v4)
    \/ TruncateApk
    \/ FillApk
    \/ SignerDies

ApkSpec == ApkInit /\ [][ApkNext]_apkVars

-----------------------------------------------------------------------------
\* What Android's verifier hashes: the block before the directory is cut out
\* and the end record points at where it began.
VerifierDigest(f) ==
    [contents |-> Ahead(f, f.offset - 1), cd |-> DirectoryAt(f, f.offset),
     eocd |-> f.offset - 1]

\* In whatever order an APK is repacked, signed and signed again, what is in
\* front of its directory is at most one block, the end record points behind
\* it, and every pair in it carries the digest a verifier arrives at: in the file,
\* unless a crash left it cut off, and in what is about to be written.
Verifies(f) ==
    /\ Len(f.blocks) <= 1
    /\ f.offset = Len(f.blocks) + 1
    /\ \A i \in DOMAIN f.blocks : \A s \in DOMAIN f.blocks[i] :
          f.blocks[i][s].digest = VerifierDigest(f)
SignaturesVerify ==
    /\ apk # Truncated => Verifies(apk)
    /\ output # NoApk => Verifies(output.apk)

\* Nothing of an earlier signer is left: the APK has the pairs of the schemes
\* asked for last, of that key, and none after it was repacked.  A file that is
\* cut off has no say.
OnlyLastSigner ==
    IF apk = Truncated THEN TRUE
    ELSE IF signing = NoApk THEN apk.blocks = << >>
    ELSE \E block \in {apk.blocks[i] : i \in DOMAIN apk.blocks} :
            /\ apk.blocks = << block >>
            /\ DOMAIN block = signing.schemes
            /\ \A s \in signing.schemes : block[s].key = signing.key

\* What the comments of v4.rs say: the digest in the sidecar of a signed APK is
\* the master digest that the APK's own pairs carry.
IdsigNamesMasterDigest ==
    sidecar # NoApk =>
        \A i \in DOMAIN sidecar.over.blocks : \A s \in DOMAIN sidecar.over.blocks[i] :
            sidecar.digest = sidecar.over.blocks[i][s].digest
=============================================================================
