---------------------------- MODULE StoreProofs ----------------------------
(***************************************************************************)
(* Proofs about seven parts whose files others read, for any number of     *)
(* threads, contents, captures, conversations and troubles: BlobStore,     *)
(* PinFile, MirrorRestore, CorpusFeed, LedgerView, EverosFeed and Pruner.  *)
(* They share no state; each has an invariant of its own.                  *)
(***************************************************************************)
EXTENDS BlobStore, PinFile, MirrorRestore, CorpusFeed, LedgerView, EverosFeed,
        Pruner, NumberFacts, SequenceTheorems

-----------------------------------------------------------------------------
(* BlobStore.                                                                *)

\* A temporary file is synced before anybody looks for its name.
Shapes == [at : {"off", "sync", "look", "rename", "dir"},
           sha : Payloads \cup {NoBlob}, synced : BOOLEAN]

PutsTyped == put \in [Puts -> Shapes]

Files == Payloads \cup {Torn, NoBlob}

SyncedFirst ==
    \A p \in Puts : /\ put[p].at # "off" => put[p].sha \in Payloads
                    /\ put[p].at \in {"look", "rename", "dir"} => put[p].synced

\* What is under a name is its content or nothing, in memory as on disk; what is
\* on disk is in memory, what is acknowledged is on disk, and what was renamed is
\* under its name.
BlobInv ==
    /\ blobs \in [Payloads -> Files] /\ disk \in [Payloads -> Files]
    /\ PutsTyped /\ SyncedFirst
    /\ \A s \in Payloads \ damaged :
         /\ blobs[s] \in {s, NoBlob} /\ disk[s] \in {s, NoBlob}
         /\ disk[s] = s => blobs[s] = s
         /\ s \in kept => disk[s] = s
         /\ \A p \in Puts : put[p].at = "dir" /\ put[p].sha = s => blobs[s] = s

LEMMA BlobStart == BlobInit => BlobInv
BY BlobAssumption DEF BlobInit, BlobInv, PutsTyped, Shapes, SyncedFirst, NoPut, Files

LEMMA NoPutTyped == NoPut \in Shapes /\ NoPut.at = "off"
BY DEF NoPut, Shapes

\* Steps of one put.
LEMMA PutStep ==
    ASSUME BlobInv, NEW p \in Puts,
           WriteTmp(p) \/ FsyncTmp(p) \/ Dedupe(p) \/ Absent(p) \/ Rename(p) \/ FsyncDir(p)
             \/ KillPut(p)
    PROVE  BlobInv'
<1>1. CASE WriteTmp(p)
  BY <1>1 DEF BlobInv, PutsTyped, Shapes, SyncedFirst, WriteTmp
<1>2. CASE FsyncTmp(p)
  <2> DEFINE e == [put[p] EXCEPT !.at = "look", !.synced = TRUE]
  <2>1. put[p] \in Shapes /\ put[p].sha \in Payloads
    BY <1>2 DEF BlobInv, PutsTyped, SyncedFirst, FsyncTmp
  <2>2. e \in Shapes /\ e.at = "look" /\ e.sha = put[p].sha /\ e.synced
    BY <2>1 DEF Shapes
  <2>3. put' = [put EXCEPT ![p] = e] /\ UNCHANGED <<blobs, disk, kept, damaged>>
    BY <1>2 DEF BlobInv, PutsTyped, FsyncTmp
  <2> HIDE DEF e
  <2> QED BY <2>1, <2>2, <2>3 DEF BlobInv, PutsTyped, SyncedFirst
<1>3. CASE Dedupe(p)
  BY <1>3, NoPutTyped DEF BlobInv, PutsTyped, Shapes, SyncedFirst, Dedupe
<1>4. CASE Absent(p)
  BY <1>4 DEF BlobInv, PutsTyped, Shapes, SyncedFirst, Absent, Moves
<1>5. CASE Rename(p)
  <2>1. put[p].sha \in Payloads /\ put[p].synced /\ disk' = disk
    BY <1>5 DEF BlobInv, SyncedFirst, Rename
  <2>2. PutsTyped' /\ SyncedFirst'
    BY <1>5 DEF BlobInv, PutsTyped, Shapes, SyncedFirst, Rename, Moves
  <2>3. blobs' \in [Payloads -> Files] /\ disk' \in [Payloads -> Files]
    BY <1>5, <2>1 DEF BlobInv, Files, Rename
  <2> QED BY <1>5, <2>1, <2>2, <2>3 DEF BlobInv, PutsTyped, Shapes, Rename, Moves
<1>6. CASE FsyncDir(p)
  <2>1. put[p].sha \in Payloads /\ put[p].synced
        /\ disk' = [disk EXCEPT ![put[p].sha] = blobs[put[p].sha]]
    BY <1>6 DEF BlobInv, SyncedFirst, FsyncDir
  <2>2. PutsTyped' /\ SyncedFirst'
    BY <1>6, NoPutTyped DEF BlobInv, PutsTyped, Shapes, SyncedFirst, FsyncDir
  <2>3. blobs' = blobs /\ disk' \in [Payloads -> Files]
    BY <1>6, <2>1 DEF BlobInv, FsyncDir
  <2> QED BY <1>6, <2>1, <2>2, <2>3, NoPutTyped DEF BlobInv, PutsTyped, Shapes, FsyncDir
<1>7. CASE KillPut(p)
  BY <1>7, NoPutTyped DEF BlobInv, PutsTyped, Shapes, SyncedFirst, KillPut
<1> QED BY <1>1, <1>2, <1>3, <1>4, <1>5, <1>6, <1>7

LEMMA PowerStep ==
    ASSUME BlobInv, PowerLoss
    PROVE  BlobInv'
<1>1. /\ blobs' \in [Payloads -> Files] /\ disk' = blobs'
      /\ \A s \in Payloads : blobs'[s] \in IF disk[s] = NoBlob THEN {NoBlob, blobs[s]} ELSE {disk[s]}
      /\ put' = [p \in Puts |-> NoPut] /\ UNCHANGED <<kept, damaged>>
  BY DEF PowerLoss, Files
<1>2. PutsTyped' /\ SyncedFirst' /\ \A p \in Puts : put'[p].at = "off"
  BY <1>1, NoPutTyped DEF PutsTyped, SyncedFirst
<1>3. \A s \in Payloads : s # NoBlob
  BY BlobAssumption
<1> QED BY <1>1, <1>2, <1>3 DEF BlobInv

LEMMA DamageStep ==
    ASSUME BlobInv, NEW s \in Payloads, DamageBlob(s)
    PROVE  BlobInv'
<1>1. /\ blobs' = [blobs EXCEPT ![s] = Torn] /\ disk' = [disk EXCEPT ![s] = Torn]
      /\ damaged' = damaged \union {s} /\ UNCHANGED <<put, kept>>
  BY DEF DamageBlob
<1>2. blobs' \in [Payloads -> Files] /\ disk' \in [Payloads -> Files]
  BY <1>1 DEF BlobInv, Files
<1> QED BY <1>1, <1>2 DEF BlobInv, PutsTyped, SyncedFirst

\* The invariant of the blob store, for any writers, power losses and damage.
THEOREM BlobInvHolds == BlobSpec => []BlobInv
<1>1. BlobInv /\ [BlobNext]_blobVars => BlobInv'
  <2> SUFFICES ASSUME BlobInv, [BlobNext]_blobVars PROVE BlobInv'
    OBVIOUS
  <2>1. CASE BlobNext
    BY <2>1, PutStep, PowerStep, DamageStep DEF BlobNext
  <2>2. CASE UNCHANGED blobVars
    BY <2>2 DEF blobVars, BlobInv, PutsTyped, SyncedFirst
  <2> QED BY <2>1, <2>2
<1> QED BY <1>1, BlobStart, PTL DEF BlobSpec

\* A name shows its own content or is not there, and stays once acknowledged on
\* disk, with any number of puts and power failures.
THEOREM NamesAreWhole == BlobSpec => []NameIsWhole
<1>1. BlobInv => NameIsWhole
  BY DEF BlobInv, NameIsWhole
<1> QED BY <1>1, BlobInvHolds, PTL

-----------------------------------------------------------------------------
(* PinFile.                                                                  *)

PinTexts == Versions \cup {NoPin}

Reads == [step : {"idle", "look", "read", "remember", "done", "failed"}, at : Nat, text : PinTexts]

Reading(r) == reading[r].step \in {"look", "read", "remember"}

\* An mtime is given once, so two texts of one mtime are the same text.
PinInv ==
    /\ pinnings \in Nat /\ cached \in [text : PinTexts, at : Nat]
    /\ reading \in [Requests -> Reads] /\ held \in [Requests -> SUBSET PinTexts]
    /\ pin # NoPin => pin \in [text : Versions, at : Nat] /\ pin.at = pinnings
    /\ cached.at <= pinnings /\ \A r \in Requests : reading[r].at <= pinnings
    /\ pin # NoPin /\ cached.at = pin.at => cached.text = pin.text
    /\ pin # NoPin => \A q \in Requests :
         reading[q].step = "remember" /\ reading[q].at = pin.at => reading[q].text = pin.text
    /\ \A r \in Requests : Reading(r) =>
         /\ TextOf(pin) \in held[r]
         /\ cached.at = reading[r].at => cached.text \in held[r]
         /\ \A q \in Requests : reading[q].step = "remember" /\ reading[q].at = reading[r].at
                                  => reading[q].text \in held[r]
    /\ PinIsCurrent

LEMMA PinStart == PinInit => PinInv
BY PinAssumption DEF PinInit, PinInv, PinTexts, Reads, Reading, PinIsCurrent

\* The file changes, to one of an mtime of its own.
LEMMA FileStep ==
    ASSUME PinInv, WritePin \/ LosePin
    PROVE  PinInv'
<1>1. CASE WritePin
  <2>1. PICK v \in Versions : Becomes([text |-> v, at |-> pinnings'])
    BY <1>1 DEF WritePin
  <2>2. /\ pinnings' = pinnings + 1 /\ pin' = [text |-> v, at |-> pinnings'] /\ UNCHANGED <<cached, reading>>
        /\ TextOf(pin') \in PinTexts
        /\ held' = [r \in Requests |-> IF Reading(r) THEN held[r] \union {TextOf(pin')} ELSE held[r]]
    BY <1>1, <2>1 DEF WritePin, Becomes, TextOf, PinTexts, Reading
  <2>3. pinnings \in Nat /\ pinnings' \in Nat /\ pinnings < pinnings'
    BY <2>2 DEF PinInv
  <2>4. pin' \in [text : Versions, at : Nat] /\ pin'.at = pinnings'
    BY <2>2, <2>3
  <2>5. held' \in [Requests -> SUBSET PinTexts] /\ \A r \in Requests : held[r] \subseteq held'[r]
    BY <2>2 DEF PinInv
  <2>6. cached'.at \in Nat /\ cached'.at < pinnings'
        /\ \A r \in Requests : reading'[r].at \in Nat /\ reading'[r].at < pinnings'
    BY <2>2, <2>3 DEF PinInv, Reads
  <2>7. \A r \in Requests : Reading(r) => TextOf(pin') \in held'[r]
    BY <2>2
  <2> QED BY <2>2, <2>3, <2>4, <2>5, <2>6, <2>7 DEF PinInv, Reading, PinIsCurrent
<1>2. CASE LosePin
  <2>1. /\ pin' = NoPin /\ TextOf(pin') = NoPin /\ UNCHANGED <<pinnings, cached, reading>>
        /\ held' = [r \in Requests |-> IF Reading(r) THEN held[r] \union {NoPin} ELSE held[r]]
    BY <1>2 DEF LosePin, Becomes, TextOf, Reading
  <2> QED BY <2>1 DEF PinInv, Reading, PinIsCurrent, PinTexts
<1> QED BY <1>1, <1>2

LEMMA StatStep ==
    ASSUME PinInv, NEW r \in Requests, Stat(r)
    PROVE  PinInv'
<1>1. held' = [held EXCEPT ![r] = {TextOf(pin)}] /\ UNCHANGED <<pin, pinnings, cached>>
  BY DEF Stat
<1>2. CASE pin = NoPin
  <2>1. reading' = [reading EXCEPT ![r] = [step |-> "failed", at |-> 0, text |-> NoPin]]
    BY <1>2 DEF Stat, NoFile, Reaches
  <2> QED BY <1>1, <1>2, <2>1 DEF PinInv, Reading, PinIsCurrent, PinTexts, Reads, TextOf
<1>3. CASE pin # NoPin
  <2>1. reading' = [reading EXCEPT ![r] = [step |-> "look", at |-> pin.at, text |-> NoPin]]
    BY <1>3 DEF Stat, Reaches
  <2> QED BY <1>1, <1>3, <2>1 DEF PinInv, Reading, PinIsCurrent, PinTexts, Reads, TextOf
<1> QED BY <1>2, <1>3

\* The reading goes on in state e.
LEMMA ReadingMoves ==
    ASSUME PinInv, NEW r \in Requests, NEW e \in Reads, reading' = [reading EXCEPT ![r] = e],
           UNCHANGED <<pin, pinnings, held>>, Reading(r), e.at <= pinnings,
           e.step \in {"look", "read", "remember"} => e.at = reading[r].at,
           e.step = "remember" => pin # NoPin /\ e.text = pin.text,
           e.step = "done" => e.text \in held[r],
           e.step = "failed" => NoPin \in held[r],
           \/ cached' = cached
           \/ /\ reading[r].step = "remember"
              /\ cached' = [text |-> reading[r].text, at |-> reading[r].at]
    PROVE  PinInv'
<1>1. \A q \in Requests \ {r} : reading'[q] = reading[q]
  OBVIOUS
<1>2. reading' \in [Requests -> Reads] /\ reading'[r] = e
  BY DEF PinInv
<1>3. cached' \in [text : PinTexts, at : Nat] /\ cached'.at <= pinnings
  BY DEF PinInv, Reads
<1>4. pin # NoPin /\ cached'.at = pin.at => cached'.text = pin.text
  BY DEF PinInv
<1>5. pin # NoPin => \A q \in Requests :
        reading'[q].step = "remember" /\ reading'[q].at = pin.at => reading'[q].text = pin.text
  BY <1>1, <1>2 DEF PinInv
<1>6. \A q \in Requests : Reading(q)' => Reading(q) /\ reading'[q].at = reading[q].at
  BY <1>1, <1>2 DEF Reading
<1>7. \A q \in Requests : Reading(q) =>
        /\ TextOf(pin) \in held[q]
        /\ cached'.at = reading[q].at => cached'.text \in held[q]
  BY DEF PinInv
<1>8. \A q \in Requests : Reading(q) => \A o \in Requests :
        reading'[o].step = "remember" /\ reading'[o].at = reading[q].at => reading'[o].text \in held[q]
  BY <1>1, <1>2 DEF PinInv, TextOf
<1>9. PinIsCurrent'
  BY <1>1, <1>2 DEF PinInv, PinIsCurrent
<1>10. TextOf(pin)' = TextOf(pin)
  BY DEF TextOf
<1> QED BY <1>2, <1>3, <1>4, <1>5, <1>6, <1>7, <1>8, <1>9, <1>10 DEF PinInv

LEMMA ReadStep ==
    ASSUME PinInv, NEW r \in Requests, Look(r) \/ ReadText(r) \/ Remember(r)
    PROVE  PinInv'
<1> DEFINE was == reading[r]
<1>1. was \in Reads /\ was.at <= pinnings
  BY DEF PinInv
<1>2. CASE Look(r)
  <2> DEFINE e == IF cached.at = was.at THEN [was EXCEPT !.step = "done", !.text = cached.text]
                  ELSE [was EXCEPT !.step = "read"]
  <2>1. /\ Reading(r) /\ reading' = [reading EXCEPT ![r] = e]
        /\ UNCHANGED <<pin, pinnings, cached, held>>
    BY <1>2 DEF Look, Reaches, Reading
  <2>2. /\ e \in Reads /\ e.at = was.at /\ e.step \in {"done", "read"}
        /\ e.step = "done" => cached.at = was.at /\ e.text = cached.text
    BY <1>1 DEF PinInv, Reads
  <2>3. e.step = "done" => e.text \in held[r]
    BY <2>1, <2>2 DEF PinInv
  <2> HIDE DEF e
  <2>4. /\ e.step \notin {"remember", "failed"} /\ cached' = cached /\ e.at = reading[r].at
        /\ UNCHANGED <<pin, pinnings, held>> /\ e.at <= pinnings
    BY <1>1, <2>1, <2>2
  <2> QED BY <2>1, <2>2, <2>3, <2>4, ReadingMoves
<1>3. CASE ReadText(r)
  <2>1. Reading(r) /\ UNCHANGED <<pin, pinnings, cached, held>>
    BY <1>3 DEF ReadText, Reading
  <2>2. CASE pin = NoPin
    <3> DEFINE e == [step |-> "failed", at |-> 0, text |-> NoPin]
    <3>1. reading' = [reading EXCEPT ![r] = e] /\ NoPin \in held[r]
      BY <1>3, <2>1, <2>2 DEF ReadText, NoFile, Reaches, PinInv, TextOf
    <3>2. e \in Reads /\ e.at <= pinnings /\ e.step = "failed"
      BY DEF Reads, PinTexts, PinInv
    <3> HIDE DEF e
    <3>3. /\ e.step \notin {"look", "read", "remember", "done"} /\ cached' = cached
          /\ UNCHANGED <<pin, pinnings, held>> /\ Reading(r) /\ NoPin \in held[r]
      BY <2>1, <3>1, <3>2
    <3> QED BY <3>1, <3>2, <3>3, ReadingMoves
  <2>3. CASE pin # NoPin
    <3> DEFINE e == [was EXCEPT !.step = "remember", !.text = pin.text]
    <3>1. reading' = [reading EXCEPT ![r] = e]
      BY <1>3, <2>3 DEF ReadText, Reaches
    <3>2. e \in Reads /\ e.at = was.at /\ e.step = "remember" /\ e.text = pin.text
      BY <1>1, <2>3 DEF Reads, PinTexts, PinInv
    <3> HIDE DEF e
    <3>3. /\ e.step \notin {"done", "failed"} /\ cached' = cached /\ e.at = reading[r].at
          /\ UNCHANGED <<pin, pinnings, held>> /\ e.at <= pinnings
      BY <1>1, <2>1, <3>2
    <3> QED BY <2>1, <2>3, <3>1, <3>2, <3>3, ReadingMoves
  <2> QED BY <2>2, <2>3
<1>4. CASE Remember(r)
  <2> DEFINE e == [was EXCEPT !.step = "done"]
  <2>1. /\ Reading(r) /\ was.step = "remember" /\ reading' = [reading EXCEPT ![r] = e]
        /\ cached' = [text |-> was.text, at |-> was.at] /\ UNCHANGED <<pin, pinnings, held>>
    BY <1>4 DEF Remember, CacheKey, Reaches, Reading
  <2>2. e \in Reads /\ e.at = was.at /\ e.step = "done" /\ e.text = was.text
    BY <1>1 DEF Reads
  <2>3. was.text \in held[r]
    BY <2>1 DEF PinInv
  <2> HIDE DEF e
  <2> QED BY <1>1, <2>1, <2>2, <2>3, ReadingMoves
<1> QED BY <1>2, <1>3, <1>4

\* A request is told what the PIN file said while it was being read, for any
\* number of requests sharing the cache and of upgrades (PinFileCache.read).
THEOREM RequestsSeeTheFile == PinSpec => []PinIsCurrent
<1>1. PinInv /\ [PinNext]_pinVars => PinInv'
  <2> SUFFICES ASSUME PinInv, [PinNext]_pinVars PROVE PinInv'
    OBVIOUS
  <2>1. CASE PinNext
    BY <2>1, FileStep, StatStep, ReadStep DEF PinNext
  <2>2. CASE UNCHANGED pinVars
    BY <2>2 DEF pinVars, PinInv, Reading, PinIsCurrent, TextOf
  <2> QED BY <2>1, <2>2
<1>2. PinInv => PinIsCurrent
  BY DEF PinInv
<1> QED BY <1>1, <1>2, PinStart, PTL DEF PinSpec

-----------------------------------------------------------------------------
(* MirrorRestore.                                                            *)

Manifest == [path : Anywhere, at : Nat, size : Nat, usable : BOOLEAN]

MirrorTyped ==
    /\ manifests \in Seq(Manifest) /\ usable \subseteq Ids /\ winners \subseteq usable
    /\ staging \in [Anywhere -> Nat \cup {Unstaged}]
    /\ tool \in {"off", "copy"} /\ marker \in BOOLEAN

\* A file only grows, so its captures are in the order of their length, and there
\* are as many of them as the length of the newest.
FilesGrow ==
    /\ \A i, j \in Ids : i < j => /\ manifests[i].at <= manifests[j].at
                                  /\ manifests[i].path = manifests[j].path
                                       => manifests[i].size < manifests[j].size
    /\ \A i \in Ids : manifests[i].size <= Cardinality({k \in Ids : manifests[k].path = manifests[i].path})

\* The newest usable capture of its path.
IsNewest(i) == i \in usable /\ \A j \in Of(manifests[i].path, usable) : j <= i

\* What a run has staged: of every path the newest capture, unless it is still to
\* be copied, and nothing for a path that has none.
StagedSoFar ==
    /\ \A i \in winners : IsNewest(i)
    /\ \A p \in Anywhere : Of(p, usable) = {} => staging[p] = Unstaged
    /\ \A i \in usable : IsNewest(i) => i \in winners \/ staging[manifests[i].path] = manifests[i].size

MirrorInv ==
    /\ MirrorTyped /\ FilesGrow
    /\ staged_toml.there => ListsAreRewritten
    /\ tool = "copy" \/ marker => StagedSoFar
    /\ tool = "off" => winners = {}
    /\ marker => tool = "off" /\ staged_toml.there

LEMMA MirrorStart == MirrorInit => MirrorInv
<1> SUFFICES ASSUME MirrorInit PROVE MirrorInv
  OBVIOUS
<1>1. manifests = << >> /\ Ids = {} /\ manifests \in Seq(Manifest)
  BY EmptySeq DEF MirrorInit, Ids
<1>2. staging \in [Anywhere -> Nat \cup {Unstaged}]
  BY DEF MirrorInit, Nothing
<1> QED BY <1>1, <1>2 DEF MirrorInit, MirrorInv, MirrorTyped, FilesGrow, NoToml

LEMMA ManifestFacts ==
    ASSUME MirrorInv
    PROVE  /\ manifests \in Seq(Manifest) /\ Len(manifests) \in Nat /\ Ids = 1..Len(manifests)
           /\ Ids \subseteq Nat
           /\ \A i \in Ids : /\ manifests[i] \in Manifest
                              /\ manifests[i].path \in Anywhere
                              /\ manifests[i].at \in Nat /\ manifests[i].size \in Nat
<1>1. manifests \in Seq(Manifest) /\ Len(manifests) \in Nat /\ Ids = 1..Len(manifests)
  BY LenProperties DEF MirrorInv, MirrorTyped, Ids
<1>2. \A i \in Ids : manifests[i] \in Manifest
  BY <1>1, ElementOfSeq
<1>3. \A m \in Manifest : m.path \in Anywhere /\ m.at \in Nat /\ m.size \in Nat
  BY DEF Manifest
<1> QED BY <1>1, <1>2, <1>3

\* New captures, and captures that go bad, leave a staging what it is.
LEMMA CapturesKept ==
    ASSUME MirrorInv, manifests' \in Seq(Manifest), FilesGrow', Ids \subseteq Ids',
           \A i \in Ids : manifests'[i].path = manifests[i].path /\ manifests'[i].size = manifests[i].size,
           UNCHANGED <<staging, staged_toml, winners, tool, marker, usable>>
    PROVE  MirrorInv'
<1>1. MirrorTyped'
  BY DEF MirrorInv, MirrorTyped
<1>2. \A p \in Anywhere : Of(p, usable)' = Of(p, usable)
  BY DEF Of, MirrorInv, MirrorTyped
<1>3. \A i \in usable : manifests'[i].path = manifests[i].path /\ manifests'[i].size = manifests[i].size
                         /\ manifests[i].path \in Anywhere
  BY ManifestFacts DEF MirrorInv, MirrorTyped
<1>4. \A i \in usable : IsNewest(i)' <=> IsNewest(i)
  BY <1>2, <1>3 DEF IsNewest
<1>5. StagedSoFar => StagedSoFar'
  BY <1>2, <1>3, <1>4 DEF StagedSoFar, MirrorInv, MirrorTyped
<1> QED BY <1>1, <1>5 DEF MirrorInv, ListsAreRewritten

LEMMA CaptureStep ==
    ASSUME MirrorInv, NEW p \in Anywhere, Capture(p)
    PROVE  MirrorInv'
<1> DEFINE mine == {i \in Ids : manifests[i].path = p}
<1> DEFINE n == Len(manifests) + 1
<1>1. manifests \in Seq(Manifest) /\ Len(manifests) \in Nat /\ Ids = 1..Len(manifests)
      /\ \A i \in Ids : manifests[i] \in Manifest
  BY ManifestFacts
<1>2. IsFiniteSet(Ids) /\ \A S \in SUBSET Ids : IsFiniteSet(S) /\ Cardinality(S) \in Nat
  <2>1. IsFiniteSet(Ids)
    BY <1>1, FS_Interval
  <2> QED BY <2>1, FS_Subset, FS_CardinalityType
<1>3. PICK t : /\ t \in {IF manifests = << >> THEN 1 ELSE Last(manifests).at,
                         (IF manifests = << >> THEN 1 ELSE Last(manifests).at) + 1}
               /\ manifests' = Append(manifests, [path |-> p, at |-> t, size |-> Cardinality(mine) + 1,
                                                  usable |-> TRUE])
  BY DEF Capture
<1>4. t \in Nat /\ \A i \in Ids : manifests[i].at <= t
  <2>1. CASE manifests = << >>
    BY <1>1, <1>3, <2>1
  <2>2. CASE manifests # << >>
    <3>1. Len(manifests) \in Ids /\ Last(manifests) = manifests[Len(manifests)]
      BY <1>1, <2>2, EmptySeq DEF Last
    <3>2. \A i \in Ids : manifests[i].at \in Nat /\ manifests[i].at <= Last(manifests).at
      BY <1>1, <3>1 DEF MirrorInv, FilesGrow, Manifest
    <3>3. Last(manifests).at \in Nat
      BY <1>1, <3>1 DEF Manifest
    <3> QED BY <1>3, <2>2, <3>2, <3>3
  <2> QED BY <2>1, <2>2
<1> DEFINE m == [path |-> p, at |-> t, size |-> Cardinality(mine) + 1, usable |-> TRUE]
<1>5. Cardinality(mine) \in Nat /\ IsFiniteSet(mine)
  BY <1>2
<1>6. m \in Manifest /\ m.path = p /\ m.at = t /\ m.size = Cardinality(mine) + 1
  BY <1>4, <1>5 DEF Manifest
<1> HIDE DEF m
<1>7. /\ manifests' \in Seq(Manifest) /\ Ids' = 1..n /\ n \notin Ids
      /\ \A i \in Ids : i \in Ids' /\ i < n /\ manifests'[i] = manifests[i]
      /\ manifests'[n] = m
  BY <1>1, <1>3, <1>6, AppendProperties DEF Ids, m
<1>8. \A i \in Ids' : i \in Ids \/ i = n
  BY <1>1, <1>7
<1>9. \A q \in Anywhere : {k \in Ids' : manifests'[k].path = q}
                           = IF q = p THEN mine \cup {n} ELSE {k \in Ids : manifests[k].path = q}
  BY <1>6, <1>7, <1>8
<1>10. n \notin mine /\ Cardinality(mine \cup {n}) = Cardinality(mine) + 1
  BY <1>5, <1>7, FS_AddElement
<1>11. \A i \in Ids : manifests[i].size \in Nat
         /\ manifests[i].size <= Cardinality({k \in Ids : manifests[k].path = manifests[i].path})
  BY <1>1 DEF MirrorInv, FilesGrow, Manifest
<1> HIDE DEF n
<1>12. \A i \in Ids' : manifests'[i].size
                        <= Cardinality({k \in Ids' : manifests'[k].path = manifests'[i].path})
  <2> SUFFICES ASSUME NEW i \in Ids'
               PROVE  manifests'[i].size
                        <= Cardinality({k \in Ids' : manifests'[k].path = manifests'[i].path})
    OBVIOUS
  <2>1. CASE i = n
    <3>1. manifests'[i].path = p /\ manifests'[i].size = Cardinality(mine) + 1
      BY <1>6, <1>7, <2>1
    <3>2. {k \in Ids' : manifests'[k].path = manifests'[i].path} = mine \cup {n}
      BY <1>9, <3>1
    <3>3. Cardinality({k \in Ids' : manifests'[k].path = manifests'[i].path}) = Cardinality(mine) + 1
      BY <1>10, <3>2, Zenon
    <3> HIDE DEF mine
    <3> QED BY <1>5, <3>1, <3>3
  <2>2. CASE i \in Ids
    <3>1. manifests'[i] = manifests[i] /\ manifests[i].path \in Anywhere
      BY <1>1, <1>7, <2>2 DEF Manifest
    <3>2. CASE manifests[i].path = p
      <4>1. {k \in Ids' : manifests'[k].path = manifests'[i].path} = mine \cup {n}
        BY <1>9, <3>1, <3>2
      <4>2. manifests[i].size \in Nat /\ manifests[i].size <= Cardinality(mine)
        BY <1>11, <2>2, <3>2
      <4>3. Cardinality({k \in Ids' : manifests'[k].path = manifests'[i].path}) = Cardinality(mine) + 1
        BY <1>10, <4>1, Zenon
      <4> HIDE DEF mine
      <4> QED BY <1>5, <3>1, <4>2, <4>3
    <3>3. CASE manifests[i].path # p
      BY <1>9, <1>11, <2>2, <3>1, <3>3
    <3> QED BY <3>2, <3>3
  <2> QED BY <1>8, <2>1, <2>2
<1>13. \A i, j \in Ids' : i < j => /\ manifests'[i].at <= manifests'[j].at
                                   /\ manifests'[i].path = manifests'[j].path
                                        => manifests'[i].size < manifests'[j].size
  <2> SUFFICES ASSUME NEW i \in Ids', NEW j \in Ids', i < j
               PROVE  /\ manifests'[i].at <= manifests'[j].at
                      /\ manifests'[i].path = manifests'[j].path => manifests'[i].size < manifests'[j].size
    OBVIOUS
  <2>1. i \in Ids
    BY <1>1, <1>7, <1>8 DEF n
  <2>2. CASE j \in Ids
    BY <1>7, <2>1, <2>2 DEF MirrorInv, FilesGrow
  <2>3. CASE j = n
    <3>1. manifests'[i] = manifests[i] /\ manifests'[j] = m
      BY <1>7, <2>1, <2>3
    <3>2. manifests[i].path = p => manifests[i].size <= Cardinality(mine)
      BY <1>11, <2>1
    <3> QED BY <1>4, <1>5, <1>6, <1>11, <2>1, <3>1, <3>2
  <2> QED BY <1>8, <2>2, <2>3
<1>14. FilesGrow'
  BY <1>12, <1>13 DEF FilesGrow
<1>15. UNCHANGED <<staging, staged_toml, winners, tool, marker, usable>>
  BY DEF Capture
<1> QED BY <1>7, <1>14, <1>15, CapturesKept

LEMMA SpoilStep ==
    ASSUME MirrorInv, Spoil
    PROVE  MirrorInv'
<1>1. UNCHANGED <<staging, staged_toml, winners, tool, marker, usable>>
  BY DEF Spoil
<1>2. manifests \in Seq(Manifest) /\ Ids = 1..Len(manifests) /\ Len(manifests) \in Nat
      /\ \A i \in Ids : manifests[i] \in Manifest
  BY ManifestFacts
<1>3. CASE manifests' = manifests
  BY <1>1, <1>2, <1>3, CapturesKept DEF MirrorInv, FilesGrow, Ids
<1>4. ASSUME NEW i \in Ids, manifests' = [manifests EXCEPT ![i].usable = FALSE] PROVE MirrorInv'
  <2> DEFINE e == [manifests[i] EXCEPT !.usable = FALSE]
  <2>1. e \in Manifest /\ e.path = manifests[i].path /\ e.size = manifests[i].size /\ e.at = manifests[i].at
    BY <1>2 DEF Manifest
  <2>2. manifests' = [manifests EXCEPT ![i] = e]
    BY <1>4
  <2> HIDE DEF e
  <2>3. manifests' \in Seq(Manifest) /\ Ids' = Ids
    BY <1>2, <2>1, <2>2, ExceptSeq DEF Ids
  <2>4. \A j \in Ids : /\ manifests'[j].path = manifests[j].path /\ manifests'[j].size = manifests[j].size
                       /\ manifests'[j].at = manifests[j].at
    BY <1>2, <2>1, <2>2
  <2>5. \A j \in Ids : {k \in Ids : manifests'[k].path = manifests'[j].path}
                        = {k \in Ids : manifests[k].path = manifests[j].path}
    BY <2>4
  <2>6. FilesGrow
    BY DEF MirrorInv
  <2>7. FilesGrow'
    BY <2>3, <2>4, <2>5, <2>6, SMTT(30) DEF FilesGrow
  <2> QED BY <1>1, <2>3, <2>4, <2>7, CapturesKept
<1> QED BY <1>3, <1>4 DEF Spoil

\* winner_sort_key puts the newest capture of a path first.
LEMMA WinnersAreNewest ==
    ASSUME MirrorInv, NEW i \in Ids
    PROVE  i \in Winners <=> /\ is_valid_manifest(i)
                             /\ \A j \in Ids : /\ manifests[j].path = manifests[i].path
                                               /\ is_valid_manifest(j)
                                               => j <= i
<1>1. Ids \subseteq Nat /\ \A j \in Ids : manifests[j].at \in Nat /\ manifests[j].size \in Nat
  BY ManifestFacts
<1>2. \A j \in Ids \ {i} : manifests[j].path = manifests[i].path => (winner_sort_key(i, j) <=> j <= i)
  <2> SUFFICES ASSUME NEW j \in Ids \ {i}, manifests[j].path = manifests[i].path
               PROVE  winner_sort_key(i, j) <=> j <= i
    OBVIOUS
  <2>1. CASE i < j
    <3>1. manifests[i].at <= manifests[j].at /\ manifests[i].size < manifests[j].size
      BY <2>1 DEF MirrorInv, FilesGrow
    <3>2. manifests[i].at \in Nat /\ manifests[j].at \in Nat /\ manifests[i].size \in Nat /\ manifests[j].size \in Nat
      BY <1>1
    <3>3. i \in Nat /\ j \in Nat /\ ~ (j <= i)
      BY <1>1, <2>1
    <3>4. ~ winner_sort_key(i, j)
      BY <3>1, <3>2 DEF winner_sort_key
    <3> QED BY <3>3, <3>4
  <2>2. CASE j < i
    <3>1. manifests[j].at <= manifests[i].at /\ manifests[j].size < manifests[i].size
      BY <2>2 DEF MirrorInv, FilesGrow
    <3>2. manifests[i].at \in Nat /\ manifests[j].at \in Nat /\ manifests[i].size \in Nat /\ manifests[j].size \in Nat
      BY <1>1
    <3>3. i \in Nat /\ j \in Nat /\ j <= i
      BY <1>1, <2>2
    <3>4. winner_sort_key(i, j)
      BY <3>1, <3>2 DEF winner_sort_key
    <3> QED BY <3>3, <3>4
  <2>3. i \in Nat /\ j \in Nat /\ i # j
    BY <1>1
  <2>4. i < j \/ j < i
    BY <2>3
  <2> QED BY <2>1, <2>2, <2>4
<1>3. i <= i
  BY <1>1
<1> QED BY <1>2, <1>3 DEF Winners

LEMMA StartRestoreStep ==
    ASSUME MirrorInv, NEW force \in BOOLEAN, StartRestore(force)
    PROVE  MirrorInv'
<1>1. /\ staging' = Nothing /\ staged_toml' = NoToml /\ winners' = Winners
      /\ usable' = {i \in Ids : is_valid_manifest(i)} /\ tool' = "copy" /\ marker' = FALSE
      /\ UNCHANGED manifests /\ Ids' = Ids
  BY DEF StartRestore, Ids
<1>2. Winners \subseteq usable' /\ usable' \subseteq Ids
  BY <1>1 DEF Winners
<1>3. \A i \in usable' : i \in Winners <=> \A j \in Of(manifests[i].path, usable') : j <= i
  BY <1>1, <1>2, WinnersAreNewest DEF Of
<1>4. \A i \in usable' : IsNewest(i)' <=> i \in winners'
  BY <1>1, <1>3 DEF IsNewest, Of
<1>5. MirrorTyped'
  BY <1>1, <1>2 DEF MirrorInv, MirrorTyped, Nothing
<1>6. StagedSoFar'
  BY <1>1, <1>2, <1>4 DEF StagedSoFar, Nothing
<1>7. FilesGrow'
  BY <1>1 DEF MirrorInv, FilesGrow
<1> QED BY <1>1, <1>5, <1>6, <1>7 DEF MirrorInv, NoToml

\* A run that ends, without what it had to copy and without a marker.
LEMMA RunEnds ==
    ASSUME MirrorInv, tool = "copy", Ends, staging' \in [Anywhere -> Nat \cup {Unstaged}],
           UNCHANGED <<manifests, usable, marker, staged_toml>>
    PROVE  MirrorInv'
<1>1. ~ marker /\ tool' = "off" /\ winners' = {} /\ Ids' = Ids
  BY DEF MirrorInv, MirrorTyped, Ends, Ids
<1>2. MirrorTyped'
  BY <1>1 DEF MirrorInv, MirrorTyped
<1>3. FilesGrow'
  BY <1>1 DEF MirrorInv, FilesGrow
<1> QED BY <1>1, <1>2, <1>3 DEF MirrorInv, ListsAreRewritten

LEMMA CopyStep ==
    ASSUME MirrorInv, CopyWinner
    PROVE  MirrorInv'
<1>1. PICK i \in winners :
        LET p == manifests[i].path
        IN  IF blob[i] = "gone" \/ ~resolve_target(p) THEN Ends /\ UNCHANGED staging
            ELSE /\ staging' = [staging EXCEPT ![p] = IF blob[i] = "intact" THEN manifests[i].size ELSE 0]
                 /\ IF blob[i] = "intact" THEN winners' = winners \ {i} /\ UNCHANGED tool ELSE Ends
  BY DEF CopyWinner
<1>2. tool = "copy" /\ UNCHANGED <<manifests, usable, marker, staged_toml>>
  BY DEF CopyWinner
<1>3. i \in usable /\ i \in Ids /\ manifests[i].path \in Anywhere /\ manifests[i].size \in Nat
      /\ \A j \in usable : manifests[j].path \in Anywhere
  BY ManifestFacts DEF MirrorInv, MirrorTyped
<1>4. staging' \in [Anywhere -> Nat \cup {Unstaged}]
  BY <1>1, <1>3 DEF MirrorInv, MirrorTyped
<1>5. CASE Ends
  BY <1>2, <1>4, <1>5, RunEnds
<1>6. CASE /\ staging' = [staging EXCEPT ![manifests[i].path] = manifests[i].size]
           /\ winners' = winners \ {i} /\ tool' = tool
  <2>1. StagedSoFar /\ ~ marker
    BY <1>2 DEF MirrorInv, MirrorTyped
  <2>2. Ids' = Ids /\ \A j \in usable : IsNewest(j)' <=> IsNewest(j)
    BY <1>2 DEF IsNewest, Of, Ids
  <2>3. \A p \in Anywhere : Of(p, usable)' = Of(p, usable)
    BY <1>2 DEF Of
  <2>4. IsNewest(i)
    BY <2>1 DEF StagedSoFar
  <2>5. \A j \in usable : IsNewest(j) /\ manifests[j].path = manifests[i].path => j = i
    BY <1>3, <2>4 DEF IsNewest, Of, Ids, MirrorInv, MirrorTyped
  <2>6. \A j \in usable : IsNewest(j) => j \in winners' \/ staging'[manifests[j].path] = manifests[j].size
    BY <1>3, <1>6, <2>1, <2>5 DEF StagedSoFar, MirrorInv, MirrorTyped
  <2>7. \A p \in Anywhere : Of(p, usable) = {} => staging'[p] = Unstaged
    BY <1>3, <1>6, <2>1 DEF StagedSoFar, Of, MirrorInv, MirrorTyped
  <2>8. StagedSoFar'
    BY <1>2, <1>6, <2>1, <2>2, <2>3, <2>6, <2>7 DEF StagedSoFar, MirrorInv, MirrorTyped
  <2>9. MirrorTyped'
    BY <1>2, <1>4, <1>6, <2>2 DEF MirrorInv, MirrorTyped
  <2>10. FilesGrow'
    BY <1>2, <2>2 DEF MirrorInv, FilesGrow
  <2> QED BY <1>2, <1>6, <2>8, <2>9, <2>10 DEF MirrorInv, ListsAreRewritten
<1> QED BY <1>1, <1>5, <1>6

LEMMA FinishStep ==
    ASSUME MirrorInv, FinishRestore
    PROVE  MirrorInv'
<1>1. /\ tool = "copy" /\ winners = {} /\ tool' = "off" /\ winners' = {}
      /\ marker' \in BOOLEAN /\ (marker' => staged_toml'.there)
      /\ UNCHANGED <<manifests, staging, usable>> /\ Ids' = Ids
  BY DEF FinishRestore, Ends, lost_paths, Ids
<1>2. PICK prod \in SourcesToml : generate_sources_toml(prod)
  BY DEF FinishRestore
<1>3. \/ staged_toml' = [there |-> TRUE, form |-> prod.form, entries |-> rewrite_paths(prod)]
      \/ staged_toml' = staged_toml
  BY <1>2 DEF generate_sources_toml
<1>4. prod.form = "list" => "under" \notin rewrite_paths(prod)
  BY DEF rewrite_paths
<1>5. staged_toml'.there => ListsAreRewritten'
  BY <1>3, <1>4 DEF MirrorInv, ListsAreRewritten
<1>6. StagedSoFar'
  BY <1>1 DEF MirrorInv, StagedSoFar, IsNewest, Of
<1>7. FilesGrow'
  BY <1>1 DEF MirrorInv, FilesGrow
<1> QED BY <1>1, <1>5, <1>6, <1>7 DEF MirrorInv, MirrorTyped

LEMMA MirrorInvHolds == MirrorSpec => []MirrorInv
<1>1. MirrorInv /\ [MirrorNext]_mirrorVars => MirrorInv'
  <2> SUFFICES ASSUME MirrorInv, [MirrorNext]_mirrorVars PROVE MirrorInv'
    OBVIOUS
  <2>1. ASSUME KillRestore PROVE MirrorInv'
    BY <2>1, RunEnds DEF KillRestore, MirrorInv, MirrorTyped
  <2>2. ASSUME UNCHANGED mirrorVars PROVE MirrorInv'
    BY <2>2 DEF mirrorVars, MirrorInv, MirrorTyped, FilesGrow, StagedSoFar, IsNewest, Of, Ids, ListsAreRewritten
  <2> QED BY <2>1, <2>2, CaptureStep, StartRestoreStep, SpoilStep, CopyStep, FinishStep DEF MirrorNext
<1> QED BY <1>1, MirrorStart, PTL DEF MirrorSpec

\* The marker means that staging holds the newest usable capture of every path
\* and nothing else, and in the lists of its sources.toml nothing under the
\* production home, for any number of captures, damages and runs
\* (restore-from-mirror.py).
THEOREM MarkedStagingIsWhole == MirrorSpec => []StagingIsWhole
<1>1. MirrorInv => StagingIsWhole
  <2> SUFFICES ASSUME MirrorInv, marker, NEW p \in Anywhere, Of(p, usable) # {}
               PROVE  staging[p] = manifests[CHOOSE i \in Of(p, usable) :
                                               \A j \in Of(p, usable) : j <= i].size
    BY DEF StagingIsWhole, MarkedIsNewest, MirrorInv, StagedSoFar
  <2> DEFINE g == CHOOSE i \in Of(p, usable) : \A j \in Of(p, usable) : j <= i
  <2>1. Of(p, usable) \in SUBSET Nat /\ Len(manifests) \in Nat
        /\ \A j \in Of(p, usable) : j <= Len(manifests)
    BY LenProperties DEF MirrorInv, MirrorTyped, Ids, Of
  <2>2. g \in Of(p, usable) /\ \A j \in Of(p, usable) : j <= g
    BY <2>1, ChosenGreatest
  <2> HIDE DEF g
  <2>3. g \in usable /\ manifests[g].path = p /\ IsNewest(g)
    BY <2>2 DEF Of, IsNewest
  <2> QED BY <2>3 DEF MirrorInv, StagedSoFar, g
<1> QED BY <1>1, MirrorInvHolds, PTL

-----------------------------------------------------------------------------
(* CorpusFeed.                                                               *)

FeedKeys == Nat \X Nat

Items == [conv : Convs, key : FeedKeys]

Writers == [at : {"off", "pick", "link", "guard", "replace"},
            conv : Convs \cup {NoText}, text : Transcripts \cup {NoText}]

FeedTyped ==
    /\ turns \in [Convs -> Nat] /\ last_ts \in [Convs -> Nat] /\ rowid \in Numberings
    /\ named \in [Convs -> Names] /\ enough \in [Convs -> Nat]
    /\ corpus \in [Names -> Transcripts \cup {Foreign, NoText}]
    /\ cursor \in FeedKeys \cup {NoKey} /\ passed \in FeedKeys \cup {NoKey}
    /\ writer \in [{"feed", "one"} -> Writers]
    /\ batch \subseteq Items
    /\ broke \in BOOLEAN

Writing(p) == writer[p].at \in {"link", "guard", "replace"}

\* A text is of the conversation it is written for, which the file is of as well
\* when it is replaced; run_feed is at the first item of what it has left.
FeedStands ==
    /\ \A p \in {"feed", "one"} :
         /\ Writing(p) => /\ writer[p].conv \in Convs /\ writer[p].text \in Transcripts
                          /\ writer[p].text.of = writer[p].conv
         /\ writer[p].at = "replace" => /\ corpus[Target(p)] \in Transcripts
                                        /\ corpus[Target(p)].of = writer[p].conv
    /\ writer["one"].at = "pick" => writer["one"].conv \in Convs
    /\ writer["feed"].at = "off" => batch = {} /\ passed = NoKey
    /\ Writing("feed") => batch # {} /\ writer["feed"].conv = First(batch).conv
    /\ \A i \in batch : i.key[2] = rowid[i.conv]

Owed(c) == c \notin unowed /\ turns[c] >= enough[c] /\ turns[c] >= MinTurns

Written(c) == corpus[named[c]] = Render(c)

Pending(c) == [conv |-> c, key |-> Key(c)] \in batch

Reached(c) == \E l \in {cursor, passed} : l # NoKey /\ ~After(Key(c), l)

\* What the cursor has reached, or would reach if it were moved now, is on disk;
\* so is what it may yet reach in this run, or it is still to be looked at, unless
\* an item has failed. The text being written is the newest, if it is owed.
NothingLost ==
    \A c \in Convs :
        /\ Owed(c) => /\ Reached(c) => Written(c)
                      /\ ~broke /\ ~Beyond(Key(c)) => Written(c) \/ Pending(c)
        /\ Writing("feed") /\ writer["feed"].conv = c /\ c \notin unowed /\ ~Beyond(Key(c)) =>
              writer["feed"].text = Render(c)

FeedInv == FeedTyped /\ FeedStands /\ NothingLost

LEMMA KeysAreOrdered ==
    ASSUME NEW k \in FeedKeys, NEW l \in FeedKeys, NEW m \in FeedKeys \cup {NoKey}
    PROVE  /\ ~After(k, k) /\ After(k, NoKey)
           /\ After(k, l) \/ After(l, k) \/ k = l
           /\ After(k, l) => ~After(l, k)
           /\ After(k, l) /\ After(l, m) => After(k, m)
<1>1. NoKey \notin FeedKeys
  BY LayoutsAssumption DEF FeedKeys
<1>2. /\ k = <<k[1], k[2]>> /\ k[1] \in Nat /\ k[2] \in Nat
      /\ l = <<l[1], l[2]>> /\ l[1] \in Nat /\ l[2] \in Nat
  BY DEF FeedKeys
<1>3. m = NoKey \/ (m[1] \in Nat /\ m[2] \in Nat)
  BY DEF FeedKeys
<1>4. k # NoKey /\ l # NoKey
  BY <1>1
<1> QED BY <1>2, <1>3, <1>4 DEF After

\* The first of some items is the one with the least key.
LEMMA FirstItem ==
    ASSUME NEW S \in SUBSET Items, S # {}
    PROVE  First(S) \in S /\ \A j \in S : ~After(First(S).key, j.key)
<1> DEFINE T == {i.key[1] : i \in S}
<1>1. \A i \in S : i.key \in FeedKeys /\ i.key[1] \in Nat /\ i.key[2] \in Nat
  BY DEF Items, FeedKeys
<1>2. T \in SUBSET Nat /\ T # {}
  BY <1>1
<1> HIDE DEF T
<1>3. PICK m \in T : \A n \in T : m <= n
  BY <1>2, LeastNumber
<1> DEFINE U == {i.key[2] : i \in {j \in S : j.key[1] = m}}
<1>4. U \in SUBSET Nat /\ U # {}
  BY <1>1, <1>3 DEF T
<1> HIDE DEF U
<1>5. PICK u \in U : \A n \in U : u <= n
  BY <1>4, LeastNumber
<1>6. PICK i \in S : i.key[1] = m /\ i.key[2] = u
  BY <1>5 DEF U
<1>7. ASSUME NEW j \in S PROVE ~After(i.key, j.key)
  <2>1. m <= j.key[1] /\ (j.key[1] = m => u <= j.key[2])
    BY <1>3, <1>5 DEF T, U
  <2>2. j.key # NoKey
    BY <1>1, LayoutsAssumption DEF FeedKeys
  <2> QED BY <1>1, <1>6, <2>1, <2>2 DEF After
<1> QED BY <1>6, <1>7, Zenon DEF First

LEMMA KeyTyped ==
    ASSUME FeedTyped, NEW c \in Convs
    PROVE  Key(c) \in FeedKeys /\ Key(c)[2] = rowid[c] /\ Render(c) \in Transcripts /\ Render(c).of = c
BY DEF FeedTyped, Key, FeedKeys, Numberings, Names, Render, Transcripts

LEMMA NamesOfFiles ==
    /\ Foreign \notin Transcripts /\ NoText \notin Transcripts /\ NoText \notin Convs /\ Foreign \notin Convs
    /\ Idle \in Writers /\ Idle.at = "off" /\ NoKey \notin FeedKeys
BY LayoutsAssumption DEF Idle, Writers, FeedKeys

LEMMA WriterMoved ==
    ASSUME FeedTyped, NEW p \in {"feed", "one"}, NEW x \in Writers, writer' = [writer EXCEPT ![p] = x]
    PROVE  /\ writer' \in [{"feed", "one"} -> Writers] /\ writer'[p] = x
           /\ \A q \in {"feed", "one"} \ {p} : writer'[q] = writer[q]
BY DEF FeedTyped

LEMMA FeedBegins == FeedInit => FeedInv
<1> SUFFICES ASSUME FeedInit PROVE FeedInv
  OBVIOUS
<1>1. FeedTyped
  <2>1. named \in [Convs -> Names] /\ enough \in [Convs -> Nat]
        /\ corpus \in [Names -> Transcripts \cup {Foreign, NoText}]
    BY LayoutsAssumption DEF FeedInit
  <2>2. writer \in [{"feed", "one"} -> Writers]
    BY NamesOfFiles DEF FeedInit
  <2> QED BY <2>1, <2>2 DEF FeedInit, FeedTyped
<1>2. writer["feed"] = Idle /\ writer["one"] = Idle /\ batch = {} /\ passed = NoKey /\ cursor = NoKey
  BY DEF FeedInit
<1>3. FeedStands
  BY <1>2, NamesOfFiles DEF FeedStands, Writing
<1>4. NothingLost
  BY <1>1, <1>2, NamesOfFiles, KeyTyped DEF NothingLost, Writing, Reached, Beyond, After
<1> QED BY <1>1, <1>3, <1>4 DEF FeedInv

\* A step of one export that changes nothing but where it stands.
LEMMA ExportMoves ==
    ASSUME FeedInv, NEW p \in {"feed", "one"}, NEW x \in Writers, writer' = [writer EXCEPT ![p] = x],
           UNCHANGED <<archive, layout, corpus, cursor, batch, passed, broke, unowed>>,
           x.at \in {"link", "guard", "replace"} =>
               x.conv \in Convs /\ x.text \in Transcripts /\ x.text.of = x.conv,
           x.at = "replace" => corpus[named[x.conv]] \in Transcripts /\ corpus[named[x.conv]].of = x.conv,
           p = "one" /\ x.at = "pick" => x.conv \in Convs,
           p = "feed" => x.at # "off",
           p = "feed" /\ x.at \in {"link", "guard", "replace"} =>
               /\ batch # {} /\ x.conv = First(batch).conv
               /\ x.conv \notin unowed /\ ~Beyond(Key(x.conv)) => x.text = Render(x.conv)
    PROVE  FeedInv'
<1>1. /\ writer' \in [{"feed", "one"} -> Writers] /\ writer'[p] = x
      /\ \A q \in {"feed", "one"} \ {p} : writer'[q] = writer[q]
  BY WriterMoved DEF FeedInv
<1>2. FeedTyped'
  BY <1>1 DEF FeedInv, FeedTyped, archive, layout
<1>3. FeedStands'
  BY <1>1 DEF FeedInv, FeedStands, Writing, Target, transcript_filename, archive, layout
<1>4. ASSUME NEW c \in Convs
      PROVE  /\ Owed(c)' <=> Owed(c)
             /\ Reached(c)' <=> Reached(c)
             /\ Written(c)' <=> Written(c)
             /\ Pending(c)' <=> Pending(c)
             /\ Beyond(Key(c))' <=> Beyond(Key(c))
             /\ Render(c)' = Render(c)
  BY DEF Owed, Reached, Written, Pending, Beyond, Key, Render, After, archive, layout
<1>5. NothingLost'
  BY <1>1, <1>4, Zenon DEF FeedInv, NothingLost, Writing, FeedStands, FeedTyped, archive, layout
<1> QED BY <1>2, <1>3, <1>5 DEF FeedInv

\* The item run_feed was at is done: what it owed is on disk if it went well, and
\* no other file has changed.
LEMMA ItemDone ==
    ASSUME FeedInv, NEW ok \in BOOLEAN, batch # {}, Settle("feed", ok),
           UNCHANGED <<archive, layout, cursor>>, unowed' = unowed,
           corpus' \in [Names -> Transcripts \cup {Foreign, NoText}],
           \A c \in Convs : Owed(c) /\ ~Beyond(Key(c)) /\ Written(c) => Written(c)',
           \A c \in Convs :
               /\ ok /\ c = First(batch).conv /\ Key(c) = First(batch).key
               /\ Owed(c) /\ ~Beyond(Key(c))
               => Written(c)',
           writer["one"].at = "replace" => /\ corpus'[named[writer["one"].conv]] \in Transcripts
                                           /\ corpus'[named[writer["one"].conv]].of = writer["one"].conv
    PROVE  FeedInv'
<1> DEFINE x == [Idle EXCEPT !.at = "pick"]
           f == First(batch)
<1>1. /\ batch' = batch \ {f} /\ broke' = (broke \/ ~ok)
      /\ passed' = IF ok /\ ~broke THEN f.key ELSE passed
      /\ writer' = [writer EXCEPT !["feed"] = x]
  BY DEF Settle, Advance
<1>2. x \in Writers /\ x.at = "pick"
  BY DEF Writers, Idle
<1> HIDE DEF x
<1>3. /\ writer' \in [{"feed", "one"} -> Writers] /\ writer'["feed"] = x
      /\ writer'["one"] = writer["one"]
  BY <1>1, <1>2, WriterMoved DEF FeedInv
<1>4. f \in batch /\ batch \subseteq Items /\ \A j \in batch : ~After(f.key, j.key)
  BY FirstItem DEF FeedInv, FeedTyped
<1> HIDE DEF f
<1>5. f.key \in FeedKeys /\ f.conv \in Convs /\ f = [conv |-> f.conv, key |-> f.key]
  BY <1>4 DEF Items
<1>6. FeedTyped'
  <2>1. passed' \in FeedKeys \cup {NoKey} /\ broke' \in BOOLEAN /\ batch' \subseteq Items
    BY <1>1, <1>4, <1>5 DEF FeedInv, FeedTyped
  <2> QED BY <1>3, <2>1 DEF FeedInv, FeedTyped, archive, layout
<1>7. FeedStands'
  BY <1>1, <1>2, <1>3 DEF FeedInv, FeedStands, Writing, Target, transcript_filename, archive, layout
<1>8. ASSUME NEW c \in Convs, Owed(c)'
      PROVE  /\ Reached(c)' => Written(c)'
             /\ ~broke' /\ ~Beyond(Key(c))' => Written(c)' \/ Pending(c)'
  <2>1. Owed(c) /\ Key(c)' = Key(c) /\ Key(c) \in FeedKeys /\ Key(c)[2] = rowid[c]
    BY <1>8, KeyTyped DEF Owed, Key, archive, layout, FeedInv
  <2>2. ~Beyond(Key(c))' => ~Beyond(Key(c))
    BY <1>1, <1>4, <2>1 DEF Beyond
  <2>3. Reached(c)' => ~Beyond(Key(c))
    <3>1. Reached(c)' => ~Beyond(Key(c))'
      BY DEF Reached, Beyond
    <3> QED BY <2>2, <3>1
  <2>4. CASE Written(c) /\ ~Beyond(Key(c))
    BY <2>1, <2>4, Zenon
  <2>5. CASE ~Written(c) /\ ~Beyond(Key(c))
    <3>1. ~broke => Pending(c)
      BY <2>1, <2>5 DEF FeedInv, NothingLost
    <3>2. ~Reached(c)
      BY <2>1, <2>5 DEF FeedInv, NothingLost
    <3>3. CASE ~broke /\ Key(c) = f.key
      <4>1. \A i \in batch : i.key[2] = rowid[i.conv]
        BY DEF FeedInv, FeedStands
      <4>2. c = f.conv
        BY <1>4, <1>5, <2>1, <3>3, <4>1 DEF FeedInv, FeedTyped, Numberings
      <4>3. ok => Written(c)'
        BY <2>1, <2>5, <3>3, <4>2 DEF f
      <4>4. ~ok => broke' /\ passed' = passed
        BY <1>1
      <4>5. ~ok => ~Reached(c)'
        BY <2>1, <3>2, <4>4 DEF Reached
      <4> QED BY <4>3, <4>4, <4>5
    <3>4. CASE ~broke /\ Key(c) # f.key
      <4>1. Pending(c)'
        BY <1>1, <2>1, <3>1, <3>4 DEF Pending
      <4>2. After(Key(c), f.key)
        BY <1>4, <1>5, <2>1, <3>1, <3>4, KeysAreOrdered DEF Pending
      <4>3. ~Reached(c)'
        BY <1>1, <2>1, <3>2, <4>2 DEF Reached
      <4> QED BY <4>1, <4>3
    <3>5. CASE broke
      <4>1. broke' /\ passed' = passed
        BY <1>1, <3>5
      <4>2. ~Reached(c)'
        BY <2>1, <3>2, <4>1 DEF Reached
      <4> QED BY <4>1, <4>2
    <3> QED BY <3>3, <3>4, <3>5
  <2> QED BY <2>2, <2>3, <2>4, <2>5
<1>9. NothingLost'
  <2>1. ~Writing("feed")'
    BY <1>2, <1>3 DEF Writing
  <2> QED BY <1>8, <2>1 DEF NothingLost
<1> QED BY <1>6, <1>7, <1>9 DEF FeedInv

\* export_one is done: whatever it wrote is its caller's to follow.
LEMMA OneDone ==
    ASSUME FeedInv, NEW ok \in BOOLEAN, Settle("one", ok),
           UNCHANGED <<archive, layout, cursor>>, unowed \subseteq unowed',
           corpus' \in [Names -> Transcripts \cup {Foreign, NoText}],
           \A c \in Convs : c \notin unowed' /\ Written(c) => Written(c)',
           writer["feed"].at = "replace" => /\ corpus'[named[writer["feed"].conv]] \in Transcripts
                                            /\ corpus'[named[writer["feed"].conv]].of = writer["feed"].conv
    PROVE  FeedInv'
<1>1. writer' = [writer EXCEPT !["one"] = Idle] /\ UNCHANGED <<batch, passed, broke>>
  BY DEF Settle
<1>2. /\ writer' \in [{"feed", "one"} -> Writers] /\ writer'["one"] = Idle
      /\ writer'["feed"] = writer["feed"]
  BY <1>1, WriterMoved, NamesOfFiles DEF FeedInv
<1>3. FeedTyped'
  BY <1>1, <1>2 DEF FeedInv, FeedTyped, archive, layout
<1>4. FeedStands'
  BY <1>1, <1>2, NamesOfFiles
  DEF FeedInv, FeedStands, Writing, Target, transcript_filename, archive, layout
<1>5. ASSUME NEW c \in Convs
      PROVE  /\ Owed(c)' => Owed(c) /\ c \notin unowed'
             /\ Reached(c)' <=> Reached(c)
             /\ Pending(c)' <=> Pending(c)
             /\ Beyond(Key(c))' <=> Beyond(Key(c))
             /\ Render(c)' = Render(c)
  BY <1>1 DEF Owed, Reached, Pending, Beyond, Key, Render, After, archive, layout
<1>6. ASSUME NEW c \in Convs, Owed(c)'
      PROVE  /\ Reached(c)' => Written(c)'
             /\ ~broke' /\ ~Beyond(Key(c))' => Written(c)' \/ Pending(c)'
  BY <1>1, <1>5, <1>6, Zenon DEF FeedInv, NothingLost
<1>7. ASSUME NEW c \in Convs, Writing("feed")', writer'["feed"].conv = c, c \notin unowed', ~Beyond(Key(c))'
      PROVE  writer'["feed"].text = Render(c)'
  <2>1. Writing("feed") /\ writer["feed"].conv = c /\ c \notin unowed /\ ~Beyond(Key(c))
    BY <1>2, <1>5, <1>7 DEF Writing
  <2> QED BY <1>2, <1>5, <2>1 DEF FeedInv, NothingLost
<1>8. NothingLost'
  BY <1>6, <1>7 DEF NothingLost
<1> QED BY <1>3, <1>4, <1>8 DEF FeedInv

\* A text goes to its name: into no other conversation's file.
LEMMA Writes ==
    ASSUME FeedInv, NEW p \in {"feed", "one"}, Writing(p),
           corpus' = [corpus EXCEPT ![Target(p)] = writer[p].text],
           corpus[Target(p)] = NoText \/ writer[p].at = "replace"
    PROVE  /\ corpus' \in [Names -> Transcripts \cup {Foreign, NoText}]
           /\ corpus'[named[writer[p].conv]] = writer[p].text
           /\ \A c \in Convs \ {writer[p].conv} : Written(c) => corpus'[named[c]] = Render(c)
           /\ \A q \in {"feed", "one"} : writer[q].at = "replace" =>
                /\ corpus'[named[writer[q].conv]] \in Transcripts
                /\ corpus'[named[writer[q].conv]].of = writer[q].conv
           /\ \A n \in Names : corpus[n] # NoText =>
                IF corpus'[n] \in {Foreign, NoText} THEN corpus'[n] = corpus[n]
                ELSE corpus[n] \notin {Foreign, NoText} /\ corpus'[n].of = corpus[n].of
<1> DEFINE n == named[writer[p].conv]
           t == writer[p].text
<1>1. writer[p].conv \in Convs /\ t \in Transcripts /\ t.of = writer[p].conv
  BY DEF FeedInv, FeedStands
<1>2. n \in Names /\ Target(p) = n
  BY <1>1 DEF FeedInv, FeedTyped, Target, transcript_filename
<1>3. corpus[n] = NoText \/ (corpus[n] \in Transcripts /\ corpus[n].of = writer[p].conv)
  BY <1>2 DEF FeedInv, FeedStands
<1>4. corpus \in [Names -> Transcripts \cup {Foreign, NoText}]
  BY DEF FeedInv, FeedTyped
<1> HIDE DEF n, t
<1>5. /\ corpus' \in [Names -> Transcripts \cup {Foreign, NoText}] /\ corpus'[n] = t
      /\ \A m \in Names \ {n} : corpus'[m] = corpus[m]
  BY <1>1, <1>2, <1>4 DEF t
<1>6. ASSUME NEW c \in Convs \ {writer[p].conv}, Written(c) PROVE corpus'[named[c]] = Render(c)
  <2>1. Render(c) \in Transcripts /\ Render(c).of = c /\ named[c] \in Names
    BY KeyTyped DEF FeedInv, FeedTyped
  <2>2. named[c] # n
    BY <1>3, <1>6, <2>1, NamesOfFiles DEF Written
  <2> QED BY <1>5, <1>6, <2>1, <2>2 DEF Written
<1>7. ASSUME NEW q \in {"feed", "one"}, writer[q].at = "replace"
      PROVE  /\ corpus'[named[writer[q].conv]] \in Transcripts
             /\ corpus'[named[writer[q].conv]].of = writer[q].conv
  <2>1. /\ writer[q].conv \in Convs /\ named[writer[q].conv] \in Names
        /\ corpus[named[writer[q].conv]] \in Transcripts
        /\ corpus[named[writer[q].conv]].of = writer[q].conv
    BY <1>7 DEF FeedInv, FeedStands, FeedTyped, Writing, Target, transcript_filename
  <2>2. CASE named[writer[q].conv] = n
    BY <1>1, <1>3, <1>5, <2>1, <2>2, NamesOfFiles
  <2>3. CASE named[writer[q].conv] # n
    BY <1>5, <2>1, <2>3
  <2> QED BY <2>2, <2>3
<1>8. ASSUME NEW m \in Names, corpus[m] # NoText
      PROVE  IF corpus'[m] \in {Foreign, NoText} THEN corpus'[m] = corpus[m]
             ELSE corpus[m] \notin {Foreign, NoText} /\ corpus'[m].of = corpus[m].of
  <2>1. CASE m = n
    BY <1>1, <1>3, <1>5, <1>8, <2>1, NamesOfFiles
  <2>2. CASE m # n
    BY <1>5, <2>2
  <2> QED BY <2>1, <2>2
<1> QED BY <1>5, <1>6, <1>7, <1>8 DEF n, t

LEMMA GrowStep ==
    ASSUME FeedInv, NEW c \in Convs, Grow(c)
    PROVE  FeedInv'
<1>1. PICK t \in last_ts[c]..FeedTimes :
         /\ last_ts' = [last_ts EXCEPT ![c] = t]
         /\ unowed' = Owes(c, <<t, rowid[c]>>)
  BY DEF Grow
<1>2. /\ turns' = [turns EXCEPT ![c] = @ + 1]
      /\ UNCHANGED <<rowid, layout, corpus, cursor, writer, batch, passed, broke>>
  BY DEF Grow
<1>3. t \in Nat
  BY CorpusAssumption DEF FeedInv, FeedTyped
<1>4. FeedTyped'
  BY <1>1, <1>2, <1>3 DEF FeedInv, FeedTyped, layout
<1>5. FeedStands'
  BY <1>2 DEF FeedInv, FeedStands, Writing, Target, transcript_filename, layout
<1>6. Key(c)' = <<t, rowid[c]>>
  BY <1>1, <1>2 DEF FeedInv, FeedTyped, Key
<1>7. /\ ~Beyond(Key(c))' => c \in unowed'
      /\ Reached(c)' => ~Beyond(Key(c))'
  <2>1. ~Beyond(Key(c))' <=> ~Beyond(<<t, rowid[c]>>)
    BY <1>2, <1>6 DEF Beyond, After
  <2>2. ~Beyond(<<t, rowid[c]>>) => c \in unowed'
    BY <1>1 DEF Owes
  <2>3. Reached(c)' => ~Beyond(Key(c))'
    BY DEF Reached, Beyond
  <2> QED BY <2>1, <2>2, <2>3
<1>8. ASSUME NEW d \in Convs \ {c}
      PROVE  /\ Owed(d)' <=> Owed(d)
             /\ d \in unowed' <=> d \in unowed
             /\ Reached(d)' <=> Reached(d)
             /\ Written(d)' <=> Written(d)
             /\ Pending(d)' <=> Pending(d)
             /\ Beyond(Key(d))' <=> Beyond(Key(d))
             /\ Render(d)' = Render(d)
  <2>1. turns'[d] = turns[d] /\ last_ts'[d] = last_ts[d]
    BY <1>1, <1>2 DEF FeedInv, FeedTyped
  <2>2. d \in unowed' <=> d \in unowed
    BY <1>1 DEF Owes
  <2>3. Key(d)' = Key(d) /\ Render(d)' = Render(d)
    BY <1>2, <2>1 DEF Key, Render
  <2> QED BY <1>2, <2>1, <2>2, <2>3 DEF Owed, Reached, Written, Pending, Beyond, After, layout
<1>9. ASSUME NEW d \in Convs
      PROVE  /\ Owed(d)' => /\ Reached(d)' => Written(d)'
                            /\ ~broke' /\ ~Beyond(Key(d))' => Written(d)' \/ Pending(d)'
             /\ Writing("feed")' /\ writer'["feed"].conv = d /\ d \notin unowed' /\ ~Beyond(Key(d))' =>
                   writer'["feed"].text = Render(d)'
  <2>1. CASE d = c
    BY <1>7, <2>1 DEF Owed
  <2>2. CASE d # c
    <3>1. Writing("feed")' <=> Writing("feed")
      BY <1>2 DEF Writing
    <3> QED BY <1>2, <1>8, <2>2, <3>1, Zenon DEF FeedInv, NothingLost
  <2> QED BY <2>1, <2>2
<1> QED BY <1>4, <1>5, <1>9 DEF FeedInv, NothingLost

\* While no export runs, nothing lies between the cursor and what it may reach.
LEMMA AtRest ==
    ASSUME FeedInv, writer["feed"].at = "off"
    PROVE  /\ batch = {} /\ passed = NoKey /\ ~Writing("feed")
           /\ \A c \in Convs : /\ Reached(c) <=> cursor # NoKey /\ ~After(Key(c), cursor)
                               /\ Reached(c) <=> ~Beyond(Key(c))
<1>1. batch = {} /\ passed = NoKey /\ ~Writing("feed")
  BY DEF FeedInv, FeedStands, Writing
<1> QED BY <1>1 DEF Reached, Beyond, After

LEMMA RebuildStep ==
    ASSUME FeedInv, Rebuild
    PROVE  FeedInv'
<1>1. /\ UNCHANGED <<turns, last_ts, layout, corpus, cursor, writer, batch, passed, broke>>
      /\ rowid' \in Numberings
      /\ writer["feed"].at = "off" /\ writer["one"].at = "off"
  BY DEF Rebuild, FeedInv, FeedTyped
<1>2. batch = {} /\ passed = NoKey
  BY <1>1, AtRest
<1>3. FeedTyped'
  BY <1>1 DEF FeedInv, FeedTyped, layout
<1>4. FeedStands'
  BY <1>1, <1>2 DEF FeedInv, FeedStands, Writing
<1>5. ASSUME NEW c \in Convs, Owed(c)', ~Beyond(Key(c))'
      PROVE  Written(c)'
  <2>1. cursor # NoKey /\ ~After(<<last_ts[c], rowid'[c]>>, cursor)
    BY <1>1, <1>2, <1>5 DEF Beyond, After, Key
  <2>2. ~After(Key(c), cursor) /\ c \notin unowed
    BY <1>5, <2>1 DEF Rebuild, Owed
  <2>3. Owed(c) /\ Reached(c)
    BY <1>1, <1>5, <2>1, <2>2 DEF Owed, Reached, layout
  <2>4. Written(c)
    BY <2>3 DEF FeedInv, NothingLost
  <2> QED BY <1>1, <2>4 DEF Written, Render, layout
<1>6. \A c \in Convs : Reached(c)' => ~Beyond(Key(c))'
  BY DEF Reached, Beyond
<1>7. ~Writing("feed")'
  BY <1>1 DEF Writing
<1> QED BY <1>3, <1>4, <1>5, <1>6, <1>7 DEF FeedInv, NothingLost

LEMMA SeedStep ==
    ASSUME FeedInv, Seed
    PROVE  FeedInv'
<1>1. PICK c \in Convs : cursor' = Key(c)
  BY DEF Seed
<1>2. /\ unowed' = {d \in Convs : turns[d] > 0} /\ writer["feed"].at = "off"
      /\ UNCHANGED <<archive, layout, corpus, writer, batch, passed, broke>>
  BY DEF Seed, Stands
<1>3. FeedTyped'
  BY <1>1, <1>2, KeyTyped DEF FeedInv, FeedTyped, archive, layout
<1>4. FeedStands'
  BY <1>2 DEF FeedInv, FeedStands, Writing, Target, transcript_filename, archive, layout
<1>5. \A d \in Convs : ~Owed(d)'
  BY <1>2, CorpusAssumption DEF Owed, FeedInv, FeedTyped, archive
<1>6. ~Writing("feed")'
  BY <1>2 DEF Writing
<1> QED BY <1>3, <1>4, <1>5, <1>6 DEF FeedInv, NothingLost

\* What is selected is all that follows up to the last that is selected.
LEMMA Selected ==
    ASSUME FeedInv, NEW l \in FeedKeys \cup {NoKey}
    PROVE  /\ select_conversations(l) \subseteq Items
           /\ \A i \in select_conversations(l) : i.key[2] = rowid[i.conv]
           /\ \A c \in Convs, i \in select_conversations(l) :
                turns[c] >= MinTurns /\ After(Key(c), l) /\ ~After(Key(c), i.key) =>
                  [conv |-> c, key |-> Key(c)] \in select_conversations(l)
<1> DEFINE found == {c \in Convs : turns[c] >= MinTurns /\ After(Key(c), l)}
           items == {[conv |-> c, key |-> Key(c)] : c \in found}
           Before(i) == {j \in items : After(i.key, j.key)}
<1>1. select_conversations(l) = {i \in items : Cardinality(Before(i)) < FeedCap}
  BY DEF select_conversations
<1>2. \A i \in items : i \in Items /\ i.key \in FeedKeys /\ i.key[2] = rowid[i.conv]
  BY KeyTyped DEF Items, FeedInv
<1>3. IsFiniteSet(items)
  <2>1. IsFiniteSet(found)
    BY LayoutsAssumption, FS_Subset
  <2> DEFINE g == [c \in found |-> [conv |-> c, key |-> Key(c)]]
  <2>2. g \in Surjection(found, items)
    BY DEF Surjection
  <2> HIDE DEF found, items, g
  <2> QED BY <2>1, <2>2, FS_Surjection
<1>4. ASSUME NEW c \in Convs, NEW i \in items, Cardinality(Before(i)) < FeedCap,
             turns[c] >= MinTurns, After(Key(c), l), ~After(Key(c), i.key)
      PROVE  LET x == [conv |-> c, key |-> Key(c)] IN x \in items /\ Cardinality(Before(x)) < FeedCap
  <2> DEFINE x == [conv |-> c, key |-> Key(c)]
  <2>1. x \in items
    BY <1>4
  <2>2. x.key \in FeedKeys /\ ~After(x.key, i.key)
    BY <1>2, <1>4, <2>1
  <2> HIDE DEF x
  <2>3. \A j \in items : After(x.key, j.key) => After(i.key, j.key)
    BY <1>2, <2>2, KeysAreOrdered
  <2>4. Before(x) \in SUBSET Before(i) /\ Before(i) \in SUBSET items
    BY <2>3
  <2> HIDE DEF items
  <2>5. IsFiniteSet(Before(i))
    BY <1>3, <2>4, FS_Subset
  <2>6. IsFiniteSet(Before(x)) /\ Cardinality(Before(x)) <= Cardinality(Before(i))
    BY <2>4, <2>5, FS_Subset
  <2>7. Cardinality(Before(x)) \in Nat /\ Cardinality(Before(i)) \in Nat
    BY <2>5, <2>6, FS_CardinalityType
  <2>8. Cardinality(Before(x)) < FeedCap
    BY <1>4, <2>6, <2>7, CorpusAssumption
  <2> QED BY <2>1, <2>8 DEF x
<1> HIDE DEF items
<1> QED BY <1>1, <1>2, <1>4

LEMMA FeedStartStep ==
    ASSUME FeedInv, NEW backfill \in BOOLEAN, FeedStart(backfill)
    PROVE  FeedInv'
<1> DEFINE l == IF backfill THEN NoKey ELSE cursor
           x == [writer["feed"] EXCEPT !.at = "pick"]
<1>1. /\ batch' = select_conversations(l) /\ passed' = NoKey /\ broke' = FALSE
      /\ writer["feed"].at = "off" /\ writer' = [writer EXCEPT !["feed"] = x]
      /\ UNCHANGED <<archive, layout, corpus, cursor, unowed>>
  BY DEF FeedStart, Stands, Goes
<1>2. l \in FeedKeys \cup {NoKey} /\ (l # NoKey => l = cursor)
  BY DEF FeedInv, FeedTyped
<1>3. x \in Writers /\ x.at = "pick"
  BY DEF FeedInv, FeedTyped, Writers
<1> HIDE DEF l, x
<1>4. /\ writer' \in [{"feed", "one"} -> Writers] /\ writer'["feed"] = x
      /\ writer'["one"] = writer["one"]
  BY <1>1, <1>3, WriterMoved DEF FeedInv
<1>5. /\ batch' \subseteq Items /\ \A i \in batch' : i.key[2] = rowid[i.conv]
  BY <1>1, <1>2, Selected
<1>6. FeedTyped'
  BY <1>1, <1>4, <1>5 DEF FeedInv, FeedTyped, archive, layout
<1>7. FeedStands'
  BY <1>1, <1>3, <1>4, <1>5 DEF FeedInv, FeedStands, Writing, Target, transcript_filename, archive, layout
<1>8. ASSUME NEW c \in Convs, Owed(c)'
      PROVE  /\ Reached(c)' => Written(c)'
             /\ ~Beyond(Key(c))' => Written(c)' \/ Pending(c)'
  <2>1. Owed(c) /\ Key(c)' = Key(c) /\ (Written(c) => Written(c)') /\ Key(c) \in FeedKeys
    BY <1>1, <1>8, KeyTyped DEF Owed, Key, Written, Render, archive, layout, FeedInv
  <2>2. cursor # NoKey /\ ~After(Key(c), cursor) => Written(c)'
    BY <2>1 DEF FeedInv, NothingLost, Reached
  <2>3. Reached(c)' => cursor # NoKey /\ ~After(Key(c), cursor)
    BY <1>1, <2>1 DEF Reached
  <2>4. ASSUME ~Beyond(Key(c))', ~(cursor # NoKey /\ ~After(Key(c), cursor))
        PROVE  Pending(c)'
    <3>1. PICK i \in batch' : ~After(Key(c), i.key)
      BY <1>1, <2>1, <2>4 DEF Beyond, After
    <3>2. After(Key(c), l)
      BY <1>2, <2>4 DEF After
    <3>3. turns[c] >= MinTurns
      BY <2>1 DEF Owed
    <3>4. [conv |-> c, key |-> Key(c)] \in batch'
      BY <1>1, <1>2, <3>1, <3>2, <3>3, Selected
    <3> QED BY <2>1, <3>4 DEF Pending
  <2> QED BY <2>2, <2>3, <2>4
<1>9. ~Writing("feed")'
  BY <1>3, <1>4 DEF Writing
<1> QED BY <1>6, <1>7, <1>8, <1>9 DEF FeedInv, NothingLost

LEMMA FeedReadStep ==
    ASSUME FeedInv, FeedRead
    PROVE  FeedInv'
<1> DEFINE c == First(batch).conv
<1>1. /\ writer["feed"].at = "pick" /\ batch # {}
      /\ UNCHANGED <<archive, layout, corpus, cursor, unowed>>
  BY DEF FeedRead, Stands
<1>2. First(batch) \in batch /\ First(batch) \in Items
  BY <1>1, FirstItem DEF FeedInv, FeedTyped
<1>3. c \in Convs
  BY <1>2 DEF Items
<1>4. CASE turns[c] < enough[c]
  <2>1. Settle("feed", TRUE)
    BY <1>4 DEF FeedRead
  <2>2. \A d \in Convs : Written(d) => Written(d)'
    BY <1>1 DEF Written, Render, archive, layout
  <2>3. corpus' \in [Names -> Transcripts \cup {Foreign, NoText}]
    BY <1>1 DEF FeedInv, FeedTyped
  <2>4. writer["one"].at = "replace" => /\ corpus'[named[writer["one"].conv]] \in Transcripts
                                        /\ corpus'[named[writer["one"].conv]].of = writer["one"].conv
    BY <1>1 DEF FeedInv, FeedStands, Target, transcript_filename
  <2>5. ~Owed(c)
    BY <1>3, <1>4 DEF Owed, FeedInv, FeedTyped
  <2> QED BY <1>1, <2>1, <2>2, <2>3, <2>4, <2>5, ItemDone
<1>5. CASE ~(turns[c] < enough[c])
  <2> DEFINE x == [at |-> "link", conv |-> c, text |-> Render(c)]
  <2>1. writer' = [writer EXCEPT !["feed"] = x] /\ UNCHANGED <<batch, passed, broke>>
    BY <1>5 DEF FeedRead
  <2>2. Render(c) \in Transcripts /\ Render(c).of = c
    BY <1>3, KeyTyped DEF FeedInv
  <2>3. x \in Writers /\ x.at = "link" /\ x.conv = c /\ x.text = Render(c)
    BY <1>3, <2>2 DEF Writers
  <2> HIDE DEF x
  <2> QED BY <1>1, <1>3, <2>1, <2>2, <2>3, ExportMoves
<1> QED BY <1>4, <1>5

LEMMA FeedEndStep ==
    ASSUME FeedInv, FeedEnd
    PROVE  FeedInv'
<1> DEFINE x == [writer["feed"] EXCEPT !.at = "off"]
<1>1. /\ writer["feed"].at = "pick" /\ batch = {} /\ batch' = {} /\ passed' = NoKey /\ broke' = FALSE
      /\ cursor' = IF passed # NoKey THEN passed ELSE cursor
      /\ writer' = [writer EXCEPT !["feed"] = x]
      /\ UNCHANGED <<archive, layout, corpus, unowed>>
  BY DEF FeedEnd, Stands, Goes
<1>2. x \in Writers /\ x.at = "off"
  BY DEF FeedInv, FeedTyped, Writers
<1> HIDE DEF x
<1>3. /\ writer' \in [{"feed", "one"} -> Writers] /\ writer'["feed"] = x
      /\ writer'["one"] = writer["one"]
  BY <1>1, <1>2, WriterMoved DEF FeedInv
<1>4. FeedTyped'
  BY <1>1, <1>3 DEF FeedInv, FeedTyped, archive, layout
<1>5. FeedStands'
  BY <1>1, <1>2, <1>3 DEF FeedInv, FeedStands, Writing, Target, transcript_filename, archive, layout
<1>6. ASSUME NEW c \in Convs, Owed(c)', Reached(c)' \/ ~Beyond(Key(c))' PROVE Written(c)'
  <2>1. cursor' # NoKey /\ ~After(Key(c), cursor')
    BY <1>1, <1>6 DEF Reached, Beyond, After, Key, archive
  <2>2. Owed(c) /\ Reached(c)
    BY <1>1, <1>6, <2>1 DEF Owed, Reached, archive, layout
  <2>3. Written(c)
    BY <2>2 DEF FeedInv, NothingLost
  <2> QED BY <1>1, <2>3 DEF Written, Render, archive, layout
<1>7. ~Writing("feed")'
  BY <1>2, <1>3 DEF Writing
<1> QED BY <1>4, <1>5, <1>6, <1>7 DEF FeedInv, NothingLost

LEMMA OneStep ==
    ASSUME FeedInv, (\E c \in Convs : OneStart(c)) \/ OneRead
    PROVE  FeedInv'
<1>1. CASE \E c \in Convs : OneStart(c)
  <2>1. PICK c \in Convs : OneStart(c)
    BY <1>1
  <2> DEFINE x == [at |-> "pick", conv |-> c, text |-> NoText]
  <2>2. x \in Writers /\ x.at = "pick" /\ x.conv = c
    BY DEF Writers
  <2>3. writer' = [writer EXCEPT !["one"] = x]
    BY <2>1 DEF OneStart
  <2> HIDE DEF x
  <2> QED BY <2>1, <2>2, <2>3, ExportMoves DEF OneStart
<1>2. CASE OneRead
  <2> DEFINE c == writer["one"].conv
             x == IF turns[c] < enough[c] THEN Idle
                  ELSE [at |-> "link", conv |-> c, text |-> Render(c)]
  <2>1. c \in Convs
    BY <1>2 DEF OneRead, Stands, FeedInv, FeedStands
  <2>2. Render(c) \in Transcripts /\ Render(c).of = c
    BY <2>1, KeyTyped DEF FeedInv
  <2>3. /\ x \in Writers /\ x.at \in {"off", "link"}
        /\ x.at = "link" => x.conv = c /\ x.text = Render(c)
    BY <2>1, <2>2, NamesOfFiles DEF Writers
  <2>4. writer' = [writer EXCEPT !["one"] = x]
    BY <1>2 DEF OneRead
  <2> HIDE DEF x
  <2> QED BY <1>2, <2>1, <2>2, <2>3, <2>4, ExportMoves DEF OneRead
<1> QED BY <1>1, <1>2

\* The file is written and the item is done, by either export.
LEMMA WriteStep ==
    ASSUME FeedInv, NEW p \in {"feed", "one"}, Writing(p), Write(p),
           UNCHANGED <<archive, layout, cursor>>,
           corpus[Target(p)] = NoText \/ writer[p].at = "replace"
    PROVE  FeedInv'
<1>0. PICK c \in Convs : c = writer[p].conv
  BY DEF FeedInv, FeedStands
<1>1. corpus' = [corpus EXCEPT ![Target(p)] = writer[p].text] /\ Settle(p, TRUE)
  BY DEF Write
<1>2. /\ corpus' \in [Names -> Transcripts \cup {Foreign, NoText}]
      /\ corpus'[named[c]] = writer[p].text
      /\ \A d \in Convs \ {c} : Written(d) => corpus'[named[d]] = Render(d)
      /\ \A q \in {"feed", "one"} : writer[q].at = "replace" =>
                /\ corpus'[named[writer[q].conv]] \in Transcripts
                /\ corpus'[named[writer[q].conv]].of = writer[q].conv
  BY <1>0, <1>1, Writes
<1>3. \A d \in Convs : Written(d)' <=> corpus'[named[d]] = Render(d)
  BY DEF Written, Render, archive, layout
<1>4. CASE p = "feed"
  <2>1. batch # {} /\ c = First(batch).conv /\ unowed' = unowed /\ Settle("feed", TRUE)
    BY <1>0, <1>1, <1>4 DEF FeedInv, FeedStands, Write
  <2>2. Owed(c) /\ ~Beyond(Key(c)) => Written(c)'
    BY <1>0, <1>2, <1>3, <1>4 DEF FeedInv, NothingLost, Owed
  <2>3. \A d \in Convs : Owed(d) /\ ~Beyond(Key(d)) /\ Written(d) => Written(d)'
    BY <1>2, <1>3, <2>2, Zenon
  <2>4. \A d \in Convs :
               /\ TRUE /\ d = First(batch).conv /\ Key(d) = First(batch).key
               /\ Owed(d) /\ ~Beyond(Key(d))
               => Written(d)'
    BY <2>1, <2>2, Zenon
  <2> QED BY <1>2, <2>1, <2>3, <2>4, ItemDone
<1>5. CASE p = "one"
  <2>1. unowed' = unowed \union {c} /\ Settle("one", TRUE)
    BY <1>0, <1>1, <1>5 DEF Write
  <2>2. \A d \in Convs : d \notin unowed' /\ Written(d) => Written(d)'
    BY <1>2, <1>3, <2>1
  <2> QED BY <1>2, <2>1, <2>2, OneDone
<1> QED BY <1>4, <1>5

\* An item fails, in whichever export.
LEMMA ItemFails ==
    ASSUME FeedInv, NEW p \in {"feed", "one"}, p = "feed" => batch # {}, Settle(p, FALSE),
           UNCHANGED <<archive, layout, cursor, corpus, unowed>>
    PROVE  FeedInv'
<1>1. \A d \in Convs : Written(d) => Written(d)'
  BY DEF Written, Render, archive, layout
<1>2. corpus' \in [Names -> Transcripts \cup {Foreign, NoText}]
  BY DEF FeedInv, FeedTyped
<1>3. \A q \in {"feed", "one"} : writer[q].at = "replace" =>
                /\ corpus'[named[writer[q].conv]] \in Transcripts
                /\ corpus'[named[writer[q].conv]].of = writer[q].conv
  BY DEF FeedInv, FeedStands, Target, transcript_filename
<1>4. CASE p = "feed"
  BY <1>1, <1>2, <1>3, <1>4, ItemDone
<1>5. CASE p = "one"
  BY <1>1, <1>2, <1>3, <1>5, OneDone
<1> QED BY <1>4, <1>5

LEMMA LinkStep ==
    ASSUME FeedInv, NEW p \in {"feed", "one"}, Link(p)
    PROVE  FeedInv'
<1>1. writer[p].at = "link" /\ Writing(p) /\ UNCHANGED <<archive, layout, cursor>>
  BY DEF Link, Stands, Writing
<1>2. CASE corpus[Target(p)] = NoText /\ Write(p)
  BY <1>1, <1>2, WriteStep
<1>3. CASE /\ corpus[Target(p)] # NoText /\ Goes(p, "guard")
           /\ UNCHANGED <<corpus, unowed, batch, passed, broke>>
  <2> DEFINE x == [writer[p] EXCEPT !.at = "guard"]
  <2>1. x \in Writers /\ x.at = "guard" /\ x.conv = writer[p].conv /\ x.text = writer[p].text
    BY DEF FeedInv, FeedTyped, Writers
  <2>2. writer' = [writer EXCEPT ![p] = x]
    BY <1>3 DEF Goes
  <2> HIDE DEF x
  <2>3. x.conv \in Convs /\ x.text \in Transcripts /\ x.text.of = x.conv
    BY <1>1, <2>1 DEF FeedInv, FeedStands
  <2>4. p = "feed" => /\ batch # {} /\ x.conv = First(batch).conv
                      /\ x.conv \notin unowed /\ ~Beyond(Key(x.conv)) => x.text = Render(x.conv)
    BY <1>1, <2>1, <2>3 DEF FeedInv, FeedStands, NothingLost
  <2> QED BY <1>1, <1>3, <2>1, <2>2, <2>3, <2>4, ExportMoves
<1> QED BY <1>2, <1>3 DEF Link

LEMMA GuardStep ==
    ASSUME FeedInv, NEW p \in {"feed", "one"}, Guard(p)
    PROVE  FeedInv'
<1>1. writer[p].at = "guard" /\ Writing(p) /\ UNCHANGED <<archive, layout, corpus, cursor, unowed>>
  BY DEF Guard, Stands, Writing
<1>2. CASE _guard_write_target(p) /\ Goes(p, "replace") /\ UNCHANGED <<batch, passed, broke>>
  <2> DEFINE x == [writer[p] EXCEPT !.at = "replace"]
  <2>1. x \in Writers /\ x.at = "replace" /\ x.conv = writer[p].conv /\ x.text = writer[p].text
    BY DEF FeedInv, FeedTyped, Writers
  <2>2. writer' = [writer EXCEPT ![p] = x]
    BY <1>2 DEF Goes
  <2> HIDE DEF x
  <2>3. x.conv \in Convs /\ x.text \in Transcripts /\ x.text.of = x.conv
    BY <1>1, <2>1 DEF FeedInv, FeedStands
  <2>4. p = "feed" => /\ batch # {} /\ x.conv = First(batch).conv
                      /\ x.conv \notin unowed /\ ~Beyond(Key(x.conv)) => x.text = Render(x.conv)
    BY <1>1, <2>1, <2>3 DEF FeedInv, FeedStands, NothingLost
  <2>5. corpus[named[x.conv]] \in Transcripts /\ corpus[named[x.conv]].of = x.conv
    BY <1>2, <2>1, <2>3, NamesOfFiles
    DEF _guard_write_target, _identity_of_file, Target, transcript_filename, FeedInv, FeedTyped
  <2> QED BY <1>1, <1>2, <2>1, <2>2, <2>3, <2>4, <2>5, ExportMoves
<1>3. CASE ~_guard_write_target(p) /\ Settle(p, FALSE)
  <2>1. p = "feed" => batch # {}
    BY <1>1 DEF FeedInv, FeedStands
  <2> QED BY <1>1, <1>3, <2>1, ItemFails
<1> QED BY <1>2, <1>3 DEF Guard

LEMMA ReplaceStep ==
    ASSUME FeedInv, NEW p \in {"feed", "one"}, Replace(p)
    PROVE  FeedInv'
<1>1. writer[p].at = "replace" /\ Writing(p) /\ Write(p) /\ UNCHANGED <<archive, layout, cursor>>
  BY DEF Replace, Stands, Writing
<1> QED BY <1>1, WriteStep

LEMMA FailsStep ==
    ASSUME FeedInv, NEW p \in {"feed", "one"}, Fails(p)
    PROVE  FeedInv'
<1>1. /\ Settle(p, FALSE) /\ UNCHANGED <<archive, layout, cursor, corpus, unowed>>
      /\ writer[p].at # "off" /\ (writer["feed"].at = "pick" => p = "one" \/ batch # {})
  BY DEF Fails, Stands
<1>2. p = "feed" => batch # {}
  <2>1. writer["feed"].at \in {"off", "pick", "link", "guard", "replace"}
    BY DEF FeedInv, FeedTyped, Writers
  <2> QED BY <1>1, <2>1 DEF FeedInv, FeedStands, Writing
<1> QED BY <1>1, <1>2, ItemFails

LEMMA KillExportStep ==
    ASSUME FeedInv, NEW p \in {"feed", "one"}, KillExport(p)
    PROVE  FeedInv'
<1>1. /\ writer' = [writer EXCEPT ![p] = Idle]
      /\ UNCHANGED <<archive, layout, corpus, cursor, unowed>>
      /\ IF p = "feed" THEN batch' = {} /\ passed' = NoKey /\ broke' = FALSE
         ELSE UNCHANGED <<batch, passed, broke>>
  BY DEF KillExport
<1>2. CASE p = "one"
  BY <1>1, <1>2, NamesOfFiles, ExportMoves
<1>3. CASE p = "feed"
  <2>1. /\ writer' \in [{"feed", "one"} -> Writers] /\ writer'["feed"] = Idle
        /\ writer'["one"] = writer["one"]
    BY <1>1, <1>3, NamesOfFiles, WriterMoved DEF FeedInv
  <2>2. FeedTyped'
    BY <1>1, <1>3, <2>1 DEF FeedInv, FeedTyped, archive, layout
  <2>3. FeedStands'
    BY <1>1, <1>3, <2>1, NamesOfFiles
    DEF FeedInv, FeedStands, Writing, Target, transcript_filename, archive, layout
  <2>4. ASSUME NEW c \in Convs, Owed(c)', Reached(c)' \/ ~Beyond(Key(c))' PROVE Written(c)'
    <3>1. cursor # NoKey /\ ~After(Key(c), cursor)
      BY <1>1, <1>3, <2>4 DEF Reached, Beyond, After, Key, archive
    <3>2. Owed(c) /\ Reached(c)
      BY <1>1, <2>4, <3>1 DEF Owed, Reached, archive, layout
    <3>3. Written(c)
      BY <3>2 DEF FeedInv, NothingLost
    <3> QED BY <1>1, <3>3 DEF Written, Render, archive, layout
  <2>5. ~Writing("feed")'
    BY <2>1, NamesOfFiles DEF Writing
  <2> QED BY <2>2, <2>3, <2>4, <2>5 DEF FeedInv, NothingLost
<1> QED BY <1>2, <1>3

\* The invariant of both exports, for any conversations, runs and troubles.
THEOREM FeedInvHolds == FeedSpec => []FeedInv
<1>1. FeedInv /\ [FeedNext]_feedVars => FeedInv'
  <2> SUFFICES ASSUME FeedInv, [FeedNext]_feedVars PROVE FeedInv'
    OBVIOUS
  <2>1. CASE UNCHANGED feedVars
    BY <2>1 DEF feedVars, archive, layout, FeedInv, FeedTyped, FeedStands, NothingLost, Writing,
                Target, transcript_filename, Owed, Reached, Written, Pending, Beyond, Key, Render,
                After, First
  <2>2. CASE FeedNext
    BY <2>2, RebuildStep, SeedStep, FeedReadStep, FeedEndStep, OneStep, FeedStartStep, GrowStep,
       LinkStep, GuardStep, ReplaceStep, FailsStep, KillExportStep, Zenon DEF FeedNext
  <2> QED BY <2>1, <2>2
<1> QED BY <1>1, FeedBegins, PTL DEF FeedSpec

\* Nothing at or behind the cursor that run_feed owes a file lacks its newest text
\* (export.py: run_feed moves the cursor over the error-free prefix).
THEOREM NoneIsPassedOver == FeedSpec => []NothingIsPassedOver
<1>1. FeedInv => NothingIsPassedOver
  BY DEF FeedInv, NothingLost, Owed, Reached, Written, NothingIsPassedOver, transcript_filename
<1> QED BY <1>1, FeedInvHolds, PTL

\* No write, of either export, puts one conversation's text into another's file or
\* into one that is no transcript (export.py: _write_transcript).
THEOREM FilesStay == FeedSpec => NoFileChangesHands
<1> DEFINE Stays == \A n \in Names : corpus[n] # NoText => _identity_of_file(n)' = _identity_of_file(n)
<1>1. FeedInv /\ [FeedNext]_feedVars => [Stays]_corpus
  <2> SUFFICES ASSUME FeedInv, [FeedNext]_feedVars, corpus' # corpus PROVE Stays
    OBVIOUS
  <2>1. FeedNext
    BY DEF feedVars
  <2>2. PICK p \in {"feed", "one"} : Link(p) \/ Replace(p)
    BY <2>1 DEF FeedNext, Grow, Rebuild, Seed, FeedStart, FeedRead, FeedEnd, OneStart, OneRead,
                Guard, Fails, KillExport
  <2>3. /\ Writing(p) /\ Write(p)
        /\ corpus[Target(p)] = NoText \/ writer[p].at = "replace"
    BY <2>2 DEF Link, Replace, Stands, Writing
  <2>4. \A n \in Names : corpus[n] # NoText =>
                IF corpus'[n] \in {Foreign, NoText} THEN corpus'[n] = corpus[n]
                ELSE corpus[n] \notin {Foreign, NoText} /\ corpus'[n].of = corpus[n].of
    BY <2>3, Writes DEF Write
  <2> QED BY <2>4 DEF _identity_of_file
<1>2. [][FeedNext]_feedVars /\ []FeedInv => [][Stays]_corpus
  BY <1>1, PTL
<1> QED BY <1>2, FeedInvHolds, PTL DEF FeedSpec, NoFileChangesHands

-----------------------------------------------------------------------------
(* LedgerView.                                                               *)

RowTexts == [rid : Queries, attempt_no : Nat, status : {"ok", "retryable_error", "permanent_failure"},
             per_card : {Cards, {}}, pins : BOOLEAN, code : Codes \cup {"none"},
             producer : {"realtime", "reconciliation"}]

ViewTyped ==
    /\ started \in [Queries -> {"no", "real", "probe"}]
    /\ verdict \in [Queries -> {"no", "hit", "abstain_empty", "error"}]
    /\ aborted \subseteq Queries
    /\ accepted \in [Queries -> [ts : Nat, candidates : {Cards, {}}]]
    /\ scored \in Seq(RowTexts) /\ day \in Nat

\* Only hits have rows, with attempt numbers up to their count; once tells which
\* of them had a healthy one.
ViewInv ==
    /\ ViewTyped
    /\ \A q \in Queries : verdict[q] = "hit" => accepted[q].candidates = Cards
    /\ \A i \in 1..Len(scored) : /\ verdict[scored[i].rid] = "hit"
                                 /\ scored[i].attempt_no <= Len(scored)
    /\ once = {q \in Queries : \E i \in 1..Len(scored) : scored[i].rid = q /\ healthy(scored[i])}

LEMMA ScoredFacts ==
    ASSUME ViewTyped
    PROVE  /\ Len(scored) \in Nat /\ DOMAIN scored = 1..Len(scored)
           /\ \A i \in 1..Len(scored) : /\ scored[i] \in RowTexts /\ scored[i].rid \in Queries
                                        /\ scored[i].attempt_no \in Nat
           /\ \A q : RowsOn(q) = {i \in 1..Len(scored) : scored[i].rid = q}
<1>1. Len(scored) \in Nat /\ DOMAIN scored = 1..Len(scored)
  BY LenProperties DEF ViewTyped
<1>2. \A i \in 1..Len(scored) : scored[i] \in RowTexts
  BY ElementOfSeq DEF ViewTyped
<1>3. \A row \in RowTexts : row.rid \in Queries /\ row.attempt_no \in Nat
  BY DEF RowTexts
<1> QED BY <1>1, <1>2, <1>3 DEF RowsOn

\* A query has at most as many rows as there are.
LEMMA RowsAreCounted ==
    ASSUME ViewTyped, NEW q
    PROVE  Cardinality(RowsOn(q)) \in Nat /\ Cardinality(RowsOn(q)) <= Len(scored)
<1>1. RowsOn(q) \in SUBSET (1..Len(scored)) /\ Len(scored) \in Nat
  BY ScoredFacts
<1>2. IsFiniteSet(1..Len(scored)) /\ Cardinality(1..Len(scored)) = Len(scored)
  <2>1. /\ IsFiniteSet(1..Len(scored))
        /\ Cardinality(1..Len(scored)) = IF 1 > Len(scored) THEN 0 ELSE Len(scored) - 1 + 1
    BY <1>1, FS_Interval
  <2> QED BY <1>1, <2>1, SMTT(30)
<1>3. IsFiniteSet(RowsOn(q)) /\ Cardinality(RowsOn(q)) <= Cardinality(1..Len(scored))
  BY <1>1, <1>2, FS_Subset
<1> QED BY <1>2, <1>3, FS_CardinalityType

LEMMA ViewStart == ViewInit => ViewInv
<1> SUFFICES ASSUME ViewInit PROVE ViewInv
  OBVIOUS
<1>1. scored = << >> /\ scored \in Seq(RowTexts) /\ Len(scored) = 0
  BY EmptySeq DEF ViewInit
<1>2. ViewTyped
  BY <1>1 DEF ViewInit, ViewTyped, NoRow
<1> QED BY <1>1, <1>2 DEF ViewInit, ViewInv

\* No step but Score touches the rows, or what makes them healthy.
LEMMA OtherStep ==
    ASSUME ViewInv, NEW q \in Queries, Ask(q) \/ AnswerQuery(q) \/ AbortQuery(q) \/ NextDay
    PROVE  ViewInv'
<1>1. scored' = scored /\ once' = once
  BY DEF Ask, AnswerQuery, AbortQuery, NextDay
<1>2. ViewTyped'
  <2>1. day \in Nat
    BY DEF ViewInv, ViewTyped
  <2>2. CASE Ask(q)
    BY <2>2 DEF Ask, ViewInv, ViewTyped
  <2>3. CASE AnswerQuery(q)
    <3>1. PICK s \in {"hit", "abstain_empty", "error"} :
             /\ verdict' = [verdict EXCEPT ![q] = s]
             /\ accepted' = IF s = "error" THEN accepted
                            ELSE [accepted EXCEPT ![q] = [ts |-> day, candidates |-> IF s = "hit" THEN Cards ELSE {}]]
      BY <2>3 DEF AnswerQuery
    <3>2. [ts |-> day, candidates |-> IF s = "hit" THEN Cards ELSE {}] \in [ts : Nat, candidates : {Cards, {}}]
      BY <2>1
    <3>3. accepted' \in [Queries -> [ts : Nat, candidates : {Cards, {}}]]
      BY <3>1, <3>2 DEF ViewInv, ViewTyped
    <3>4. verdict' \in [Queries -> {"no", "hit", "abstain_empty", "error"}]
      BY <3>1 DEF ViewInv, ViewTyped
    <3> QED BY <2>3, <3>3, <3>4 DEF AnswerQuery, ViewInv, ViewTyped
  <2>4. CASE AbortQuery(q)
    BY <2>4 DEF AbortQuery, ViewInv, ViewTyped
  <2>5. CASE NextDay
    BY <2>1, <2>5 DEF NextDay, ViewInv, ViewTyped
  <2> QED BY <2>2, <2>3, <2>4, <2>5
<1>3. \A p \in Queries : verdict[p] = "hit" => verdict'[p] = "hit" /\ accepted'[p] = accepted[p]
  BY DEF Ask, AnswerQuery, AbortQuery, NextDay, ViewInv, ViewTyped
<1>4. \A p \in Queries : verdict'[p] = "hit" => accepted'[p].candidates = Cards
  <2>1. CASE AnswerQuery(q)
    BY <2>1 DEF AnswerQuery, ViewInv, ViewTyped
  <2>2. CASE Ask(q) \/ AbortQuery(q) \/ NextDay
    BY <2>2 DEF Ask, AbortQuery, NextDay, ViewInv
  <2> QED BY <2>1, <2>2
<1>5. \A i \in 1..Len(scored) : /\ scored[i].rid \in Queries /\ verdict'[scored[i].rid] = "hit"
                                /\ healthy(scored[i])' <=> healthy(scored[i])
  BY <1>1, <1>3, ScoredFacts DEF ViewInv, healthy
<1> QED BY <1>1, <1>2, <1>4, <1>5 DEF ViewInv

LEMMA ScoreStep ==
    ASSUME ViewInv, NEW q \in Queries, Score(q)
    PROVE  ViewInv'
<1> DEFINE n == Len(scored)
<1>1. PICK new : /\ new.rid = q /\ new.attempt_no = Cardinality(RowsOn(q))
                 /\ new \in RowTexts
                 /\ scored' = Append(scored, new)
                 /\ once' = IF healthy(new) THEN once \union {q} ELSE once
  <2>1. PICK new \in {Row(q, "ok", Cards, TRUE, "none", p) : p \in {"realtime", "reconciliation"}}
                  \union {Row(q, "ok", {}, TRUE, "none", "realtime"),
                          Row(q, "ok", Cards, FALSE, "none", "realtime"),
                          Row(q, "permanent_failure", {}, TRUE, GivenUp, "reconciliation")}
                  \union {Row(q, "retryable_error", {}, TRUE, c, "realtime") : c \in ErrorCodes} :
             /\ scored' = Append(scored, new)
             /\ once' = IF healthy(new) THEN once \union {q} ELSE once
    BY DEF Score
  <2>2. PICK s \in {"ok", "retryable_error", "permanent_failure"}, k \in {Cards, {}}, p \in BOOLEAN,
             c \in Codes \cup {"none"}, b \in {"realtime", "reconciliation"} :
             new = Row(q, s, k, p, c, b)
    BY <2>1 DEF Codes
  <2>3. Cardinality(RowsOn(q)) \in Nat
    BY RowsAreCounted DEF ViewInv
  <2>4. new.rid = q /\ new.attempt_no = Cardinality(RowsOn(q)) /\ new \in RowTexts
    BY <2>2, <2>3 DEF Row, RowTexts
  <2> QED BY <2>1, <2>4
<1>2. /\ verdict[q] = "hit" /\ UNCHANGED <<started, verdict, aborted, accepted, day>>
  BY DEF Score
<1>3. /\ scored' \in Seq(RowTexts) /\ Len(scored') = n + 1 /\ scored'[n + 1] = new
      /\ \A i \in 1..n : scored'[i] = scored[i]
  BY <1>1, AppendProperties DEF ViewInv, ViewTyped
<1>4. n \in Nat /\ new.attempt_no <= n /\ new.attempt_no \in Nat
  BY <1>1, ScoredFacts, RowsAreCounted DEF ViewInv
<1> HIDE DEF n
<1>5. ViewTyped'
  BY <1>2, <1>3 DEF ViewInv, ViewTyped
<1>6. \A i \in 1..n : scored[i].attempt_no \in Nat /\ scored[i].attempt_no <= n
                      /\ verdict[scored[i].rid] = "hit"
  BY ScoredFacts DEF ViewInv, n
<1>7. \A i \in 1..(n + 1) : /\ verdict'[scored'[i].rid] = "hit"
                            /\ scored'[i].attempt_no <= n + 1
  BY <1>1, <1>2, <1>3, <1>4, <1>6
<1>8. \A row : healthy(row)' <=> healthy(row)
  BY <1>2 DEF healthy
<1>9. once' = {p \in Queries : \E i \in 1..(n + 1) : scored'[i].rid = p /\ healthy(scored'[i])}
  <2>1. once = {p \in Queries : \E i \in 1..n : scored[i].rid = p /\ healthy(scored[i])}
    BY DEF ViewInv, n
  <2>2. 1..(n + 1) = (1..n) \cup {n + 1}
    BY <1>4
  <2>3. \A p : (\E i \in 1..(n + 1) : scored'[i].rid = p /\ healthy(scored'[i]))
               <=> \/ p = q /\ healthy(new)
                   \/ \E i \in 1..n : scored[i].rid = p /\ healthy(scored[i])
    BY <1>1, <1>3, <2>2
  <2> QED BY <1>1, <2>1, <2>3
<1>10. (once = {p \in Queries : \E i \in 1..Len(scored) : scored[i].rid = p /\ healthy(scored[i])})'
  BY <1>2, <1>3, <1>9 DEF healthy
<1>11. (\A p \in Queries : verdict[p] = "hit" => accepted[p].candidates = Cards)'
  BY <1>2 DEF ViewInv
<1>12. (\A i \in 1..Len(scored) : /\ verdict[scored[i].rid] = "hit"
                                  /\ scored[i].attempt_no <= Len(scored))'
  BY <1>3, <1>7
<1> QED BY <1>5, <1>10, <1>11, <1>12 DEF ViewInv

\* The invariant of the ledger as the view reads it.
THEOREM ViewInvHolds == ViewSpec => []ViewInv
<1>1. ViewInv /\ [ViewNext]_viewVars => ViewInv'
  <2> SUFFICES ASSUME ViewInv, [ViewNext]_viewVars PROVE ViewInv'
    OBVIOUS
  <2>1. CASE UNCHANGED viewVars
    BY <2>1 DEF viewVars, ViewInv, ViewTyped, healthy
  <2>2. CASE ViewNext
    <3>1. CASE NextDay
      <4>1. CASE Queries = {}
        BY <3>1, <4>1 DEF NextDay, ViewInv, ViewTyped, healthy
      <4> QED BY <3>1, <4>1, OtherStep
    <3> QED BY <2>2, <3>1, OtherStep, ScoreStep DEF ViewNext
  <2> QED BY <2>1, <2>2
<1> QED BY <1>1, ViewStart, PTL DEF ViewSpec

-----------------------------------------------------------------------------
(* What the view says of the hits.                                           *)

\* Of some rows of a query the newest is one of them.
LEMMA NewestIsThere ==
    ASSUME ViewInv, NEW own \in SUBSET (1..Len(scored)), own # {}
    PROVE  Newest(own) \in own
<1> DEFINE T == {scored[i].attempt_no : i \in own}
<1>0. \A i \in own : scored[i].attempt_no \in Nat /\ scored[i].attempt_no <= Len(scored)
  BY ScoredFacts DEF ViewInv
<1>1. T \in SUBSET Nat /\ T # {} /\ \A k \in T : k <= Len(scored)
  BY <1>0
<1> HIDE DEF T
<1>2. PICK g \in T : \A k \in T : k <= g
  <2>1. Len(scored) \in Nat
    BY ScoredFacts DEF ViewInv
  <2> QED BY <1>1, <2>1, GreatestNumber
<1>3. PICK i \in own : scored[i].attempt_no = g
  BY <1>2 DEF T
<1>4. \A j \in own : scored[j].attempt_no <= scored[i].attempt_no
  BY <1>2, <1>3 DEF T
<1> QED BY <1>4, Zenon DEF Newest

\* What fold picks: a healthy row if there is one, otherwise one that gave up.
LEMMA FoldPicks ==
    ASSUME ViewInv, NEW q
    PROVE  /\ fold(q) # 0 => fold(q) \in RowsOn(q)
           /\ (\E i \in RowsOn(q) : healthy(scored[i])) => healthy(scored[fold(q)])
<1> DEFINE With(s) == {i \in RowsOn(q) : scored[i].status = s}
           good == {i \in RowsOn(q) : healthy(scored[i])}
           tiers == <<good, With("permanent_failure"), With("retryable_error")>>
           filled == {k \in 1..3 : tiers[k] # {}}
           k0 == CHOOSE k \in filled : \A l \in filled : k <= l
<1>1. fold(q) = IF filled = {} THEN 0 ELSE Newest(tiers[k0])
  BY DEF fold
<1>2. /\ RowsOn(q) \in SUBSET (1..Len(scored))
      /\ good \in SUBSET RowsOn(q) /\ With("permanent_failure") \in SUBSET RowsOn(q)
      /\ With("retryable_error") \in SUBSET RowsOn(q)
  BY ScoredFacts DEF ViewInv
<1> HIDE DEF good, With
<1>3. \A k \in 1..3 : tiers[k] \in SUBSET RowsOn(q)
  BY <1>2
<1>4. tiers[1] = good
  OBVIOUS
<1> HIDE DEF tiers
<1>5. filled # {} => k0 \in filled /\ \A l \in filled : k0 <= l
  <2> SUFFICES ASSUME filled # {} PROVE \E k \in filled : \A l \in filled : k <= l
    BY Zenon
  <2>1. filled \in SUBSET Nat
    OBVIOUS
  <2> HIDE DEF filled
  <2> QED BY <2>1, LeastNumber
<1> HIDE DEF k0
<1>6. filled # {} => Newest(tiers[k0]) \in tiers[k0] /\ tiers[k0] \in SUBSET RowsOn(q)
  <2> SUFFICES ASSUME filled # {} PROVE Newest(tiers[k0]) \in tiers[k0] /\ tiers[k0] \in SUBSET RowsOn(q)
    OBVIOUS
  <2>1. tiers[k0] # {} /\ tiers[k0] \in SUBSET RowsOn(q)
    BY <1>3, <1>5
  <2> QED BY <1>2, <2>1, NewestIsThere
<1>7. good # {} => k0 = 1
  <2> SUFFICES ASSUME good # {} PROVE k0 = 1
    OBVIOUS
  <2>1. 1 \in filled
    BY <1>4
  <2> QED BY <1>5, <2>1
<1>8. good # {} => Newest(tiers[k0]) \in good
  <2>1. good # {} => filled # {}
    BY <1>4
  <2> QED BY <1>4, <1>6, <1>7, <2>1
<1>9. fold(q) # 0 => fold(q) \in RowsOn(q)
  BY <1>1, <1>6
<1>10. good # {} => fold(q) \in good
  <2>1. good # {} => filled # {}
    BY <1>4
  <2> QED BY <1>1, <1>8, <2>1
<1> QED BY <1>9, <1>10 DEF good

\* A hit is closed when it was ever scored well.
LEMMA ClosedWhenScored ==
    ASSUME ViewInv
    PROVE  /\ {q \in Queries : final_healthy(q)} = {q \in once : started[q] = "real" /\ q \notin aborted}
           /\ \A q \in Queries : final_healthy(q) => healthy(scored[fold(q)])
<1>1. ASSUME NEW q \in Queries, final_healthy(q)
      PROVE  q \in once /\ started[q] = "real" /\ q \notin aborted
  BY <1>1, ScoredFacts DEF final_healthy, score_eligible, hits, real, effective, ViewInv
<1>2. ASSUME NEW q \in once, started[q] = "real", q \notin aborted
      PROVE  q \in Queries /\ final_healthy(q)
  <2>1. /\ q \in Queries
        /\ \E i \in RowsOn(q) : healthy(scored[i]) /\ verdict[scored[i].rid] = "hit" /\ scored[i].rid = q
    BY ScoredFacts DEF ViewInv
  <2>2. verdict[q] = "hit" /\ accepted[q].candidates = Cards /\ Cards # {}
    BY <2>1, ViewAssumption DEF ViewInv
  <2>3. q \in hits
    BY <1>2, <2>1, <2>2 DEF hits, real, effective
  <2> QED BY <2>1, <2>2, <2>3 DEF final_healthy, score_eligible
<1>3. once \subseteq Queries
  BY DEF ViewInv
<1>4. \A q \in Queries : final_healthy(q) => healthy(scored[fold(q)])
  BY FoldPicks DEF final_healthy
<1> QED BY <1>1, <1>2, <1>3, <1>4

\* A pass leaves at most one hit in a hundred open, and none of them forgotten.
LEMMA PassLeavesNone ==
    ASSUME ViewInv, dod_pass
    PROVE  /\ 100 * Cardinality(hits \ once) <= Cardinality(hits)
           /\ \A q \in hits \ once : day - accepted[q].ts > Day =>
                \E i \in RowsOn(q) : scored[i].status = "permanent_failure"
<1>1. \A q \in hits : q \in Queries /\ started[q] = "real" /\ q \notin aborted /\ verdict[q] = "hit"
  BY DEF hits, real, effective
<1>2. IsFiniteSet(hits)
  <2>1. hits \in SUBSET Queries
    BY <1>1
  <2> QED BY <2>1, ViewAssumption, FS_Subset
<1>3. {q \in hits : final_healthy(q)} = hits \cap once
  <2>1. \A q \in Queries : final_healthy(q) <=> q \in once /\ started[q] = "real" /\ q \notin aborted
    BY ClosedWhenScored DEF ViewInv
  <2> QED BY <1>1, <2>1
<1>4. Cardinality(hits \cap once) >= Gate(99)
  BY <1>3 DEF dod_pass
<1>5. /\ Cardinality(hits) \in Nat /\ Cardinality(hits \cap once) \in Nat
      /\ Cardinality(hits \ once) \in Nat
      /\ Cardinality(hits \ once) = Cardinality(hits) - Cardinality(hits \cap once)
  <2>1. IsFiniteSet(hits \cap once) /\ IsFiniteSet(hits \ once)
    <3>1. hits \cap once \in SUBSET hits /\ hits \ once \in SUBSET hits
      OBVIOUS
    <3> QED BY <1>2, <3>1, FS_Subset
  <2>2. Cardinality(hits \ once) = Cardinality(hits) - Cardinality(hits \cap once)
    BY <1>2, FS_Difference
  <2> QED BY <1>2, <2>1, <2>2, FS_CardinalityType
<1>6. 100 * Cardinality(hits \ once) <= Cardinality(hits)
  <2> DEFINE H == Cardinality(hits)
             F == Cardinality(hits \cap once)
  <2>1. H \in Nat /\ F \in Nat /\ F >= (99 * H + 99) \div 100
    BY <1>4, <1>5 DEF Gate
  <2> HIDE DEF H, F
  <2>2. 100 * ((99 * H + 99) \div 100) >= 99 * H
    BY <2>1
  <2>3. 100 * (H - F) <= H
    BY <2>1, <2>2
  <2> QED BY <1>5, <2>3 DEF H, F
<1>7. ASSUME NEW q \in hits \ once, day - accepted[q].ts > Day
      PROVE  \E i \in RowsOn(q) : scored[i].status = "permanent_failure"
  <2>1. ~final_healthy(q)
    BY <1>3
  <2>2. score_eligible(q)
    BY <1>1, ViewAssumption DEF score_eligible, ViewInv
  <2>3. ~is_orphan(q)
    BY DEF dod_pass
  <2>4. is_permanent_failure(q)
    BY <1>7, <2>1, <2>2, <2>3 DEF is_orphan
  <2>5. fold(q) \in RowsOn(q) /\ scored[fold(q)].status = "permanent_failure"
    BY <2>4, FoldPicks DEF is_permanent_failure
  <2> QED BY <2>5
<1> QED BY <1>6, <1>7

\* The view and the watchdog count the same orphans.
LEMMA OrphansAgree ==
    ASSUME ViewInv
    PROVE  {q \in Queries : is_orphan(q)} = _count_orphans \intersect real
BY DEF is_orphan, _count_orphans, real, hits, score_eligible, final_healthy, is_permanent_failure,
       ViewInv, ViewTyped

-----------------------------------------------------------------------------
(* The streak.                                                               *)

Counters == [run : [Codes -> Nat], max : Nat]

Zeros == [run |-> [c \in Codes |-> 0], max |-> 0]

LEMMA CountedFacts ==
    ASSUME NEW s \in Counters, NEW row
    PROVE  /\ Counted(s, row) \in Counters
           /\ row.rid \notin real => Counted(s, row) = s
           /\ row.rid \in real /\ healthy(row) =>
                /\ Counted(s, row).run = [c \in Codes |-> 0]
                /\ Counted(s, row).max = s.max
           /\ row.rid \in real /\ ~healthy(row) /\ row.code \notin Codes => Counted(s, row) = s
           /\ row.rid \in real /\ ~healthy(row) /\ row.code \in Codes =>
                /\ Counted(s, row).run[row.code] = s.run[row.code] + 1
                /\ \A c \in Codes \ {row.code} : Counted(s, row).run[c] = s.run[c]
                /\ Counted(s, row).max =
                     IF s.run[row.code] + 1 > s.max THEN s.run[row.code] + 1 ELSE s.max
<1>0. s.run \in [Codes -> Nat] /\ s.max \in Nat
  BY DEF Counters
<1>1. CASE row.rid \notin real
  BY <1>1 DEF Counted
<1>2. CASE row.rid \in real /\ healthy(row)
  <2> DEFINE x == [s EXCEPT !.run = [c \in Codes |-> 0]]
  <2>1. x.run = [c \in Codes |-> 0] /\ x.max = s.max /\ x \in Counters
    BY DEF Counters
  <2>2. Counted(s, row) = x
    BY <1>2 DEF Counted
  <2> HIDE DEF x
  <2> QED BY <1>2, <2>1, <2>2
<1>3. CASE row.rid \in real /\ ~healthy(row) /\ row.code \notin Codes
  BY <1>3 DEF Counted
<1>4. CASE row.rid \in real /\ ~healthy(row) /\ row.code \in Codes
  <2> DEFINE n == s.run[row.code] + 1
             x == [run |-> [s.run EXCEPT ![row.code] = n], max |-> IF n > s.max THEN n ELSE s.max]
  <2>1. Counted(s, row) = x
    BY <1>4 DEF Counted
  <2>2. n \in Nat /\ x.run = [s.run EXCEPT ![row.code] = n] /\ x.max = IF n > s.max THEN n ELSE s.max
    BY <1>0, <1>4
  <2>3. x.run \in [Codes -> Nat] /\ x.max \in Nat /\ x \in Counters
    BY <1>0, <1>4, <2>2 DEF Counters
  <2>4. x.run[row.code] = n /\ \A c \in Codes \ {row.code} : x.run[c] = s.run[c]
    BY <1>0, <1>4, <2>2
  <2> HIDE DEF x
  <2> QED BY <1>4, <2>1, <2>2, <2>3, <2>4
<1> QED BY <1>1, <1>2, <1>3, <1>4

\* The streaks are what their recursion says.
LEMMA StreaksFacts ==
    ASSUME ViewTyped
    PROVE  /\ Streaks[0] = Zeros /\ \A n \in 0..Len(scored) : Streaks[n] \in Counters
           /\ \A n \in 1..Len(scored) : Streaks[n] = Counted(Streaks[n - 1], scored[n])
<1> DEFINE N == Len(scored)
           g == [n \in Nat |-> [s \in Counters |-> Counted(s, scored[n])]]
           Meets(f) == f = [n \in 0..Len(scored) |-> IF n = 0 THEN [run |-> [c \in Codes |-> 0], max |-> 0]
                                                     ELSE Counted(f[n - 1], scored[n])]
<1>1. N \in Nat
  BY ScoredFacts
<1>2. Zeros \in Counters /\ Zeros = [run |-> [c \in Codes |-> 0], max |-> 0]
  BY DEF Zeros, Counters
<1>3. g \in [Nat -> [Counters -> Counters]]
  BY CountedFacts
<1>4. \A n \in Nat, s \in Counters : g[n][s] = Counted(s, scored[n])
  OBVIOUS
<1> HIDE DEF g, N
<1>5. PICK f \in [0..N -> Counters] : f[0] = Zeros /\ \A n \in 1..N : f[n] = g[n][f[n - 1]]
  <2>1. Zeros \in Counters
    BY <1>2
  <2>2. Unfolded(Counters, Zeros, g, N) # {}
    BY <1>1, <1>3, <2>1, Recursion
  <2> QED BY <2>2 DEF Unfolded
<1>6. \A n \in 1..N : n - 1 \in 0..N /\ n \in Nat
  BY <1>1
<1>7. \A n \in 0..N : f[n] = IF n = 0 THEN Zeros ELSE Counted(f[n - 1], scored[n])
  BY <1>1, <1>4, <1>5, <1>6
<1>8. Meets(f)
  BY <1>2, <1>5, <1>7 DEF N
<1>9. Streaks = CHOOSE h : Meets(h)
  BY DEF Streaks
<1> HIDE DEF Meets
<1>10. Meets(Streaks)
  BY <1>8, <1>9, Zenon
<1>11. Streaks = [n \in 0..N |-> IF n = 0 THEN Zeros ELSE Counted(Streaks[n - 1], scored[n])]
  BY <1>2, <1>10 DEF Meets, N
<1>12. Streaks[0] = Zeros /\ \A n \in 1..N : Streaks[n] = Counted(Streaks[n - 1], scored[n])
  BY <1>1, <1>6, <1>11
<1> DEFINE T == {n \in Nat : n <= N => Streaks[n] \in Counters}
<1>13. 0 \in T
  BY <1>2, <1>12
<1>14. ASSUME NEW n \in T PROVE n + 1 \in T
  <2>1. ASSUME n + 1 <= N PROVE Streaks[n + 1] \in Counters
    <3>1. n + 1 \in 1..N /\ (n + 1) - 1 = n /\ Streaks[n] \in Counters
      BY <1>1, <2>1
    <3>2. Streaks[n + 1] = Counted(Streaks[n], scored[n + 1])
      BY <1>12, <3>1
    <3> QED BY <3>1, <3>2, CountedFacts
  <2> QED BY <2>1
<1>15. T = Nat
  <2>1. T \in SUBSET Nat
    OBVIOUS
  <2> HIDE DEF T
  <2> QED BY <1>13, <1>14, <2>1, Induction
<1>16. \A n \in 0..N : Streaks[n] \in Counters
  BY <1>1, <1>15
<1> QED BY <1>12, <1>16 DEF N

\* The rows of one code up to the n-th that no healthy row follows.
Ours(i) == scored[i].rid \in real

Open(c, n) == {i \in 1..n : /\ Ours(i) /\ scored[i].code = c
                            /\ \A j \in i..n : Ours(j) => ~healthy(scored[j])}

LEMMA OpenIsFinite ==
    ASSUME NEW n \in Nat, NEW c
    PROVE  IsFiniteSet(Open(c, n)) /\ Cardinality(Open(c, n)) \in Nat
<1>1. Open(c, n) \in SUBSET (1..n) /\ IsFiniteSet(1..n)
  BY FS_Interval DEF Open
<1>2. IsFiniteSet(Open(c, n))
  BY <1>1, FS_Subset
<1> QED BY <1>2, FS_CardinalityType

\* How the open rows go on with a row.
LEMMA OpenGoesOn ==
    ASSUME NEW n \in Nat, NEW c \in Codes
    PROVE  /\ ~Ours(n + 1) => Open(c, n + 1) = Open(c, n)
           /\ Ours(n + 1) /\ healthy(scored[n + 1]) => Open(c, n + 1) = {}
           /\ Ours(n + 1) /\ ~healthy(scored[n + 1]) =>
                Open(c, n + 1) = IF scored[n + 1].code = c THEN Open(c, n) \cup {n + 1} ELSE Open(c, n)
<1>1. /\ 1..(n + 1) = (1..n) \cup {n + 1} /\ n + 1 \in (n + 1)..(n + 1) /\ n + 1 \notin 1..n
      /\ (n + 1)..(n + 1) = {n + 1}
  OBVIOUS
<1>2. \A i \in 1..n : i..(n + 1) = (i..n) \cup {n + 1}
  OBVIOUS
<1>3. \A i \in 1..n : i \in Open(c, n + 1) <=> i \in Open(c, n) /\ (Ours(n + 1) => ~healthy(scored[n + 1]))
  BY <1>1, <1>2 DEF Open
<1>4. n + 1 \in Open(c, n + 1) <=> Ours(n + 1) /\ scored[n + 1].code = c /\ ~healthy(scored[n + 1])
  BY <1>1 DEF Open
<1>5. Open(c, n + 1) \subseteq (1..n) \cup {n + 1} /\ Open(c, n) \subseteq 1..n
  BY <1>1 DEF Open
<1> HIDE DEF Open
<1> QED BY <1>1, <1>3, <1>4, <1>5

\* The counters count the open rows, and max is the most that were ever open.
LEMMA StreaksCountOpen ==
    ASSUME ViewTyped, NEW n \in 0..Len(scored)
    PROVE  /\ \A c \in Codes : Streaks[n].run[c] = Cardinality(Open(c, n))
           /\ \A k \in 0..n, c \in Codes : Cardinality(Open(c, k)) <= Streaks[n].max
           /\ Streaks[n].max > 0 => \E k \in 0..n, c \in Codes : Cardinality(Open(c, k)) = Streaks[n].max
<1> DEFINE Run(m) == \A c \in Codes : Streaks[m].run[c] = Cardinality(Open(c, m))
           Bound(m) == \A k \in 0..m, c \in Codes : Cardinality(Open(c, k)) <= Streaks[m].max
           Seen(m) == Streaks[m].max > 0 => \E k \in 0..m, c \in Codes : Cardinality(Open(c, k)) = Streaks[m].max
           T == {m \in Nat : m <= Len(scored) => Run(m) /\ Bound(m) /\ Seen(m)}
<1>1. Len(scored) \in Nat
  BY ScoredFacts
<1>2. 0 \in T
  <2>1. \A c : Open(c, 0) = {}
    BY DEF Open
  <2>2. Cardinality({}) = 0
    BY FS_EmptySet
  <2>3. Streaks[0] = Zeros /\ Zeros.max = 0 /\ \A c \in Codes : Zeros.run[c] = 0
    BY StreaksFacts DEF Zeros
  <2>4. Run(0)
    BY <2>1, <2>2, <2>3, SMTT(30)
  <2>5. Bound(0)
    BY <2>1, <2>2, <2>3
  <2>6. Seen(0)
    BY <2>3
  <2> HIDE DEF Run, Bound, Seen
  <2> QED BY <2>4, <2>5, <2>6
<1>3. ASSUME NEW m \in Nat, m + 1 <= Len(scored), Run(m), Bound(m), Seen(m)
      PROVE  Run(m + 1) /\ Bound(m + 1) /\ Seen(m + 1)
  <2> DEFINE row == scored[m + 1]
             s == Streaks[m]
             t == Streaks[m + 1]
  <2>1. m \in 0..Len(scored) /\ m + 1 \in 1..Len(scored) /\ m + 1 \in 0..Len(scored) /\ (m + 1) - 1 = m
    BY <1>1, <1>3
  <2>2. s \in Counters /\ t = Counted(s, row) /\ t \in Counters
    BY <2>1, StreaksFacts
  <2>3. s.run \in [Codes -> Nat] /\ s.max \in Nat /\ t.run \in [Codes -> Nat] /\ t.max \in Nat
    BY <2>2 DEF Counters
  <2>4. /\ \A c \in Codes : IsFiniteSet(Open(c, m)) /\ m + 1 \notin Open(c, m)
        /\ \A c \in Codes : Cardinality(Open(c, m)) \in Nat /\ Cardinality(Open(c, m) \cup {m + 1}) = Cardinality(Open(c, m)) + 1
    <3>1. \A c \in Codes : IsFiniteSet(Open(c, m)) /\ Cardinality(Open(c, m)) \in Nat
      BY OpenIsFinite
    <3>2. \A c \in Codes : m + 1 \notin Open(c, m)
      BY DEF Open
    <3> QED BY <3>1, <3>2, FS_AddElement
  <2>5. Cardinality({}) = 0
    BY FS_EmptySet
  <2>6. Ours(m + 1) <=> row.rid \in real
    BY DEF Ours
  <2> HIDE DEF row, s, t
  <2>7. Run(m + 1) /\ t.max >= s.max /\ (\A c \in Codes : t.run[c] <= t.max)
        /\ (t.max = s.max \/ \E c \in Codes : t.max = t.run[c])
    <3>0. /\ \A c \in Codes : s.run[c] = Cardinality(Open(c, m))
          /\ \A c \in Codes : s.run[c] <= s.max
      BY <1>3 DEF s
    <3>1. CASE row.rid \notin real
      <4>1. t = s
        BY <2>2, <3>1, CountedFacts
      <4>2. \A c \in Codes : Open(c, m + 1) = Open(c, m)
        BY <2>6, <3>1, OpenGoesOn
      <4> QED BY <2>3, <3>0, <4>1, <4>2 DEF t
    <3>2. CASE row.rid \in real /\ healthy(row)
      <4>1. t.run = [c \in Codes |-> 0] /\ t.max = s.max
        BY <2>2, <3>2, CountedFacts
      <4>2. \A c \in Codes : Open(c, m + 1) = {}
        BY <2>6, <3>2, OpenGoesOn DEF row
      <4>3. \A c \in Codes : t.run[c] = 0 /\ t.run[c] = Cardinality(Open(c, m + 1))
        BY <2>5, <4>1, <4>2
      <4> QED BY <2>3, <4>1, <4>3 DEF t
    <3>3. CASE row.rid \in real /\ ~healthy(row) /\ row.code \notin Codes
      <4>1. t = s
        BY <2>2, <3>3, CountedFacts
      <4>2. \A c \in Codes : Open(c, m + 1) = Open(c, m)
        BY <2>6, <3>3, OpenGoesOn DEF row
      <4> QED BY <2>3, <3>0, <4>1, <4>2 DEF t
    <3>4. CASE row.rid \in real /\ ~healthy(row) /\ row.code \in Codes
      <4>1. /\ t.run[row.code] = s.run[row.code] + 1
            /\ \A c \in Codes \ {row.code} : t.run[c] = s.run[c]
            /\ t.max = IF s.run[row.code] + 1 > s.max THEN s.run[row.code] + 1 ELSE s.max
        BY <2>2, <3>4, CountedFacts
      <4>2. /\ Open(row.code, m + 1) = Open(row.code, m) \cup {m + 1}
            /\ \A c \in Codes \ {row.code} : Open(c, m + 1) = Open(c, m)
        BY <2>6, <3>4, OpenGoesOn DEF row
      <4>3. \A c \in Codes : t.run[c] = Cardinality(Open(c, m + 1))
        BY <2>4, <3>0, <3>4, <4>1, <4>2
      <4>4. s.run[row.code] \in Nat
        BY <2>3, <3>4
      <4>5. t.max >= s.max /\ (t.max = s.max \/ t.max = t.run[row.code]) /\ t.run[row.code] <= t.max
        BY <2>3, <4>1, <4>4
      <4>6. \A c \in Codes : t.run[c] <= t.max
        BY <2>3, <3>0, <4>1, <4>5
      <4> QED BY <3>4, <4>3, <4>5, <4>6 DEF t
    <3> QED BY <3>1, <3>2, <3>3, <3>4
  <2>8. Bound(m + 1)
    <3>1. ASSUME NEW k \in 0..(m + 1), NEW c \in Codes PROVE Cardinality(Open(c, k)) <= t.max
      <4>1. CASE k = m + 1
        BY <2>7, <4>1 DEF t
      <4>2. CASE k # m + 1
        <5>1. k \in 0..m
          BY <4>2
        <5>2. Cardinality(Open(c, k)) <= s.max /\ Cardinality(Open(c, k)) \in Nat
          BY <1>3, <5>1, OpenIsFinite DEF s
        <5> QED BY <2>3, <2>7, <5>2
      <4> QED BY <4>1, <4>2
    <3> QED BY <3>1 DEF t
  <2>9. Seen(m + 1)
    <3>1. ASSUME t.max > 0 PROVE \E k \in 0..(m + 1), c \in Codes : Cardinality(Open(c, k)) = t.max
      <4>1. CASE t.max = s.max
        <5>1. PICK k \in 0..m, c \in Codes : Cardinality(Open(c, k)) = s.max
          BY <1>3, <3>1, <4>1 DEF s
        <5>2. k \in 0..(m + 1)
          OBVIOUS
        <5> QED BY <4>1, <5>1, <5>2
      <4>2. CASE \E c \in Codes : t.max = t.run[c]
        <5>1. PICK c \in Codes : t.max = t.run[c]
          BY <4>2
        <5>2. Cardinality(Open(c, m + 1)) = t.max /\ m + 1 \in 0..(m + 1)
          BY <2>7, <5>1 DEF t
        <5> QED BY <5>2
      <4> QED BY <2>7, <4>1, <4>2
    <3> QED BY <3>1 DEF t
  <2> QED BY <2>7, <2>8, <2>9
<1>4. ASSUME NEW m \in T PROVE m + 1 \in T
  <2>1. ASSUME m + 1 <= Len(scored) PROVE Run(m + 1) /\ Bound(m + 1) /\ Seen(m + 1)
    <3>1. m \in Nat /\ m <= Len(scored)
      BY <1>1, <2>1
    <3>2. Run(m) /\ Bound(m) /\ Seen(m)
      BY <3>1
    <3> HIDE DEF Run, Bound, Seen
    <3> QED BY <1>3, <2>1, <3>1, <3>2
  <2>2. m + 1 \in Nat
    OBVIOUS
  <2> HIDE DEF Run, Bound, Seen
  <2> QED BY <2>1, <2>2
<1>5. T = Nat
  <2> HIDE DEF Run, Bound, Seen
  <2>1. T \in SUBSET Nat
    OBVIOUS
  <2> HIDE DEF T
  <2> QED BY <1>2, <1>4, <2>1, Induction
<1>6. Run(n) /\ Bound(n) /\ Seen(n)
  <2> HIDE DEF Run, Bound, Seen
  <2> QED BY <1>1, <1>5
<1> QED BY <1>6

\* The streak is the longest run of one code with no healthy row in it.
LEMMA StreakIsLongest ==
    ASSUME ViewTyped, NEW n \in 1..Len(scored)
    PROVE  LET Run(c, a, b) == {i \in a..b : Ours(i) /\ scored[i].code = c}
           IN  max_streak >= n <=> \E c \in Codes, a, b \in DOMAIN scored :
                               /\ Cardinality(Run(c, a, b)) >= n
                               /\ \A i \in a..b : Ours(i) => ~healthy(scored[i])
<1> DEFINE Run(c, a, b) == {i \in a..b : Ours(i) /\ scored[i].code = c}
           L == Len(scored)
<1>1. L \in Nat /\ DOMAIN scored = 1..L /\ n \in Nat /\ n > 0 /\ n <= L /\ L \in 0..L
  BY ScoredFacts
<1>2. /\ \A k \in 0..L, c \in Codes : Cardinality(Open(c, k)) <= max_streak
      /\ max_streak > 0 => \E k \in 0..L, c \in Codes : Cardinality(Open(c, k)) = max_streak
      /\ max_streak \in Nat
  BY <1>1, StreaksCountOpen, StreaksFacts DEF max_streak, Counters
<1> HIDE DEF L
<1>3. \A c \in Codes, a \in 1..L, b \in 1..L : IsFiniteSet(Run(c, a, b)) /\ Cardinality(Run(c, a, b)) \in Nat
  <2> TAKE c \in Codes, a \in 1..L, b \in 1..L
  <2>1. Run(c, a, b) \in SUBSET (a..b) /\ IsFiniteSet(a..b)
    BY FS_Interval
  <2> HIDE DEF Run
  <2>2. IsFiniteSet(Run(c, a, b))
    BY <2>1, FS_Subset
  <2> QED BY <2>2, FS_CardinalityType
<1>4. ASSUME max_streak >= n
      PROVE  \E c \in Codes, a, b \in DOMAIN scored :
               /\ Cardinality(Run(c, a, b)) >= n
               /\ \A i \in a..b : Ours(i) => ~healthy(scored[i])
  <2>1. PICK k \in 0..L, c \in Codes : Cardinality(Open(c, k)) = max_streak
    BY <1>1, <1>2, <1>4
  <2>2. Open(c, k) # {}
    <3> SUFFICES ASSUME Open(c, k) = {} PROVE FALSE
      OBVIOUS
    <3> QED BY <1>1, <1>4, <2>1, FS_EmptySet
  <2>3. Open(c, k) \in SUBSET Nat
    BY DEF Open
  <2>4. PICK a \in Open(c, k) : \A i \in Open(c, k) : a <= i
    BY <2>2, <2>3, LeastNumber
  <2>5. a \in 1..k /\ \A i \in a..k : Ours(i) => ~healthy(scored[i])
    BY <2>4 DEF Open
  <2>6. a \in 1..L /\ k \in 1..L
    BY <1>1, <2>5
  <2>7. Open(c, k) \in SUBSET Run(c, a, k)
    BY <2>4, <2>6 DEF Open
  <2>8. Cardinality(Open(c, k)) <= Cardinality(Run(c, a, k))
    <3> HIDE DEF Run
    <3> QED BY <1>3, <2>6, <2>7, FS_Subset
  <2>9. Cardinality(Run(c, a, k)) >= n
    <3> HIDE DEF Run
    <3>1. Cardinality(Run(c, a, k)) \in Nat
      BY <1>3, <2>6
    <3>2. Cardinality(Run(c, a, k)) >= max_streak
      BY <2>1, <2>8
    <3> QED BY <1>1, <1>2, <1>4, <3>1, <3>2
  <2> HIDE DEF Run
  <2> QED BY <1>1, <2>5, <2>6, <2>9
<1>5. ASSUME NEW c \in Codes, NEW a \in DOMAIN scored, NEW b \in DOMAIN scored,
             Cardinality(Run(c, a, b)) >= n, \A i \in a..b : Ours(i) => ~healthy(scored[i])
      PROVE  max_streak >= n
  <2>1. a \in 1..L /\ b \in 1..L /\ b \in 0..L /\ b \in Nat
    BY <1>1, <1>5
  <2>2. Run(c, a, b) \in SUBSET Open(c, b)
    BY <1>5, <2>1 DEF Open
  <2> HIDE DEF Run
  <2>3. Cardinality(Run(c, a, b)) <= Cardinality(Open(c, b)) /\ Cardinality(Open(c, b)) \in Nat
    BY <2>1, <2>2, OpenIsFinite, FS_Subset
  <2>4. Cardinality(Open(c, b)) <= max_streak
    BY <1>2, <2>1
  <2>5. Cardinality(Run(c, a, b)) \in Nat /\ Cardinality(Run(c, a, b)) <= max_streak
    BY <1>2, <1>3, <2>1, <2>3, <2>4
  <2> QED BY <1>1, <1>2, <1>5, <2>5
<1> HIDE DEF Run
<1>6. max_streak >= n <=> \E c \in Codes, a, b \in DOMAIN scored :
                               /\ Cardinality(Run(c, a, b)) >= n
                               /\ \A i \in a..b : Ours(i) => ~healthy(scored[i])
  BY <1>4, <1>5
<1> QED BY <1>6 DEF Run

\* What the view reports is what happened, for any ledger (materialize.py).
THEOREM ViewIsTrue == ViewSpec => []ViewTellsWhatHappened
<1>1. ViewInv => ViewTellsWhatHappened
  <2> SUFFICES ASSUME ViewInv PROVE ViewTellsWhatHappened
    OBVIOUS
  <2>1. \A n \in 1..Len(scored) :
           LET Run(c, a, b) == {i \in a..b : Ours(i) /\ scored[i].code = c}
           IN  max_streak >= n <=> \E c \in Codes, a, b \in DOMAIN scored :
                               /\ Cardinality(Run(c, a, b)) >= n
                               /\ \A i \in a..b : Ours(i) => ~healthy(scored[i])
    BY StreakIsLongest DEF ViewInv
  <2>2. LET Own(i) == scored[i].rid \in real
            Run(c, a, b) == {i \in a..b : Own(i) /\ scored[i].code = c}
            streak == max_streak
        IN  \A n \in 1..Len(scored) :
             streak >= n <=> \E c \in Codes, a, b \in DOMAIN scored :
                               /\ Cardinality(Run(c, a, b)) >= n
                               /\ \A i \in a..b : Own(i) => ~healthy(scored[i])
    BY <2>1, Zenon DEF Ours
  <2> QED BY <2>2, ClosedWhenScored, PassLeavesNone, OrphansAgree, Zenon DEF ViewTellsWhatHappened
<1> QED BY <1>1, ViewInvHolds, PTL


-----------------------------------------------------------------------------
(* EverosFeed.                                                               *)

ArchiveMessage == [role : Kinds, id : BOOLEAN, mark : BOOLEAN, ts : Nat]

Forms == [role : {"user", "assistant", "tool"}, call : BOOLEAN, mark : BOOLEAN, ts : Nat,
          text : Seq(Nat)]

Rising(s) == \A i, j \in 1..Len(s) : i < j => s[i] < s[j]
Below(A, B) == \A a \in A, b \in B : a < b

\* The texts of some messages, as a set.
AllTexts(ms) == UNION {ToSet(ms[i].text) : i \in 1..Len(ms)}

\* The texts of the messages rise, from one to the next and in each.
InLine(ms) ==
    /\ Len(ms) \in Nat
    /\ \A i \in 1..Len(ms) : ms[i].text \in Seq(Nat) /\ Rising(ms[i].text)
    /\ \A i, j \in 1..Len(ms) : i < j => Below(ToSet(ms[i].text), ToSet(ms[j].text))

\* The messages that have a form for EverOS, and those that may have no anchor.
KeptOf(ms) == {i \in 1..Len(ms) : ms[i].role \notin {"system", "other"}}
ToolsOf(ms) ==
    {i \in 1..Len(ms) : \/ ms[i].role \in {"tool_call", "tool_result", "reasoning"}
                        \/ ms[i].role = "assistant" /\ ms[i].mark}

\* out holds the texts S of the conversation ms, and orphans hold no answers.
Tidy(out, ms, S) ==
    /\ out \in Seq(Forms) /\ InLine(out) /\ AllTexts(out) = S
    /\ \A j \in 1..Len(out) : _is_orphan_text(out[j]) => ToSet(out[j].text) \subseteq ToolsOf(ms)

LEMMA ToSetFacts ==
    ASSUME NEW s \in Seq(Nat)
    PROVE  /\ ToSet(s) = {s[i] : i \in 1..Len(s)} /\ ToSet(s) \subseteq Nat /\ Len(s) \in Nat
           /\ \A i \in 1..Len(s) : s[i] \in Nat /\ s[i] \in ToSet(s)
<1>1. DOMAIN s = 1..Len(s) /\ Len(s) \in Nat /\ \A i \in 1..Len(s) : s[i] \in Nat
  BY LenProperties, ElementOfSeq
<1> QED BY <1>1 DEF ToSet

LEMMA Glued ==
    ASSUME NEW a \in Seq(Nat), NEW b \in Seq(Nat), Rising(a), Rising(b), Below(ToSet(a), ToSet(b))
    PROVE  a \o b \in Seq(Nat) /\ Rising(a \o b) /\ ToSet(a \o b) = ToSet(a) \union ToSet(b)
<1> DEFINE c == a \o b
<1>1. /\ c \in Seq(Nat) /\ Len(c) = Len(a) + Len(b)
      /\ \A i \in 1..(Len(a) + Len(b)) : c[i] = IF i <= Len(a) THEN a[i] ELSE b[i - Len(a)]
  BY ConcatProperties
<1>2. /\ Len(a) \in Nat /\ \A i \in 1..Len(a) : a[i] \in ToSet(a)
      /\ Len(b) \in Nat /\ \A i \in 1..Len(b) : b[i] \in ToSet(b)
      /\ ToSet(a) = {a[i] : i \in 1..Len(a)} /\ ToSet(b) = {b[i] : i \in 1..Len(b)}
  BY ToSetFacts
<1> HIDE DEF c
<1>3. \A i \in 1..Len(c) : \/ i \in 1..Len(a) /\ c[i] = a[i]
                           \/ i > Len(a) /\ i - Len(a) \in 1..Len(b) /\ c[i] = b[i - Len(a)]
  BY <1>1, <1>2
<1>4. Rising(c)
  <2> SUFFICES ASSUME NEW i \in 1..Len(c), NEW j \in 1..Len(c), i < j PROVE c[i] < c[j]
    BY DEF Rising
  <2>1. CASE i \in 1..Len(a) /\ j \in 1..Len(a) /\ c[i] = a[i] /\ c[j] = a[j]
    BY <2>1 DEF Rising
  <2>2. CASE i \in 1..Len(a) /\ c[i] = a[i] /\ j > Len(a) /\ j - Len(a) \in 1..Len(b) /\ c[j] = b[j - Len(a)]
    BY <1>2, <2>2 DEF Below
  <2>3. CASE /\ i > Len(a) /\ i - Len(a) \in 1..Len(b) /\ c[i] = b[i - Len(a)]
             /\ j > Len(a) /\ j - Len(a) \in 1..Len(b) /\ c[j] = b[j - Len(a)]
    <3>1. i - Len(a) < j - Len(a)
      BY <1>1, <1>2, <2>3
    <3> QED BY <2>3, <3>1 DEF Rising
  <2>4. i > Len(a) => j > Len(a)
    BY <1>1, <1>2
  <2> QED BY <1>2, <1>3, <2>1, <2>2, <2>3, <2>4
<1>5. \A x \in ToSet(a) \union ToSet(b) : \E i \in 1..Len(c) : c[i] = x
  <2>1. \A i \in 1..Len(a) : i \in 1..Len(c) /\ c[i] = a[i]
    BY <1>1, <1>2
  <2>2. ASSUME NEW i \in 1..Len(b) PROVE i + Len(a) \in 1..Len(c) /\ c[i + Len(a)] = b[i]
    <3>1. /\ i + Len(a) \in 1..(Len(a) + Len(b)) /\ ~(i + Len(a) <= Len(a))
          /\ (i + Len(a)) - Len(a) = i
      BY <1>2
    <3> QED BY <1>1, <3>1
  <2> QED BY <1>2, <2>1, <2>2
<1>6. ToSet(c) = {c[i] : i \in 1..Len(c)}
  BY <1>1, ToSetFacts
<1>7. ToSet(c) = ToSet(a) \union ToSet(b)
  <2>1. \A i \in 1..Len(c) : c[i] \in ToSet(a) \union ToSet(b)
    BY <1>2, <1>3
  <2> QED BY <1>5, <1>6, <2>1
<1> QED BY <1>1, <1>4, <1>7 DEF c

\* A form with later texts may be put behind the others.
LEMMA TidyAppend ==
    ASSUME NEW ms, NEW out, NEW S \in SUBSET Nat, Tidy(out, ms, S), NEW m \in Forms, Rising(m.text),
           _is_orphan_text(m) => ToSet(m.text) \subseteq ToolsOf(ms), Below(S, ToSet(m.text))
    PROVE  Tidy(Append(out, m), ms, S \union ToSet(m.text))
<1> DEFINE new == Append(out, m)
<1>1. /\ new \in Seq(Forms) /\ Len(new) = Len(out) + 1 /\ Len(out) \in Nat
      /\ \A i \in 1..Len(out) : new[i] = out[i]
      /\ new[Len(out) + 1] = m
  BY AppendProperties, LenProperties DEF Tidy
<1> HIDE DEF new
<1>2. m.text \in Seq(Nat)
  BY DEF Forms
<1>3. \A i \in 1..Len(new) : (i \in 1..Len(out) /\ new[i] = out[i]) \/ (i = Len(out) + 1 /\ new[i] = m)
  BY <1>1
<1>4. \A i \in 1..Len(out) : ToSet(out[i].text) \subseteq S
  BY DEF Tidy, AllTexts
<1>5. AllTexts(new) = S \union ToSet(m.text)
  <2>1. \A i \in 1..Len(out) : i \in 1..Len(new) /\ new[i] = out[i]
    BY <1>1
  <2>2. Len(out) + 1 \in 1..Len(new)
    BY <1>1
  <2>3. AllTexts(out) \union ToSet(m.text) \subseteq AllTexts(new)
    BY <1>1, <2>1, <2>2 DEF AllTexts
  <2>4. AllTexts(new) \subseteq AllTexts(out) \union ToSet(m.text)
    BY <1>3 DEF AllTexts
  <2> QED BY <2>3, <2>4 DEF Tidy
<1>6. \A i \in 1..Len(new) : new[i].text \in Seq(Nat) /\ Rising(new[i].text)
  BY <1>2, <1>3 DEF Tidy, InLine
<1>7. \A i \in 1..Len(new) : _is_orphan_text(new[i]) => ToSet(new[i].text) \subseteq ToolsOf(ms)
  BY <1>3 DEF Tidy
<1>8. ASSUME NEW i \in 1..Len(new), NEW j \in 1..Len(new), i < j
      PROVE  Below(ToSet(new[i].text), ToSet(new[j].text))
  <2>1. i \in 1..Len(out) /\ new[i] = out[i]
    BY <1>1, <1>8
  <2>2. CASE j \in 1..Len(out)
    BY <1>1, <1>8, <2>1, <2>2 DEF Tidy, InLine
  <2>3. CASE new[j] = m
    BY <1>4, <2>1, <2>3 DEF Below
  <2> QED BY <1>3, <2>2, <2>3
<1>9. InLine(new)
  BY <1>1, <1>6, <1>8 DEF InLine
<1> QED BY <1>1, <1>5, <1>7, <1>9 DEF Tidy, new

\* Or join the last of them, unless that puts an answer into an orphan.
LEMMA TidyMerge ==
    ASSUME NEW ms, NEW out, NEW S \in SUBSET Nat, Tidy(out, ms, S), NEW m \in Forms, Rising(m.text),
           ToSet(m.text) \subseteq ToolsOf(ms), Below(S, ToSet(m.text)), out # << >>
    PROVE  Tidy(Merge(out, m), ms, S \union ToSet(m.text))
<1> DEFINE k == Len(out)
           e == [out[k] EXCEPT !.text = @ \o m.text]
           new == Merge(out, m)
<1>1. out \in Seq(Forms) /\ k \in Nat /\ k \in 1..Len(out) /\ k \in 1..k /\ out[k] \in Forms
  BY EmptySeq, LenProperties, ElementOfSeq DEF Tidy
<1>2. m.text \in Seq(Nat) /\ out[k].text \in Seq(Nat) /\ Rising(out[k].text)
  BY <1>1 DEF Forms, Tidy, InLine
<1>3. \A i \in 1..k : ToSet(out[i].text) \subseteq S
  BY DEF Tidy, AllTexts
<1>4. Below(ToSet(out[k].text), ToSet(m.text))
  BY <1>1, <1>3 DEF Below
<1>5. /\ out[k].text \o m.text \in Seq(Nat) /\ Rising(out[k].text \o m.text)
      /\ ToSet(out[k].text \o m.text) = ToSet(out[k].text) \union ToSet(m.text)
  BY <1>2, <1>4, Glued
<1>6. e \in Forms /\ e.text = out[k].text \o m.text /\ (_is_orphan_text(e) <=> _is_orphan_text(out[k]))
  BY <1>1, <1>5 DEF Forms, _is_orphan_text
<1>7. new = [out EXCEPT ![k] = e]
  BY DEF Merge
<1> HIDE DEF e, new
<1>8. new \in Seq(Forms) /\ Len(new) = k /\ \A i \in 1..k : new[i] = IF i = k THEN e ELSE out[i]
  BY <1>1, <1>6, <1>7, ExceptSeq
<1>9. new[k] = e /\ \A i \in 1..k : i # k => new[i] = out[i]
  BY <1>1, <1>8
<1>10. /\ \A i \in 1..k : i # k => ToSet(new[i].text) = ToSet(out[i].text)
       /\ ToSet(new[k].text) = ToSet(out[k].text) \union ToSet(m.text)
  BY <1>5, <1>6, <1>9
<1>11. AllTexts(new) = S \union ToSet(m.text)
  <2>1. AllTexts(new) \subseteq AllTexts(out) \union ToSet(m.text)
    BY <1>1, <1>8, <1>10 DEF AllTexts
  <2>2. AllTexts(out) \union ToSet(m.text) \subseteq AllTexts(new)
    BY <1>1, <1>8, <1>10 DEF AllTexts
  <2> QED BY <2>1, <2>2 DEF Tidy
<1>12. \A i \in 1..k : new[i].text \in Seq(Nat) /\ Rising(new[i].text)
  BY <1>5, <1>6, <1>9 DEF Tidy, InLine
<1>13. \A i \in 1..k : _is_orphan_text(new[i]) => ToSet(new[i].text) \subseteq ToolsOf(ms)
  BY <1>1, <1>6, <1>9, <1>10 DEF Tidy
<1>14. ASSUME NEW i \in 1..k, NEW j \in 1..k, i < j
       PROVE  Below(ToSet(new[i].text), ToSet(new[j].text))
  <2>1. i # k /\ Below(ToSet(out[i].text), ToSet(out[j].text))
    BY <1>1, <1>14 DEF Tidy, InLine
  <2>2. Below(ToSet(out[i].text), ToSet(m.text))
    BY <1>3 DEF Below
  <2> QED BY <1>10, <2>1, <2>2 DEF Below
<1>15. InLine(new)
  BY <1>1, <1>8, <1>12, <1>14 DEF InLine
<1> QED BY <1>8, <1>11, <1>13, <1>15 DEF Tidy, new

-----------------------------------------------------------------------------
(* What the adapter makes of a conversation.                                 *)

LEMMA FormFacts ==
    ASSUME NEW ms \in Seq(ArchiveMessage), NEW i \in 1..Len(ms)
    PROVE  /\ Form(ms, i) \in Seq(Forms)
           /\ \/ i \notin KeptOf(ms) /\ Form(ms, i) = << >>
              \/ /\ i \in KeptOf(ms)
                 /\ \E m \in Forms : /\ Form(ms, i) = <<m>> /\ m.text = <<i>>
                                     /\ _is_orphan_text(m) => i \in ToolsOf(ms)
<1>1. /\ ms[i] \in ArchiveMessage /\ i \in Nat /\ ms[i].role \in Kinds /\ ms[i].ts \in Nat
      /\ ms[i].id \in BOOLEAN /\ ms[i].mark \in BOOLEAN
  <2>1. ms[i] \in ArchiveMessage /\ i \in Nat
    BY ElementOfSeq, LenProperties
  <2> QED BY <2>1 DEF ArchiveMessage
<1>2. \A r \in {"user", "assistant", "tool"}, c, k \in BOOLEAN :
         /\ Prepared(r, c, k, ms[i].ts, i) \in Forms
         /\ <<Prepared(r, c, k, ms[i].ts, i)>> \in Seq(Forms)
         /\ Prepared(r, c, k, ms[i].ts, i).text = <<i>>
         /\ _is_orphan_text(Prepared(r, c, k, ms[i].ts, i)) <=> (r = "assistant" /\ ~c /\ k)
  <2> TAKE r \in {"user", "assistant", "tool"}, c, k \in BOOLEAN
  <2> DEFINE m == Prepared(r, c, k, ms[i].ts, i)
  <2>1. <<i>> \in Seq(Nat)
    BY <1>1
  <2>2. m \in Forms /\ m.text = <<i>> /\ (_is_orphan_text(m) <=> (r = "assistant" /\ ~c /\ k))
    BY <1>1, <2>1 DEF Prepared, Forms, _is_orphan_text
  <2> HIDE DEF m
  <2>3. <<m>> \in Seq(Forms)
    BY <2>2
  <2> QED BY <2>2, <2>3 DEF m
<1>3. CASE ms[i].role \in {"user", "assistant"}
  <2> DEFINE m == Prepared(ms[i].role, FALSE, ms[i].mark, ms[i].ts, i)
  <2>1. Form(ms, i) = <<m>>
    BY <1>3 DEF Form
  <2>2. i \in KeptOf(ms) /\ (ms[i].role = "assistant" /\ ms[i].mark => i \in ToolsOf(ms))
    BY <1>3 DEF KeptOf, ToolsOf
  <2>3. /\ m \in Forms /\ <<m>> \in Seq(Forms) /\ m.text = <<i>>
        /\ _is_orphan_text(m) => (ms[i].role = "assistant" /\ ms[i].mark)
    BY <1>1, <1>2, <1>3
  <2> HIDE DEF m
  <2> QED BY <2>1, <2>2, <2>3
<1>4. CASE ms[i].role = "tool_call" /\ ms[i].id
  <2> DEFINE m == Prepared("assistant", TRUE, ms[i].mark, ms[i].ts, i)
  <2>1. Form(ms, i) = <<m>>
    BY <1>4 DEF Form
  <2>2. i \in KeptOf(ms)
    BY <1>4 DEF KeptOf
  <2>3. m \in Forms /\ <<m>> \in Seq(Forms) /\ m.text = <<i>> /\ ~ _is_orphan_text(m)
    BY <1>1, <1>2, <1>4
  <2> HIDE DEF m
  <2> QED BY <2>1, <2>2, <2>3
<1>5. CASE ms[i].role = "tool_result" /\ ms[i].id
  <2> DEFINE m == Prepared("tool", FALSE, ms[i].mark, ms[i].ts, i)
  <2>1. Form(ms, i) = <<m>>
    BY <1>5 DEF Form
  <2>2. i \in KeptOf(ms)
    BY <1>5 DEF KeptOf
  <2>3. m \in Forms /\ <<m>> \in Seq(Forms) /\ m.text = <<i>> /\ ~ _is_orphan_text(m)
    BY <1>1, <1>2, <1>5
  <2> HIDE DEF m
  <2> QED BY <2>1, <2>2, <2>3
<1>6. CASE /\ ms[i].role \in {"tool_call", "tool_result", "reasoning"}
           /\ ms[i].role \in {"tool_call", "tool_result"} => ~ ms[i].id
  <2> DEFINE m == Prepared("assistant", FALSE, TRUE, ms[i].ts, i)
  <2>1. Form(ms, i) = <<m>>
    BY <1>6 DEF Form
  <2>2. i \in KeptOf(ms) /\ i \in ToolsOf(ms)
    BY <1>6 DEF KeptOf, ToolsOf
  <2>3. m \in Forms /\ <<m>> \in Seq(Forms) /\ m.text = <<i>>
    BY <1>1, <1>2, <1>6
  <2> HIDE DEF m
  <2> QED BY <2>1, <2>2, <2>3
<1>7. CASE ms[i].role \in {"system", "other"}
  <2>1. Form(ms, i) = << >>
    BY <1>7 DEF Form
  <2> QED BY <1>7, <2>1 DEF KeptOf
<1> QED BY <1>1, <1>3, <1>4, <1>5, <1>6, <1>7 DEF Kinds

LEMMA MappedUnfolds ==
    ASSUME NEW ms \in Seq(ArchiveMessage)
    PROVE  \A i \in 0..Len(ms) :
             Mapped(ms)[i] = IF i = 0 THEN << >> ELSE Mapped(ms)[i - 1] \o Form(ms, i)
<1> DEFINE n == Len(ms)
           S == Seq(Forms)
           g == [i \in Nat |-> [out \in S |-> IF i \in 1..n THEN out \o Form(ms, i) ELSE out]]
           Meets(f) == f = [i \in 0..n |-> IF i = 0 THEN << >> ELSE f[i - 1] \o Form(ms, i)]
<1>1. n \in Nat /\ << >> \in S /\ \A i \in 1..n, out \in S : out \o Form(ms, i) \in S
  BY FormFacts, LenProperties, ConcatProperties, EmptySeq
<1> HIDE DEF S, n
<1>2. g \in [Nat -> [S -> S]] /\ \A i \in 1..n, out \in S : g[i][out] = out \o Form(ms, i)
  BY <1>1
<1> HIDE DEF g
<1>3. PICK f \in [0..n -> S] : f[0] = << >> /\ \A i \in 1..n : f[i] = g[i][f[i - 1]]
  <2>1. Unfolded(S, << >>, g, n) # {}
    BY <1>1, <1>2, Recursion
  <2> QED BY <2>1 DEF Unfolded
<1>4. \A i \in 0..n : f[i] = IF i = 0 THEN << >> ELSE f[i - 1] \o Form(ms, i)
  <2>1. \A i \in 0..n : i # 0 => i \in 1..n /\ i - 1 \in 0..n
    BY <1>1
  <2>2. \A i \in 1..n : f[i - 1] \in S
    BY <1>1, <1>3, <2>1
  <2> QED BY <1>2, <1>3, <2>1, <2>2
<1>5. Meets(f)
  BY <1>3, <1>4
<1> HIDE DEF Meets
<1>6. Mapped(ms) = CHOOSE f_1 : Meets(f_1)
  BY DEF Mapped, Meets, n
<1>7. Meets(Mapped(ms))
  BY <1>5, <1>6, Zenon
<1> QED BY <1>7 DEF Meets, n

\* What is mapped holds the kept messages, one each.
LEMMA MappedFacts ==
    ASSUME NEW ms \in Seq(ArchiveMessage)
    PROVE  Tidy(map_to_add_messages(ms), ms, KeptOf(ms))
<1> DEFINE n == Len(ms)
           Upto(i) == {k \in KeptOf(ms) : k <= i}
           T == {i \in Nat : i <= n => Tidy(Mapped(ms)[i], ms, Upto(i))}
<1>1. n \in Nat /\ KeptOf(ms) \subseteq 1..n
  BY LenProperties DEF KeptOf
<1>2. 0 \in T
  <2>1. Mapped(ms)[0] = << >>
    BY <1>1, MappedUnfolds
  <2>2. Upto(0) = {}
    BY <1>1
  <2>3. << >> \in Seq(Forms) /\ Len(<< >>) = 0
    BY EmptySeq
  <2>4. Tidy(<< >>, ms, {})
    BY <2>3 DEF Tidy, InLine, AllTexts
  <2> QED BY <2>1, <2>2, <2>4
<1>3. ASSUME NEW i \in T PROVE i + 1 \in T
  <2> SUFFICES ASSUME i + 1 <= n PROVE Tidy(Mapped(ms)[i + 1], ms, Upto(i + 1))
    BY <1>3
  <2>1. i \in Nat /\ i + 1 \in 1..n /\ i + 1 \in 0..n /\ (i + 1) - 1 = i /\ i + 1 # 0
    BY <1>1
  <2> DEFINE out == Mapped(ms)[i]
  <2>2. Mapped(ms)[i + 1] = out \o Form(ms, i + 1)
    BY <2>1, MappedUnfolds
  <2>3. Tidy(out, ms, Upto(i)) /\ Upto(i) \in SUBSET Nat /\ out \in Seq(Forms)
    BY <1>1, <2>1 DEF Tidy
  <2> HIDE DEF out
  <2>4. CASE i + 1 \notin KeptOf(ms) /\ Form(ms, i + 1) = << >>
    <3>1. Upto(i + 1) = Upto(i)
      BY <1>1, <2>1, <2>4
    <3>2. Mapped(ms)[i + 1] = out
      BY <2>2, <2>3, <2>4, ConcatEmptySeq
    <3> QED BY <2>3, <3>1, <3>2
  <2>5. ASSUME NEW m \in Forms, i + 1 \in KeptOf(ms), Form(ms, i + 1) = <<m>>, m.text = <<i + 1>>,
               _is_orphan_text(m) => i + 1 \in ToolsOf(ms)
        PROVE  Tidy(Mapped(ms)[i + 1], ms, Upto(i + 1))
    <3>1. Mapped(ms)[i + 1] = Append(out, m)
      BY <2>2, <2>3, <2>5, AppendIsConcat
    <3>2. /\ m.text \in Seq(Nat) /\ Len(m.text) = 1 /\ m.text[1] = i + 1
      BY <2>1, <2>5
    <3>3. ToSet(m.text) = {i + 1} /\ Rising(m.text)
      BY <3>2, ToSetFacts DEF Rising
    <3>4. Upto(i + 1) = Upto(i) \union ToSet(m.text)
      BY <1>1, <2>1, <2>5, <3>3
    <3>5. Below(Upto(i), ToSet(m.text))
      BY <1>1, <2>1, <3>3 DEF Below
    <3>6. _is_orphan_text(m) => ToSet(m.text) \subseteq ToolsOf(ms)
      BY <2>5, <3>3
    <3>7. Tidy(Append(out, m), ms, Upto(i) \union ToSet(m.text))
      BY <2>3, <3>3, <3>5, <3>6, TidyAppend
    <3> QED BY <3>1, <3>4, <3>7
  <2> QED BY <2>1, <2>4, <2>5, FormFacts
<1>4. T = Nat
  <2>1. T \in SUBSET Nat
    OBVIOUS
  <2> HIDE DEF T
  <2> QED BY <1>2, <1>3, <2>1, Induction
<1>5. Tidy(Mapped(ms)[n], ms, Upto(n))
  <2>1. n \in {i \in Nat : i <= n => Tidy(Mapped(ms)[i], ms, Upto(i))}
    BY <1>1, <1>4, Zenon
  <2>2. n <= n
    BY <1>1
  <2> QED BY <2>1, <2>2
<1>6. Upto(n) = KeptOf(ms)
  BY <1>1
<1> QED BY <1>5, <1>6 DEF map_to_add_messages

LEMMA AbsorbTyped ==
    ASSUME NEW out \in Seq(Forms), NEW m \in Forms
    PROVE  Absorb(out, m) \in Seq(Forms)
<1>1. Append(out, m) \in Seq(Forms)
  BY AppendProperties
<1>2. ASSUME out # << >> PROVE Merge(out, m) \in Seq(Forms)
  <2> DEFINE k == Len(out)
             e == [out[k] EXCEPT !.text = @ \o m.text]
  <2>1. k \in 1..Len(out) /\ out[k] \in Forms
    BY <1>2, EmptySeq, ElementOfSeq
  <2>2. out[k].text \o m.text \in Seq(Nat)
    BY <2>1, ConcatProperties DEF Forms
  <2>3. e \in Forms
    BY <2>1, <2>2 DEF Forms
  <2>4. Merge(out, m) = [out EXCEPT ![k] = e]
    BY DEF Merge
  <2> HIDE DEF e
  <2> QED BY <2>1, <2>3, <2>4, ExceptSeq
<1> QED BY <1>1, <1>2 DEF Absorb

LEMMA JoinedUnfolds ==
    ASSUME NEW ms \in Seq(Forms)
    PROVE  \A i \in 0..Len(ms) :
             Joined(ms)[i] = IF i = 0 THEN << >> ELSE Absorb(Joined(ms)[i - 1], ms[i])
<1> DEFINE n == Len(ms)
           S == Seq(Forms)
           g == [i \in Nat |-> [out \in S |-> IF i \in 1..n THEN Absorb(out, ms[i]) ELSE out]]
           Meets(f) == f = [i \in 0..n |-> IF i = 0 THEN << >> ELSE Absorb(f[i - 1], ms[i])]
<1>1. n \in Nat /\ << >> \in S /\ \A i \in 1..n, out \in S : Absorb(out, ms[i]) \in S
  BY AbsorbTyped, LenProperties, ElementOfSeq, EmptySeq
<1> HIDE DEF S, n
<1>2. g \in [Nat -> [S -> S]] /\ \A i \in 1..n, out \in S : g[i][out] = Absorb(out, ms[i])
  BY <1>1
<1> HIDE DEF g
<1>3. PICK f \in [0..n -> S] : f[0] = << >> /\ \A i \in 1..n : f[i] = g[i][f[i - 1]]
  <2>1. Unfolded(S, << >>, g, n) # {}
    BY <1>1, <1>2, Recursion
  <2> QED BY <2>1 DEF Unfolded
<1>4. \A i \in 0..n : f[i] = IF i = 0 THEN << >> ELSE Absorb(f[i - 1], ms[i])
  <2>1. \A i \in 0..n : i # 0 => i \in 1..n /\ i - 1 \in 0..n
    BY <1>1
  <2>2. \A i \in 1..n : f[i - 1] \in S
    BY <1>1, <1>3, <2>1
  <2> QED BY <1>2, <1>3, <2>1, <2>2
<1>5. Meets(f)
  BY <1>3, <1>4
<1> HIDE DEF Meets
<1>6. Joined(ms) = CHOOSE f_1 : Meets(f_1)
  BY DEF Joined, Meets, n
<1>7. Meets(Joined(ms))
  BY <1>5, <1>6, Zenon
<1> QED BY <1>7 DEF Meets, n

\* Absorbing loses no text and changes no order.
LEMMA AbsorbedFacts ==
    ASSUME NEW ms \in Seq(ArchiveMessage)
    PROVE  Tidy(Absorbed(ms), ms, KeptOf(ms))
<1> DEFINE mp == map_to_add_messages(ms)
           n == Len(mp)
           Upto(i) == UNION {ToSet(mp[k].text) : k \in 1..i}
           T == {i \in Nat : i <= n => Tidy(Joined(mp)[i], ms, Upto(i))}
<1>1. Tidy(mp, ms, KeptOf(ms))
  BY MappedFacts
<1> HIDE DEF mp
<1>2. mp \in Seq(Forms) /\ n \in Nat /\ InLine(mp) /\ Upto(n) = KeptOf(ms)
  BY <1>1, LenProperties DEF Tidy, AllTexts
<1>3. 0 \in T
  <2>1. Joined(mp)[0] = << >>
    BY <1>2, JoinedUnfolds
  <2>2. Upto(0) = {}
    OBVIOUS
  <2>3. << >> \in Seq(Forms) /\ Len(<< >>) = 0
    BY EmptySeq
  <2>4. Tidy(<< >>, ms, {})
    BY <2>3 DEF Tidy, InLine, AllTexts
  <2> QED BY <2>1, <2>2, <2>4
<1>4. ASSUME NEW i \in T PROVE i + 1 \in T
  <2> SUFFICES ASSUME i + 1 <= n PROVE Tidy(Joined(mp)[i + 1], ms, Upto(i + 1))
    BY <1>4
  <2>1. i \in Nat /\ i + 1 \in 1..n /\ i + 1 \in 0..n /\ (i + 1) - 1 = i /\ i + 1 # 0
    BY <1>2
  <2> DEFINE out == Joined(mp)[i]
             m == mp[i + 1]
  <2>2. Joined(mp)[i + 1] = Absorb(out, m)
    BY <1>2, <2>1, JoinedUnfolds
  <2>3. Tidy(out, ms, Upto(i))
    BY <1>2, <2>1
  <2>4. /\ m \in Forms /\ Rising(m.text) /\ m.text \in Seq(Nat)
        /\ _is_orphan_text(m) => ToSet(m.text) \subseteq ToolsOf(ms)
    BY <1>1, <1>2, <2>1, ElementOfSeq DEF Tidy, InLine
  <2>5. Upto(i) \in SUBSET Nat
    BY <1>2, <2>1, ToSetFacts DEF InLine
  <2>6. Below(Upto(i), ToSet(m.text))
    <3>1. \A k \in 1..i : Below(ToSet(mp[k].text), ToSet(m.text))
      BY <1>2, <2>1 DEF InLine
    <3> QED BY <3>1 DEF Below
  <2>7. Upto(i + 1) = Upto(i) \union ToSet(m.text)
    <3>1. 1..(i + 1) = (1..i) \union {i + 1}
      BY <2>1
    <3> QED BY <3>1
  <2> HIDE DEF out, m, Upto
  <2>8. Tidy(Append(out, m), ms, Upto(i) \union ToSet(m.text))
    BY <2>3, <2>4, <2>5, <2>6, TidyAppend
  <2>9. ASSUME out # << >>, _is_orphan_text(m) PROVE Tidy(Merge(out, m), ms, Upto(i) \union ToSet(m.text))
    <3>1. ToSet(m.text) \subseteq ToolsOf(ms)
      BY <2>4, <2>9 DEF _is_orphan_text
    <3> QED BY <2>3, <2>4, <2>5, <2>6, <2>9, <3>1, TidyMerge
  <2> QED BY <2>2, <2>7, <2>8, <2>9 DEF Absorb
<1>5. T = Nat
  <2>1. T \in SUBSET Nat
    OBVIOUS
  <2> HIDE DEF T
  <2> QED BY <1>3, <1>4, <2>1, Induction
<1>6. Tidy(Joined(mp)[n], ms, Upto(n))
  <2>1. n \in {i \in Nat : i <= n => Tidy(Joined(mp)[i], ms, Upto(i))}
    BY <1>2, <1>5, Zenon
  <2>2. n <= n
    BY <1>2
  <2> QED BY <2>1, <2>2
<1> QED BY <1>2, <1>6 DEF Absorbed, absorb_orphans, mp

LEMMA TextsUnfold ==
    ASSUME NEW ms, InLine(ms)
    PROVE  \A i \in 0..Len(ms) :
             TextsUpto(ms)[i] = IF i = 0 THEN << >> ELSE TextsUpto(ms)[i - 1] \o ms[i].text
<1> DEFINE n == Len(ms)
           S == Seq(Nat)
           g == [i \in Nat |-> [out \in S |-> IF i \in 1..n THEN out \o ms[i].text ELSE out]]
           Meets(f) == f = [i \in 0..n |-> IF i = 0 THEN << >> ELSE f[i - 1] \o ms[i].text]
<1>1. n \in Nat /\ << >> \in S /\ \A i \in 1..n, out \in S : out \o ms[i].text \in S
  BY ConcatProperties, EmptySeq DEF InLine
<1> HIDE DEF S, n
<1>2. g \in [Nat -> [S -> S]] /\ \A i \in 1..n, out \in S : g[i][out] = out \o ms[i].text
  <2>1. \A i \in Nat : [out \in S |-> IF i \in 1..n THEN out \o ms[i].text ELSE out] \in [S -> S]
    BY <1>1
  <2>2. \A i \in 1..n : i \in Nat
    BY <1>1
  <2> QED BY <2>1, <2>2
<1> HIDE DEF g
<1>3. PICK f \in [0..n -> S] : f[0] = << >> /\ \A i \in 1..n : f[i] = g[i][f[i - 1]]
  <2>1. Unfolded(S, << >>, g, n) # {}
    BY <1>1, <1>2, Recursion
  <2> QED BY <2>1 DEF Unfolded
<1>4. \A i \in 0..n : f[i] = IF i = 0 THEN << >> ELSE f[i - 1] \o ms[i].text
  <2>1. \A i \in 0..n : i # 0 => i \in 1..n /\ i - 1 \in 0..n
    BY <1>1
  <2>2. \A i \in 1..n : f[i - 1] \in S
    BY <1>1, <1>3, <2>1
  <2> QED BY <1>2, <1>3, <2>1, <2>2
<1>5. Meets(f)
  BY <1>3, <1>4
<1> HIDE DEF Meets
<1>6. TextsUpto(ms) = CHOOSE f_1 : Meets(f_1)
  BY DEF TextsUpto, Meets, n
<1>7. Meets(TextsUpto(ms))
  BY <1>5, <1>6, Zenon
<1> QED BY <1>7 DEF Meets, n

\* The texts of messages in line, one after the other.
LEMMA TextsFacts ==
    ASSUME NEW ms, InLine(ms)
    PROVE  Texts(ms) \in Seq(Nat) /\ Rising(Texts(ms)) /\ ToSet(Texts(ms)) = AllTexts(ms)
<1> DEFINE n == Len(ms)
           Upto(i) == UNION {ToSet(ms[k].text) : k \in 1..i}
           Good(s, i) == s \in Seq(Nat) /\ Rising(s) /\ ToSet(s) = Upto(i)
           T == {i \in Nat : i <= n => Good(TextsUpto(ms)[i], i)}
<1>1. n \in Nat /\ \A i \in 1..n : ms[i].text \in Seq(Nat) /\ Rising(ms[i].text)
  BY DEF InLine
<1>2. 0 \in T
  <2>1. TextsUpto(ms)[0] = << >>
    BY <1>1, TextsUnfold
  <2>2. Upto(0) = {}
    OBVIOUS
  <2>3. << >> \in Seq(Nat) /\ Len(<< >>) = 0
    BY EmptySeq
  <2>4. ToSet(<< >>) = {} /\ Rising(<< >>)
    <3>1. ToSet(<< >>) = {<< >>[i] : i \in 1..Len(<< >>)}
      BY <2>3, ToSetFacts
    <3> QED BY <2>3, <3>1 DEF Rising
  <2> QED BY <2>1, <2>2, <2>3, <2>4
<1>3. ASSUME NEW i \in T PROVE i + 1 \in T
  <2> SUFFICES ASSUME i + 1 <= n PROVE Good(TextsUpto(ms)[i + 1], i + 1)
    BY <1>3
  <2>1. i \in Nat /\ i + 1 \in 1..n /\ i + 1 \in 0..n /\ (i + 1) - 1 = i /\ i + 1 # 0 /\ i <= n
    BY <1>1
  <2> DEFINE s == TextsUpto(ms)[i]
             t == ms[i + 1].text
  <2>2. TextsUpto(ms)[i + 1] = s \o t
    BY <2>1, TextsUnfold
  <2>3. Good(s, i)
    BY <1>3, <2>1
  <2>4. t \in Seq(Nat) /\ Rising(t)
    BY <1>1, <2>1
  <2>5. Below(Upto(i), ToSet(t))
    <3>1. \A k \in 1..i : k \in 1..n /\ k < i + 1
      BY <1>1, <2>1
    <3>2. \A k \in 1..i : Below(ToSet(ms[k].text), ToSet(t))
      BY <2>1, <3>1 DEF InLine
    <3> QED BY <3>2 DEF Below
  <2>6. Upto(i + 1) = Upto(i) \union ToSet(t)
    <3>1. 1..(i + 1) = (1..i) \union {i + 1}
      BY <2>1
    <3> QED BY <3>1
  <2> HIDE DEF s, t, Upto
  <2> QED BY <2>2, <2>3, <2>4, <2>5, <2>6, Glued
<1>4. T = Nat
  <2>1. T \in SUBSET Nat
    OBVIOUS
  <2> HIDE DEF T
  <2> QED BY <1>2, <1>3, <2>1, Induction
<1>5. Good(TextsUpto(ms)[n], n)
  <2>1. n \in {i \in Nat : i <= n => Good(TextsUpto(ms)[i], i)}
    BY <1>1, <1>4, Zenon
  <2>2. n <= n
    BY <1>1
  <2> QED BY <2>1, <2>2
<1>6. Upto(n) = AllTexts(ms)
  BY DEF AllTexts
<1> QED BY <1>5, <1>6 DEF Texts

\* The texts of a conversation that are fed, and the messages they are fed in.
Fed(ms) == AllTexts(prepare_session(ms))
Sent(ms) == {prepare_session(ms)[i] : i \in 1..Len(prepare_session(ms))}

LEMMA PreparedFacts ==
    ASSUME NEW ms \in Seq(ArchiveMessage)
    PROVE  /\ prepare_session(ms) \in Seq(Sent(ms)) /\ InLine(prepare_session(ms))
           /\ Fed(ms) \subseteq KeptOf(ms)
           /\ \A t \in KeptOf(ms) \ Fed(ms) : t \in ToolsOf(ms) /\ \A u \in Fed(ms) : u < t
<1> DEFINE ab == Absorbed(ms)
           f == feedable_upto(ab)
           fd == SubSeq(ab, 1, f)
           pr == prepare_session(ms)
<1>1. Tidy(ab, ms, KeptOf(ms))
  BY AbsorbedFacts
<1> HIDE DEF ab
<1>2. ab \in Seq(Forms) /\ Len(ab) \in Nat /\ DOMAIN ab = 1..Len(ab) /\ \A i \in 1..Len(ab) : ab[i] \in Forms
  BY <1>1, LenProperties, ElementOfSeq DEF Tidy
<1>3. f \in 0..Len(ab) /\ \A i \in 1..Len(ab) : i > f => _is_orphan_text(ab[i])
  <2> DEFINE anchors == {i \in 1..Len(ab) : ~ _is_orphan_text(ab[i])}
  <2>1. f = IF anchors = {} THEN 0 ELSE CHOOSE i \in anchors : \A j \in anchors : j <= i
    BY <1>2 DEF feedable_upto
  <2>2. anchors \in SUBSET Nat /\ \A i \in anchors : i <= Len(ab)
    BY <1>2
  <2>3. CASE anchors = {}
    BY <1>2, <2>1, <2>3
  <2>4. CASE anchors # {}
    <3> HIDE DEF anchors
    <3>1. f \in anchors /\ \A j \in anchors : j <= f
      BY <1>2, <2>1, <2>2, <2>4, ChosenGreatest
    <3> QED BY <1>2, <3>1 DEF anchors
  <2> QED BY <2>3, <2>4
<1> HIDE DEF f
<1>4. Len(fd) = f /\ f \in Nat /\ \A i \in 1..f : fd[i] = ab[i] /\ i \in 1..Len(ab)
  <2>1. 1 \in Int /\ f \in Int /\ \A i \in 1..f : ab[i] \in Forms /\ i \in 1..Len(ab)
    BY <1>2, <1>3
  <2>2. /\ Len(fd) = IF 1 <= f THEN f - 1 + 1 ELSE 0
        /\ \A i \in 1..(f - 1 + 1) : fd[i] = ab[1 + i - 1]
    BY <2>1, SubSeqProperties
  <2> QED BY <1>2, <1>3, <2>1, <2>2
<1> HIDE DEF fd
<1>5. pr = ensure_unique_timestamps(fd)
  BY DEF prepare_session, split_feedable, ab, f, fd
<1> HIDE DEF pr
<1>6. DOMAIN pr = 1..f /\ \A i \in 1..f : pr[i].text = ab[i].text
  <2>1. pr = [i \in 1..f |-> [fd[i] EXCEPT !.ts = Times(fd)[i]]]
    BY <1>4, <1>5 DEF ensure_unique_timestamps
  <2>2. \A i \in 1..f : pr[i] = [ab[i] EXCEPT !.ts = Times(fd)[i]] /\ ab[i] \in Forms
    BY <1>2, <1>4, <2>1
  <2> QED BY <2>1, <2>2 DEF Forms
<1>7. Len(pr) = f
  BY <1>4, <1>6
<1>8. pr \in Seq(Sent(ms))
  <2>1. pr \in [1..f -> Sent(ms)]
    <3>1. pr = [i \in 1..f |-> pr[i]]
      <4>1. pr = [i \in 1..f |-> [fd[i] EXCEPT !.ts = Times(fd)[i]]]
        BY <1>4, <1>5 DEF ensure_unique_timestamps
      <4> QED BY <4>1
    <3>2. \A i \in 1..f : pr[i] \in Sent(ms)
      BY <1>7 DEF Sent, pr
    <3> QED BY <3>1, <3>2
  <2> QED BY <1>4, <2>1
<1>9. InLine(pr)
  <2>1. InLine(ab) /\ \A i \in 1..f : i \in 1..Len(ab)
    BY <1>1, <1>4 DEF Tidy
  <2> QED BY <1>4, <1>6, <1>7, <2>1 DEF InLine
<1>10. AllTexts(pr) \subseteq KeptOf(ms)
  <2>1. \A i \in 1..f : ToSet(pr[i].text) \subseteq AllTexts(ab)
    BY <1>4, <1>6 DEF AllTexts
  <2> QED BY <1>1, <1>7, <2>1 DEF AllTexts, Tidy
<1>11. ASSUME NEW t \in KeptOf(ms), t \notin AllTexts(pr) PROVE t \in ToolsOf(ms) /\ \A u \in AllTexts(pr) : u < t
  <2>1. PICK j \in 1..Len(ab) : t \in ToSet(ab[j].text)
    BY <1>1, <1>11 DEF Tidy, AllTexts
  <2>2. j > f
    BY <1>4, <1>6, <1>7, <1>11, <2>1 DEF AllTexts
  <2>3. t \in ToolsOf(ms)
    BY <1>1, <1>3, <2>1, <2>2 DEF Tidy
  <2>4. ASSUME NEW u \in AllTexts(pr) PROVE u < t
    <3>1. PICK i \in 1..f : u \in ToSet(ab[i].text)
      BY <1>6, <1>7, <2>4 DEF AllTexts
    <3>2. i \in 1..Len(ab) /\ i < j
      BY <1>4, <2>1, <2>2, <3>1
    <3> QED BY <1>1, <2>1, <3>1, <3>2 DEF Tidy, InLine, Below
  <2> QED BY <2>3, <2>4
<1> QED BY <1>8, <1>9, <1>10, <1>11 DEF pr, Fed

\* Batches that wait: each is in line, and one before the other.
Waiting(bs) == UNION {AllTexts(bs[b]) : b \in 1..Len(bs)}
Queued(bs) ==
    /\ \A b \in 1..Len(bs) : InLine(bs[b])
    /\ \A b, c \in 1..Len(bs) : b < c => Below(AllTexts(bs[b]), AllTexts(bs[c]))

LEMMA BatchNumbers ==
    ASSUME NEW L \in Nat
    PROVE  LET count == (L + MaxBatch - 1) \div MaxBatch
           IN  /\ count \in Nat /\ count * MaxBatch >= L /\ (count - 1) * MaxBatch < L
               /\ L > 0 => count > 0
               /\ \A b, c \in Nat : b < c => b * MaxBatch \in Nat /\ b * MaxBatch <= (c - 1) * MaxBatch
<1>1. MaxBatch \in Nat \ {0}
  BY EverosFeedAssumption
<1> DEFINE count == (L + MaxBatch - 1) \div MaxBatch
<1>2. count \in Nat /\ count * MaxBatch >= L /\ (count - 1) * MaxBatch < L
  BY <1>1
<1> HIDE DEF count
<1>3. L > 0 => count > 0
  BY <1>1, <1>2
<1>4. ASSUME NEW b \in Nat, NEW c \in Nat, b < c PROVE b * MaxBatch \in Nat /\ b * MaxBatch <= (c - 1) * MaxBatch
  <2>1. c - 1 \in Nat /\ b <= c - 1
    BY <1>4
  <2> QED BY <1>1, <2>1
<1> QED BY <1>2, <1>3, <1>4 DEF count

LEMMA BatchFacts ==
    ASSUME NEW S, NEW x \in Seq(S), InLine(x)
    PROVE  /\ into_batches(x) \in Seq(Seq(S)) /\ Queued(into_batches(x))
           /\ Waiting(into_batches(x)) = AllTexts(x)
           /\ x # << >> => into_batches(x) # << >>
<1> DEFINE M == MaxBatch
           L == Len(x)
           count == (L + M - 1) \div M
           lo(b) == (b - 1) * M + 1
           hi(b) == IF b = count THEN L ELSE b * M
           B == into_batches(x)
<1>1. L \in Nat /\ M \in Nat \ {0} /\ \A i \in 1..L : x[i] \in S
  BY EverosFeedAssumption, LenProperties, ElementOfSeq
<1>2. B = [b \in 1..count |-> SubSeq(x, lo(b), hi(b))]
  BY DEF into_batches
<1>3. /\ count \in Nat /\ count * M >= L /\ (count - 1) * M < L
      /\ L > 0 => count > 0
      /\ \A b, c \in Nat : b < c => b * M \in Nat /\ b * M <= (c - 1) * M
  BY <1>1, BatchNumbers
<1> HIDE DEF B
<1>4. ASSUME NEW b \in 1..count
      PROVE  /\ lo(b) \in Nat \ {0} /\ hi(b) \in Nat /\ hi(b) <= L
             /\ \A c \in 1..count : b < c => hi(b) < lo(c)
  <2>1. b \in Nat /\ b - 1 \in Nat /\ b - 1 < b
    BY <1>3
  <2>2. (b - 1) * M \in Nat
    BY <1>3, <2>1
  <2>3. lo(b) \in Nat \ {0}
    BY <2>2
  <2>4. b # count => b * M \in Nat /\ b * M <= (count - 1) * M
    BY <1>3, <2>1
  <2>5. hi(b) \in Nat /\ hi(b) <= L
    BY <1>1, <1>3, <2>4
  <2>6. ASSUME NEW c \in 1..count, b < c PROVE hi(b) < lo(c)
    <3>1. c \in Nat /\ b # count /\ b * M \in Nat /\ b * M <= (c - 1) * M /\ (c - 1) * M \in Int
      BY <1>1, <1>3, <2>1, <2>6
    <3> QED BY <3>1
  <2> QED BY <2>3, <2>5, <2>6
<1>5. ASSUME NEW k \in 1..L PROVE \E b \in 1..count : lo(b) <= k /\ k <= hi(b)
  <2> DEFINE b == (k + M - 1) \div M
  <2>1. b \in Nat /\ b * M >= k /\ (b - 1) * M < k /\ b > 0
    BY <1>1, BatchNumbers
  <2> HIDE DEF b
  <2>2. b <= count
    <3>1. SUFFICES ASSUME count < b PROVE FALSE
      BY <1>3, <2>1
    <3>2. count * M <= (b - 1) * M /\ count * M \in Nat
      BY <1>3, <2>1, <3>1
    <3>3. (b - 1) * M \in Int
      BY <1>1, <2>1
    <3> QED BY <1>1, <1>3, <2>1, <3>2, <3>3
  <2>3. (b - 1) * M \in Int /\ b * M \in Int
    BY <1>1, <2>1
  <2>4. lo(b) <= k /\ k <= hi(b)
    BY <1>1, <2>1, <2>3
  <2> QED BY <1>3, <2>1, <2>2, <2>4
<1> HIDE DEF count, lo, hi
<1>6. ASSUME NEW b \in 1..count
      PROVE  /\ B[b] \in Seq(S) /\ Len(B[b]) \in Nat
             /\ \A i \in 1..Len(B[b]) : /\ lo(b) + i - 1 \in 1..L /\ B[b][i] = x[lo(b) + i - 1]
                                        /\ lo(b) <= lo(b) + i - 1 /\ lo(b) + i - 1 <= hi(b)
             /\ \A k \in lo(b)..hi(b) : k - lo(b) + 1 \in 1..Len(B[b]) /\ B[b][k - lo(b) + 1] = x[k]
  <2>1. lo(b) \in Nat \ {0} /\ hi(b) \in Nat /\ hi(b) <= L
    BY <1>4
  <2>2. \A i \in lo(b)..hi(b) : i \in 1..L /\ x[i] \in S
    BY <1>1, <2>1
  <2>3. B[b] = SubSeq(x, lo(b), hi(b))
    BY <1>2
  <2>4. /\ B[b] \in Seq(S) /\ Len(B[b]) = IF lo(b) <= hi(b) THEN hi(b) - lo(b) + 1 ELSE 0
        /\ \A i \in 1..(hi(b) - lo(b) + 1) : B[b][i] = x[lo(b) + i - 1]
    BY <2>1, <2>2, <2>3, SubSeqProperties
  <2>5. Len(B[b]) \in Nat /\ 1..Len(B[b]) = 1..(hi(b) - lo(b) + 1)
    BY <2>1, <2>4
  <2>6. \A i \in 1..Len(B[b]) : /\ lo(b) + i - 1 \in 1..L
                                /\ lo(b) <= lo(b) + i - 1 /\ lo(b) + i - 1 <= hi(b)
    BY <1>1, <2>1, <2>5
  <2>7. \A k \in lo(b)..hi(b) : k - lo(b) + 1 \in 1..(hi(b) - lo(b) + 1) /\ lo(b) + (k - lo(b) + 1) - 1 = k
    BY <2>1
  <2> QED BY <2>4, <2>5, <2>6, <2>7
<1>7. B \in Seq(Seq(S)) /\ Len(B) = count
  <2>1. B \in [1..count -> Seq(S)]
    BY <1>2, <1>6
  <2> QED BY <1>3, <2>1
<1>8. ASSUME NEW b \in 1..count PROVE InLine(B[b])
  <2>1. \A i \in 1..Len(B[b]) : B[b][i].text \in Seq(Nat) /\ Rising(B[b][i].text)
    BY <1>6 DEF InLine
  <2>2. ASSUME NEW i \in 1..Len(B[b]), NEW j \in 1..Len(B[b]), i < j
        PROVE  Below(ToSet(B[b][i].text), ToSet(B[b][j].text))
    <3>1. lo(b) \in Nat /\ lo(b) + i - 1 < lo(b) + j - 1
      BY <1>4, <1>6, <2>2
    <3> QED BY <1>6, <3>1 DEF InLine
  <2> QED BY <1>6, <2>1, <2>2 DEF InLine
<1>9. ASSUME NEW b \in 1..count, NEW u \in AllTexts(B[b])
      PROVE  \E k \in 1..L : lo(b) <= k /\ k <= hi(b) /\ u \in ToSet(x[k].text)
  <2>1. PICK i \in 1..Len(B[b]) : u \in ToSet(B[b][i].text)
    BY <1>9 DEF AllTexts
  <2> QED BY <1>6, <2>1
<1>10. ASSUME NEW b \in 1..count, NEW c \in 1..count, b < c PROVE Below(AllTexts(B[b]), AllTexts(B[c]))
  <2> SUFFICES ASSUME NEW u \in AllTexts(B[b]), NEW v \in AllTexts(B[c]) PROVE u < v
    BY DEF Below
  <2>1. PICK k \in 1..L : lo(b) <= k /\ k <= hi(b) /\ u \in ToSet(x[k].text)
    BY <1>9
  <2>2. PICK l \in 1..L : lo(c) <= l /\ l <= hi(c) /\ v \in ToSet(x[l].text)
    BY <1>9
  <2>3. hi(b) < lo(c) /\ hi(b) \in Nat /\ lo(c) \in Nat
    BY <1>4, <1>10
  <2>4. k < l
    BY <1>1, <2>1, <2>2, <2>3
  <2> QED BY <2>1, <2>2, <2>4 DEF InLine, Below
<1>11. Queued(B)
  BY <1>7, <1>8, <1>10 DEF Queued
<1>12. Waiting(B) = AllTexts(x)
  <2>1. ASSUME NEW u \in Waiting(B) PROVE u \in AllTexts(x)
    <3>1. PICK b \in 1..count : u \in AllTexts(B[b])
      BY <1>7, <2>1 DEF Waiting
    <3>2. PICK k \in 1..L : u \in ToSet(x[k].text)
      BY <1>9, <3>1
    <3> QED BY <3>2 DEF AllTexts
  <2>2. ASSUME NEW u \in AllTexts(x) PROVE u \in Waiting(B)
    <3>1. PICK k \in 1..L : u \in ToSet(x[k].text)
      BY <2>2 DEF AllTexts
    <3>2. PICK b \in 1..count : lo(b) <= k /\ k <= hi(b)
      BY <1>5
    <3>3. k \in lo(b)..hi(b)
      BY <1>1, <1>4, <3>2
    <3>4. u \in AllTexts(B[b])
      BY <1>6, <3>1, <3>3 DEF AllTexts
    <3> QED BY <1>7, <3>4 DEF Waiting
  <2> QED BY <2>1, <2>2
<1>13. x # << >> => B # << >>
  <2>1. x # << >> => L > 0
    BY EmptySeq, <1>1
  <2>2. B = << >> => Len(B) = 0
    BY EmptySeq
  <2> QED BY <1>3, <1>7, <2>1, <2>2
<1> QED BY <1>7, <1>11, <1>12, <1>13 DEF B

-----------------------------------------------------------------------------
(* What stays true of the feeder. Until the first success EverOS holds        *)
(* nothing, for only an unclear answer may hide a success and it ends the run *)
(* with the job running; after it no batch is posted again. So what EverOS    *)
(* holds is a first part of what the rows feed, and the batches are the rest. *)

FeederTyped ==
    /\ conv \in Seq(ArchiveMessage) /\ rows \in Seq(ArchiveMessage)
    /\ claim \in Nat /\ add_ok \in Nat
    /\ taken \in Seq(Nat) /\ todo \in Seq(Seq(Sent(rows)))

RowsRead == Len(rows) <= Len(conv) /\ \A i \in 1..Len(rows) : rows[i] = conv[i]

NotYet == job = "pending" \/ feeder = "read" \/ (feeder = "add" /\ add_ok = 0)

TakenOnce ==
    /\ Rising(taken)
    /\ \A t \in ToSet(taken) : t \in 1..Len(rows) /\ rows[t].ts <= claim
    /\ NotYet => taken = << >>

\* While the feeder is at work.
Parted ==
    feeder \in {"add", "flush", "wait"} =>
        /\ \A i \in 1..Len(rows) : rows[i].ts <= claim
        /\ ToSet(taken) \union Waiting(todo) = Fed(rows)
        /\ Below(ToSet(taken), Waiting(todo)) /\ Queued(todo)
        /\ prepare_session(rows) # << >>

Steps ==
    /\ feeder \in {"off", "read", "add", "flush", "wait"}
    /\ feeder # "off" => job = "running"
    /\ feeder \in {"off", "read"} => todo = << >>
    /\ feeder = "add" => todo # << >>
    /\ feeder \in {"flush", "wait"} => todo = << >> /\ add_ok > 0
    /\ job = "completed" => "this" \in cards /\ ToSet(taken) = Fed(rows)

FeederInv == FeederTyped /\ RowsRead /\ TakenOnce /\ Parted /\ Steps

LEMMA PayloadMaxFacts ==
    ASSUME NEW ms \in Seq(ArchiveMessage)
    PROVE  PayloadMax(ms) \in Nat /\ \A i \in 1..Len(ms) : ms[i].ts <= PayloadMax(ms)
<1> DEFINE n == Len(ms)
           Bounded(b, k) == \A i \in 1..k : ms[i].ts <= b
           T == {k \in Nat : k <= n => \E b \in Nat : Bounded(b, k)}
           ts == {ms[i].ts : i \in 1..n} \union {0}
<1>1. n \in Nat /\ DOMAIN ms = 1..n /\ \A i \in 1..n : ms[i].ts \in Nat
  <2>1. n \in Nat /\ DOMAIN ms = 1..n /\ \A i \in 1..n : ms[i] \in ArchiveMessage
    BY LenProperties, ElementOfSeq
  <2> QED BY <2>1 DEF ArchiveMessage
<1> HIDE DEF n
<1>2. 0 \in T
  <2>1. Bounded(0, 0) /\ 0 \in Nat
    OBVIOUS
  <2> QED BY <2>1
<1>3. ASSUME NEW k \in T PROVE k + 1 \in T
  <2> SUFFICES ASSUME k + 1 <= n PROVE \E b \in Nat : Bounded(b, k + 1)
    BY <1>3
  <2>1. k \in Nat /\ k <= n /\ k + 1 \in 1..n
    BY <1>1
  <2>2. PICK b \in Nat : Bounded(b, k)
    BY <1>3, <2>1
  <2>3. PICK c \in Nat : b <= c /\ ms[k + 1].ts <= c
    <3>1. ms[k + 1].ts \in Nat
      BY <1>1, <2>1
    <3>2. CASE b <= ms[k + 1].ts
      BY <3>1, <3>2
    <3>3. CASE ms[k + 1].ts <= b
      BY <3>1, <3>3
    <3> QED BY <3>1, <3>2, <3>3
  <2>4. ASSUME NEW i \in 1..(k + 1) PROVE ms[i].ts <= c
    <3>1. i = k + 1 \/ i \in 1..k
      BY <2>1
    <3>2. i \in 1..n
      BY <1>1, <2>1
    <3>3. ms[i].ts \in Nat
      BY <1>1, <3>2
    <3> QED BY <2>2, <2>3, <3>1, <3>3
  <2> QED BY <2>4
<1>4. T = Nat
  <2>1. T \in SUBSET Nat
    OBVIOUS
  <2> HIDE DEF T
  <2> QED BY <1>2, <1>3, <2>1, Induction
<1>5. PICK b \in Nat : Bounded(b, n)
  <2>1. n \in Nat /\ n <= n
    BY <1>1
  <2>2. n \in T
    <3> HIDE DEF T
    <3> QED BY <1>4, <2>1
  <2> QED BY <2>1, <2>2
<1>6. ts \in SUBSET Nat /\ ts # {} /\ \A t \in ts : t <= b
  BY <1>1, <1>5
<1>7. PayloadMax(ms) = CHOOSE t \in ts : \A u \in ts : u <= t
  BY <1>1 DEF PayloadMax
<1> HIDE DEF ts
<1>8. PayloadMax(ms) \in ts /\ \A u \in ts : u <= PayloadMax(ms)
  BY <1>6, <1>7, ChosenGreatest
<1> QED BY <1>1, <1>6, <1>8 DEF ts

\* The first of the waiting batches, and the others.
LEMMA FirstBatch ==
    ASSUME NEW S, NEW bs \in Seq(S), bs # << >>, Queued(bs)
    PROVE  /\ InLine(Head(bs)) /\ Queued(Tail(bs))
           /\ Waiting(bs) = AllTexts(Head(bs)) \union Waiting(Tail(bs))
           /\ Below(AllTexts(Head(bs)), Waiting(Tail(bs)))
<1> DEFINE n == Len(bs)
           tl == Tail(bs)
<1>1. n \in Nat \ {0} /\ Len(tl) = n - 1 /\ \A i \in 1..Len(tl) : tl[i] = bs[i + 1]
  BY HeadTailProperties, EmptySeq
<1>2. Head(bs) = bs[1]
  OBVIOUS
<1> HIDE DEF n, tl
<1>3. 1 \in 1..n /\ \A i \in 1..Len(tl) : i + 1 \in 1..n /\ 1 < i + 1
  BY <1>1
<1>4. \A b \in 1..n : b = 1 \/ (b - 1 \in 1..Len(tl) /\ tl[b - 1] = bs[b])
  <2>1. \A b \in 1..n : b # 1 => b - 1 \in 1..Len(tl) /\ (b - 1) + 1 = b
    BY <1>1
  <2> QED BY <1>1, <2>1
<1>5. InLine(Head(bs))
  BY <1>2, <1>3 DEF Queued, n
<1>6. Queued(tl)
  <2>1. \A i \in 1..Len(tl) : InLine(tl[i])
    BY <1>1, <1>3 DEF Queued, n
  <2>2. ASSUME NEW b \in 1..Len(tl), NEW c \in 1..Len(tl), b < c
        PROVE  Below(AllTexts(tl[b]), AllTexts(tl[c]))
    <3>1. b + 1 \in 1..n /\ c + 1 \in 1..n /\ b + 1 < c + 1
      BY <1>3, <2>2
    <3>2. Below(AllTexts(bs[b + 1]), AllTexts(bs[c + 1]))
      BY <3>1 DEF Queued, n
    <3> QED BY <1>1, <3>2
  <2> QED BY <2>1, <2>2 DEF Queued
<1>7. ASSUME NEW u \in Waiting(bs) PROVE u \in AllTexts(Head(bs)) \union Waiting(tl)
  <2>1. PICK b \in 1..n : u \in AllTexts(bs[b])
    BY <1>7 DEF Waiting, n
  <2> QED BY <1>2, <1>4, <2>1 DEF Waiting
<1>8. ASSUME NEW u \in Waiting(tl) PROVE u \in Waiting(bs) /\ \A v \in AllTexts(Head(bs)) : v < u
  <2>1. PICK b \in 1..Len(tl) : u \in AllTexts(tl[b])
    BY <1>8 DEF Waiting
  <2>2. b + 1 \in 1..n /\ 1 < b + 1 /\ u \in AllTexts(bs[b + 1])
    BY <1>1, <1>3, <2>1
  <2>3. Below(AllTexts(bs[1]), AllTexts(bs[b + 1]))
    BY <1>3, <2>2 DEF Queued, n
  <2> QED BY <1>2, <2>2, <2>3 DEF Waiting, Below, n
<1>9. AllTexts(Head(bs)) \subseteq Waiting(bs)
  BY <1>2, <1>3 DEF Waiting, n
<1>10. Waiting(bs) = AllTexts(Head(bs)) \union Waiting(tl)
  BY <1>7, <1>8, <1>9
<1>11. Below(AllTexts(Head(bs)), Waiting(tl))
  BY <1>8 DEF Below
<1> QED BY <1>5, <1>6, <1>10, <1>11 DEF tl

LEMMA NoBatch == Waiting(<< >>) = {} /\ Queued(<< >>)
<1>1. Len(<< >>) = 0
  BY EmptySeq
<1> QED BY <1>1 DEF Waiting, Queued

LEMMA NothingTaken ==
    << >> \in Seq(Nat) /\ ToSet(<< >>) = {} /\ Rising(<< >>)
<1>1. << >> \in Seq(Nat) /\ Len(<< >>) = 0
  BY EmptySeq
<1>2. ToSet(<< >>) = {<< >>[i] : i \in 1..Len(<< >>)}
  BY <1>1, ToSetFacts
<1> QED BY <1>1, <1>2 DEF Rising

-----------------------------------------------------------------------------
\* What EverOS holds, however the claim ends.
LEMMA TakenBelongs ==
    ASSUME FeederTyped, Parted, feeder \in {"add", "flush", "wait"}, NEW t \in Fed(rows)
    PROVE  t \in 1..Len(rows) /\ rows[t].ts <= claim
<1>1. t \in KeptOf(rows)
  BY PreparedFacts DEF FeederTyped
<1> QED BY <1>1 DEF Parted, KeptOf

\* One more batch taken in.
LEMMA BatchTaken ==
    ASSUME FeederInv, feeder = "add"
    PROVE  LET more == taken \o Texts(Head(todo))
           IN  /\ more \in Seq(Nat) /\ Rising(more)
               /\ ToSet(more) \union Waiting(Tail(todo)) = Fed(rows)
               /\ Below(ToSet(more), Waiting(Tail(todo))) /\ Queued(Tail(todo))
<1>1. /\ todo \in Seq(Seq(Sent(rows))) /\ todo # << >> /\ Queued(todo) /\ taken \in Seq(Nat) /\ Rising(taken)
      /\ ToSet(taken) \union Waiting(todo) = Fed(rows) /\ Below(ToSet(taken), Waiting(todo))
  BY DEF FeederInv, FeederTyped, TakenOnce, Parted, Steps
<1> DEFINE h == Head(todo)
           tl == Tail(todo)
<1>2. /\ InLine(h) /\ Queued(tl) /\ Waiting(todo) = AllTexts(h) \union Waiting(tl)
      /\ Below(AllTexts(h), Waiting(tl))
  BY <1>1, FirstBatch
<1> HIDE DEF h, tl
<1>3. Texts(h) \in Seq(Nat) /\ Rising(Texts(h)) /\ ToSet(Texts(h)) = AllTexts(h)
  BY <1>2, TextsFacts
<1>4. Below(ToSet(taken), AllTexts(h)) /\ Below(ToSet(taken), Waiting(tl))
  BY <1>1, <1>2 DEF Below
<1> DEFINE more == taken \o Texts(h)
<1>5. more \in Seq(Nat) /\ Rising(more) /\ ToSet(more) = ToSet(taken) \union AllTexts(h)
  BY <1>1, <1>3, <1>4, Glued
<1> HIDE DEF more
<1>6. Below(ToSet(more), Waiting(tl))
  BY <1>2, <1>4, <1>5 DEF Below
<1>7. ToSet(more) \union Waiting(tl) = Fed(rows)
  BY <1>1, <1>2, <1>5
<1> QED BY <1>2, <1>5, <1>6, <1>7 DEF more, h, tl

LEMMA FeederStarts == EverosInit => FeederInv
<1> SUFFICES ASSUME EverosInit PROVE FeederInv
  OBVIOUS
<1>1. FeederTyped
  BY EmptySeq DEF EverosInit, FeederTyped
<1>2. RowsRead
  BY EmptySeq DEF EverosInit, RowsRead
<1>3. TakenOnce
  BY NothingTaken DEF EverosInit, TakenOnce
<1>4. Parted /\ Steps
  BY DEF EverosInit, Parted, Steps
<1> QED BY <1>1, <1>2, <1>3, <1>4 DEF FeederInv

\* The conversation grows; what was read of it stays what it was.
LEMMA SayStep ==
    ASSUME FeederInv, Say
    PROVE  FeederInv'
<1>1. PICK r \in Roles : \E t \in {0, PayloadMax(conv) + 1} :
        conv' = Append(conv, [role |-> r.role, id |-> r.id, mark |-> r.mark, ts |-> t])
  BY DEF Say
<1>2. PICK t \in {0, PayloadMax(conv) + 1} : conv' = Append(conv, [role |-> r.role, id |-> r.id, mark |-> r.mark, ts |-> t])
  BY <1>1
<1>3. conv \in Seq(ArchiveMessage) /\ rows \in Seq(ArchiveMessage)
  BY DEF FeederInv, FeederTyped
<1>4. [role |-> r.role, id |-> r.id, mark |-> r.mark, ts |-> t] \in ArchiveMessage
  <2>1. t \in Nat
    BY <1>3, PayloadMaxFacts
  <2>2. r \in [role : Kinds, id : BOOLEAN, mark : BOOLEAN]
    BY EverosFeedAssumption
  <2> QED BY <2>1, <2>2 DEF ArchiveMessage
<1>5. /\ conv' \in Seq(ArchiveMessage) /\ Len(conv') = Len(conv) + 1
      /\ \A i \in 1..Len(conv) : conv'[i] = conv[i]
  BY <1>2, <1>3, <1>4, AppendProperties
<1>6. RowsRead'
  <2>1. rows' = rows /\ Len(rows) \in Nat /\ Len(conv) \in Nat
    BY <1>3, LenProperties DEF Say
  <2>2. \A i \in 1..Len(rows) : i \in 1..Len(conv) /\ rows[i] = conv[i]
    BY <2>1 DEF FeederInv, RowsRead
  <2> QED BY <1>5, <2>1, <2>2 DEF FeederInv, RowsRead
<1>7. FeederTyped'
  BY <1>5 DEF Say, FeederInv, FeederTyped, Sent, prepare_session
<1>8. TakenOnce'
  BY DEF Say, FeederInv, TakenOnce, NotYet
<1>9. Parted' /\ Steps'
  BY DEF Say, FeederInv, Parted, Steps, Fed
<1> QED BY <1>6, <1>7, <1>8, <1>9 DEF FeederInv

\* A claim starts a run when EverOS holds nothing of the conversation.
LEMMA ClaimStep ==
    ASSUME FeederInv, ClaimSession
    PROVE  FeederInv'
<1> USE DEF ClaimSession
<1>1. taken = << >> /\ todo = << >>
  BY DEF FeederInv, TakenOnce, NotYet, Steps
<1>2. FeederTyped'
  <2>1. PayloadMax(conv) \in Nat
    BY PayloadMaxFacts DEF FeederInv, FeederTyped
  <2>2. claim' \in Nat
    BY <2>1
  <2> QED BY <2>2 DEF FeederInv, FeederTyped, Sent, prepare_session
<1>3. RowsRead'
  BY DEF FeederInv, RowsRead
<1>4. TakenOnce'
  BY <1>1, NothingTaken DEF TakenOnce
<1>5. Parted'
  BY DEF Parted
<1>6. Steps'
  BY <1>1 DEF Steps
<1> QED BY <1>2, <1>3, <1>4, <1>5, <1>6 DEF FeederInv

\* What was read is compared with the claim before any of it is posted.
LEMMA RowsStep ==
    ASSUME FeederInv, ReadRows
    PROVE  FeederInv'
<1>1. /\ feeder = "read" /\ job = "running" /\ taken = << >> /\ todo = << >>
      /\ conv \in Seq(ArchiveMessage) /\ claim \in Nat /\ add_ok \in Nat
  BY DEF ReadRows, FeederInv, FeederTyped, TakenOnce, NotYet, Steps
<1>2. rows' = conv /\ UNCHANGED <<conv, claim, add_ok, taken, cards>>
  BY DEF ReadRows
<1> DEFINE x == prepare_session(conv)
<1>3. /\ x \in Seq(Sent(conv)) /\ InLine(x) /\ Fed(conv) = AllTexts(x)
  BY <1>1, PreparedFacts DEF Fed
<1>4. \/ feeder' = "off" /\ todo' = << >> /\ job' \in {"pending", "skipped"}
      \/ /\ feeder' = "add" /\ todo' = into_batches(x) /\ job' = job
         /\ x # << >> /\ (PayloadMax(conv) = 0 \/ PayloadMax(conv) <= claim)
  <2>1. CASE conv = << >>
    BY <2>1 DEF ReadRows, _emit
  <2>2. CASE conv # << >> /\ PayloadMax(conv) > 0 /\ Stale(conv)
    BY <2>2 DEF ReadRows, _emit
  <2>3. CASE conv # << >> /\ ~ (PayloadMax(conv) > 0 /\ Stale(conv)) /\ x = << >>
    BY <2>3 DEF ReadRows, _emit
  <2>4. CASE conv # << >> /\ ~ (PayloadMax(conv) > 0 /\ Stale(conv)) /\ x # << >>
    <3>1. PayloadMax(conv) \in Nat
      BY <1>1, PayloadMaxFacts
    <3>2. feeder' = "add" /\ todo' = into_batches(x) /\ job' = job
      BY <2>4 DEF ReadRows
    <3> QED BY <1>1, <2>4, <3>1, <3>2 DEF Stale
  <2> QED BY <2>1, <2>2, <2>3, <2>4
<1> HIDE DEF x
<1>5. /\ into_batches(x) \in Seq(Seq(Sent(conv))) /\ Queued(into_batches(x))
      /\ Waiting(into_batches(x)) = AllTexts(x)
      /\ x # << >> => into_batches(x) # << >>
  BY <1>3, BatchFacts
<1>6. todo' \in Seq(Seq(Sent(conv)))
  BY <1>4, <1>5, EmptySeq
<1>7. FeederTyped'
  BY <1>1, <1>2, <1>6, NothingTaken DEF FeederTyped, Sent, prepare_session
<1>8. RowsRead'
  <2>1. Len(conv) \in Nat
    BY <1>1, LenProperties
  <2> QED BY <1>2, <2>1 DEF RowsRead
<1>9. TakenOnce'
  BY <1>1, <1>2, NothingTaken DEF TakenOnce
<1>10. Parted'
  <2> SUFFICES ASSUME feeder' = "add", todo' = into_batches(x), x # << >>,
                      PayloadMax(conv) = 0 \/ PayloadMax(conv) <= claim
               PROVE  Parted'
    BY <1>4 DEF Parted
  <2>1. \A i \in 1..Len(conv) : conv[i].ts <= claim
    <3>1. ASSUME NEW i \in 1..Len(conv) PROVE conv[i].ts <= claim
      <4>1. conv[i].ts \in Nat
        <5>1. conv[i] \in ArchiveMessage
          BY <1>1, ElementOfSeq
        <5> QED BY <5>1 DEF ArchiveMessage
      <4>2. PayloadMax(conv) \in Nat /\ conv[i].ts <= PayloadMax(conv)
        BY <1>1, PayloadMaxFacts
      <4> QED BY <1>1, <4>1, <4>2
    <3> QED BY <3>1
  <2>2. ToSet(taken') = {}
    BY <1>1, <1>2, NothingTaken
  <2>3. Waiting(todo') = Fed(conv) /\ Queued(todo')
    BY <1>3, <1>5
  <2>4. Below(ToSet(taken'), Waiting(todo'))
    BY <2>2 DEF Below
  <2> QED BY <1>2, <2>1, <2>2, <2>3, <2>4 DEF Parted, x
<1>11. Steps'
  BY <1>1, <1>4, <1>5 DEF Steps
<1> QED BY <1>7, <1>8, <1>9, <1>10, <1>11 DEF FeederInv

LEMMA AddStep ==
    ASSUME FeederInv, AddTaken
    PROVE  FeederInv'
<1>1. /\ feeder = "add" /\ job = "running" /\ todo # << >> /\ add_ok \in Nat
      /\ todo \in Seq(Seq(Sent(rows)))
  BY DEF AddTaken, FeederInv, FeederTyped, Steps
<1>2. /\ taken' = taken \o Texts(Head(todo)) /\ add_ok' = add_ok + 1 /\ todo' = Tail(todo)
      /\ feeder' = IF Len(todo) = 1 THEN "flush" ELSE "add"
      /\ UNCHANGED <<conv, job, claim, rows, cards>>
  BY DEF AddTaken
<1>3. /\ taken' \in Seq(Nat) /\ Rising(taken')
      /\ ToSet(taken') \union Waiting(todo') = Fed(rows)
      /\ Below(ToSet(taken'), Waiting(todo')) /\ Queued(todo')
  BY <1>1, <1>2, BatchTaken
<1>4. todo' \in Seq(Seq(Sent(rows))) /\ Len(todo') = Len(todo) - 1 /\ Len(todo) \in Nat \ {0}
  BY <1>1, <1>2, HeadTailProperties, EmptySeq
<1>5. Len(todo) = 1 => todo' = << >>
  BY <1>4, EmptySeq
<1>6. Len(todo) # 1 => todo' # << >>
  BY <1>4, EmptySeq
<1>7. FeederTyped'
  BY <1>1, <1>2, <1>3, <1>4 DEF FeederInv, FeederTyped, Sent, prepare_session
<1>8. RowsRead'
  BY <1>2 DEF FeederInv, RowsRead
<1>9. TakenOnce'
  <2>1. \A t \in Fed(rows) : t \in 1..Len(rows) /\ rows[t].ts <= claim
    BY <1>1, TakenBelongs DEF FeederInv
  <2>2. ~ NotYet'
    BY <1>1, <1>2 DEF NotYet
  <2> QED BY <1>2, <1>3, <2>1, <2>2 DEF TakenOnce
<1>10. Parted'
  BY <1>1, <1>2, <1>3 DEF FeederInv, Parted, Fed, prepare_session
<1>11. Steps'
  BY <1>1, <1>2, <1>5, <1>6 DEF Steps
<1> QED BY <1>7, <1>8, <1>9, <1>10, <1>11 DEF FeederInv

\* After a failure EverOS is given the same again only when it holds nothing.
LEMMA MishapStep ==
    ASSUME FeederInv, AddFails
    PROVE  FeederInv'
<1>1. /\ feeder = "add" /\ job = "running" /\ todo # << >> /\ add_ok \in Nat
      /\ UNCHANGED <<conv, claim, rows, add_ok, cards>>
  BY DEF AddFails, FeederInv, FeederTyped, Steps
<1>2. PICK e \in Failures :
        /\ taken' \in IF e = "unclear" THEN {taken, taken \o Texts(Head(todo))} ELSE {taken}
        /\ Failed(e)
  BY DEF AddFails
<1> DEFINE x == prepare_session(rows)
<1>3. /\ x \in Seq(Sent(rows)) /\ InLine(x) /\ x # << >>
      /\ into_batches(x) \in Seq(Seq(Sent(rows))) /\ Queued(into_batches(x))
      /\ Waiting(into_batches(x)) = Fed(rows) /\ into_batches(x) # << >>
  <2>1. rows \in Seq(ArchiveMessage) /\ x # << >>
    BY <1>1 DEF FeederInv, FeederTyped, Parted
  <2>2. x \in Seq(Sent(rows)) /\ InLine(x) /\ Fed(rows) = AllTexts(x)
    BY <2>1, PreparedFacts DEF Fed
  <2> HIDE DEF x
  <2> QED BY <2>1, <2>2, BatchFacts
<1>4. \/ /\ add_ok = 0 /\ taken' = taken
         /\ feeder' = "add" /\ todo' = into_batches(x) /\ job' = job
      \/ /\ feeder' = "off" /\ todo' = << >> /\ job' \in {"pending", "running"}
         /\ job' = "pending" => add_ok = 0 /\ taken' = taken
  <2>1. CASE _is_pre_add_transient(e) /\ attempt + 1 < Attempts
    BY <1>2, <2>1 DEF Failed, _is_pre_add_transient
  <2>2. CASE ~ (_is_pre_add_transient(e) /\ attempt + 1 < Attempts) /\ _is_no_side_effect(e)
    BY <1>2, <2>2 DEF Failed, _is_no_side_effect, _emit
  <2>3. CASE ~ (_is_pre_add_transient(e) /\ attempt + 1 < Attempts) /\ ~ _is_no_side_effect(e)
    BY <1>2, <2>3 DEF Failed, _emit
  <2> QED BY <2>1, <2>2, <2>3
<1> HIDE DEF x
<1>5. taken' \in Seq(Nat) /\ Rising(taken') /\ ToSet(taken') \subseteq Fed(rows)
  <2>1. taken \in Seq(Nat) /\ Rising(taken) /\ ToSet(taken) \subseteq Fed(rows)
    BY <1>1 DEF FeederInv, FeederTyped, TakenOnce, Parted
  <2> DEFINE more == taken \o Texts(Head(todo))
  <2>2. more \in Seq(Nat) /\ Rising(more) /\ ToSet(more) \subseteq Fed(rows)
    BY <1>1, BatchTaken
  <2>3. taken' = taken \/ taken' = more
    BY <1>2
  <2> HIDE DEF more
  <2> QED BY <2>1, <2>2, <2>3
<1>6. add_ok = 0 => taken = << >>
  BY <1>1 DEF FeederInv, TakenOnce, NotYet
<1>7. FeederTyped'
  <2>1. todo' \in Seq(Seq(Sent(rows)))
    BY <1>3, <1>4, EmptySeq
  <2> QED BY <1>1, <1>5, <2>1 DEF FeederInv, FeederTyped, Sent, prepare_session
<1>8. RowsRead'
  BY <1>1 DEF FeederInv, RowsRead
<1>9. TakenOnce'
  <2>1. \A t \in Fed(rows) : t \in 1..Len(rows) /\ rows[t].ts <= claim
    BY <1>1, TakenBelongs DEF FeederInv
  <2>2. NotYet' => taken' = << >>
    BY <1>1, <1>4, <1>6 DEF NotYet
  <2> QED BY <1>1, <1>5, <2>1, <2>2 DEF TakenOnce
<1>10. Parted'
  <2> SUFFICES ASSUME taken' = << >>, todo' = into_batches(x) PROVE Parted'
    BY <1>4, <1>6 DEF Parted
  <2>1. ToSet(taken') = {} /\ Waiting(todo') = Fed(rows) /\ Queued(todo')
    BY <1>3, NothingTaken
  <2>2. Below(ToSet(taken'), Waiting(todo'))
    BY <2>1 DEF Below
  <2>3. prepare_session(rows) # << >> /\ \A i \in 1..Len(rows) : rows[i].ts <= claim
    BY <1>1 DEF FeederInv, Parted
  <2> QED BY <1>1, <2>1, <2>2, <2>3 DEF Parted, Fed, prepare_session
<1>11. Steps'
  BY <1>1, <1>3, <1>4 DEF Steps
<1> QED BY <1>7, <1>8, <1>9, <1>10, <1>11 DEF FeederInv

\* A run that ends leaves what EverOS holds as it is.
LEMMA Ended ==
    ASSUME FeederInv, feeder # "off", UNCHANGED <<conv, claim, rows, add_ok, taken>>,
           feeder' = "off", todo' = << >>, job' \in {"running", "skipped"}
    PROVE  FeederInv'
<1>1. FeederTyped'
  BY EmptySeq DEF FeederInv, FeederTyped, Sent, prepare_session
<1>2. RowsRead'
  BY DEF FeederInv, RowsRead
<1>3. TakenOnce'
  BY DEF FeederInv, TakenOnce, NotYet
<1>4. Parted' /\ Steps'
  BY DEF Parted, Steps
<1> QED BY <1>1, <1>2, <1>3, <1>4 DEF FeederInv

LEMMA FlushStep ==
    ASSUME FeederInv, Flush
    PROVE  FeederInv'
<1>1. /\ feeder = "flush" /\ job = "running" /\ add_ok > 0 /\ add_ok \in Nat /\ todo = << >>
      /\ UNCHANGED <<conv, claim, rows, add_ok, taken, cards>>
  BY DEF Flush, FeederInv, FeederTyped, Steps
<1>2. CASE feeder' = "wait" /\ UNCHANGED <<job, todo>>
  <2>1. FeederTyped' /\ RowsRead'
    BY <1>1, <1>2 DEF FeederInv, FeederTyped, RowsRead, Sent, prepare_session
  <2>2. TakenOnce'
    BY <1>1, <1>2 DEF FeederInv, TakenOnce, NotYet
  <2>3. Parted'
    BY <1>1, <1>2 DEF FeederInv, Parted, Fed, prepare_session
  <2>4. Steps'
    BY <1>1, <1>2 DEF Steps
  <2> QED BY <2>1, <2>2, <2>3, <2>4 DEF FeederInv
<1>3. CASE \E e \in Failures : Failed(e)
  <2>1. feeder' = "off" /\ todo' = << >> /\ job' = "running"
    BY <1>1, <1>3 DEF Failed, _is_pre_add_transient, _is_no_side_effect, _emit
  <2> QED BY <1>1, <2>1, Ended
<1> QED BY <1>2, <1>3 DEF Flush

LEMMA CardStep ==
    ASSUME FeederInv, Card
    PROVE  FeederInv'
<1>1. cards \subseteq cards' /\ UNCHANGED <<conv, job, claim, feeder, rows, todo, add_ok, taken>>
  BY DEF Card
<1>2. FeederTyped' /\ RowsRead'
  BY <1>1 DEF FeederInv, FeederTyped, RowsRead, Sent, prepare_session
<1>3. TakenOnce'
  BY <1>1 DEF FeederInv, TakenOnce, NotYet
<1>4. Parted'
  BY <1>1 DEF FeederInv, Parted, Fed, prepare_session
<1>5. Steps'
  BY <1>1 DEF FeederInv, Steps, Fed, prepare_session
<1> QED BY <1>2, <1>3, <1>4, <1>5 DEF FeederInv

\* A run that was posted whole is completed when a card of it is seen.
LEMMA WaitStep ==
    ASSUME FeederInv, WaitTerminal
    PROVE  FeederInv'
<1>1. /\ feeder = "wait" /\ job = "running" /\ todo = << >>
      /\ UNCHANGED <<conv, claim, rows, add_ok, taken, cards>>
      /\ feeder' = "off" /\ todo' = << >>
  BY DEF WaitTerminal, _emit, FeederInv, Steps
<1>2. CASE collect_case_entry_ids = {}
  <2>1. job' = "skipped"
    BY <1>2 DEF WaitTerminal, _emit
  <2> QED BY <1>1, <2>1, Ended
<1>3. CASE collect_case_entry_ids # {}
  <2>1. job' = "completed" /\ "this" \in cards'
    BY <1>1, <1>3 DEF WaitTerminal, _emit, collect_case_entry_ids
  <2>2. ToSet(taken) = Fed(rows)
    BY <1>1, NoBatch DEF FeederInv, Parted
  <2>3. FeederTyped' /\ RowsRead'
    BY <1>1 DEF FeederInv, FeederTyped, RowsRead, Sent, prepare_session
  <2>4. TakenOnce'
    BY <1>1, <2>1 DEF FeederInv, TakenOnce, NotYet
  <2>5. Parted'
    BY <1>1 DEF Parted
  <2>6. Steps'
    BY <1>1, <2>1, <2>2 DEF Steps, Fed, prepare_session
  <2> QED BY <2>3, <2>4, <2>5, <2>6 DEF FeederInv
<1> QED BY <1>2, <1>3

LEMMA DiesStep ==
    ASSUME FeederInv, Crash
    PROVE  FeederInv'
<1>1. feeder' = "off" /\ todo' = << >> /\ job' = "running"
  BY DEF Crash, _emit
<1> QED BY <1>1, Ended DEF Crash

LEMMA FeederSteps == FeederInv /\ [EverosNext]_everosVars => FeederInv'
<1> SUFFICES ASSUME FeederInv, [EverosNext]_everosVars PROVE FeederInv'
  OBVIOUS
<1>1. CASE UNCHANGED everosVars
  <2>1. UNCHANGED <<conv, job, claim, feeder, rows, todo, add_ok, taken, cards>>
    BY <1>1 DEF everosVars
  <2>2. FeederTyped' /\ RowsRead'
    BY <2>1 DEF FeederInv, FeederTyped, RowsRead, Sent, prepare_session
  <2>3. TakenOnce'
    BY <2>1 DEF FeederInv, TakenOnce, NotYet
  <2>4. Parted' /\ Steps'
    BY <2>1 DEF FeederInv, Parted, Steps, Fed, prepare_session
  <2> QED BY <2>2, <2>3, <2>4 DEF FeederInv
<1> QED BY <1>1, SayStep, ClaimStep, RowsStep, AddStep, MishapStep, FlushStep, CardStep, WaitStep,
           DiesStep DEF EverosNext

\* What the feeder keeps: EverOS holds a first part of what it was told to feed.
THEOREM FeederInvHolds == EverosSpec => []FeederInv
<1> QED BY FeederStarts, FeederSteps, PTL DEF EverosSpec

\* Nothing is fed twice, and nothing newer than the claim (everos_feed_session.py).
THEOREM FedOnce == EverosSpec => []FedOnceAsClaimed
<1>1. FeederInv => FedOnceAsClaimed
  <2> SUFFICES ASSUME FeederInv PROVE FedOnceAsClaimed
    OBVIOUS
  <2>1. /\ taken \in Seq(Nat) /\ Rising(taken)
        /\ \A t \in ToSet(taken) : t \in 1..Len(rows) /\ rows[t].ts <= claim
        /\ \A i \in 1..Len(rows) : rows[i] = conv[i]
    BY DEF FeederInv, FeederTyped, TakenOnce, RowsRead
  <2>2. /\ DOMAIN taken = 1..Len(taken) /\ Len(taken) \in Nat
        /\ \A i \in 1..Len(taken) : taken[i] \in Nat /\ taken[i] \in ToSet(taken)
    BY <2>1, ToSetFacts, LenProperties
  <2>3. ASSUME NEW a \in 1..Len(taken), NEW b \in 1..Len(taken), taken[a] = taken[b] PROVE a = b
    <3>1. taken[a] \in Nat /\ ~ (a < b) /\ ~ (b < a)
      BY <2>1, <2>2, <2>3 DEF Rising
    <3> QED BY <3>1
  <2>4. IsInjective(taken)
    BY <2>2, <2>3 DEF IsInjective
  <2> QED BY <2>1, <2>2, <2>4 DEF FedOnceAsClaimed
<1> QED BY <1>1, FeederInvHolds, PTL

\* A completed conversation was fed whole, but for the tail that is held back,
\* and there is a card of it (pipeline.py, text_strategy.py, scan_terminal.py).
THEOREM CompletedAreWhole == EverosSpec => []CompletedIsWhole
<1>1. FeederInv => CompletedIsWhole
  <2> SUFFICES ASSUME FeederInv, job = "completed" PROVE CompletedIsWhole
    BY DEF CompletedIsWhole
  <2>1. /\ "this" \in cards /\ ToSet(taken) = Fed(rows) /\ taken \in Seq(Nat) /\ Rising(taken)
        /\ rows \in Seq(ArchiveMessage)
    BY DEF FeederInv, FeederTyped, TakenOnce, Steps
  <2>2. DOMAIN taken = 1..Len(taken) /\ DOMAIN rows = 1..Len(rows)
    BY <2>1, LenProperties
  <2>3. /\ Fed(rows) \subseteq KeptOf(rows)
        /\ \A t \in KeptOf(rows) \ Fed(rows) : t \in ToolsOf(rows) /\ \A u \in Fed(rows) : u < t
    BY <2>1, PreparedFacts
  <2>4. KeptOf(rows) = {i \in DOMAIN rows : rows[i].role \notin {"system", "other"}}
    BY <2>2 DEF KeptOf
  <2>5. \A i, j \in DOMAIN taken : i < j => taken[i] < taken[j]
    BY <2>1, <2>2 DEF Rising
  <2>6. \A t \in ToolsOf(rows) : \/ rows[t].role \in {"tool_call", "tool_result", "reasoning"}
                                 \/ rows[t].role = "assistant" /\ rows[t].mark
    BY DEF ToolsOf
  <2> QED BY <2>1, <2>3, <2>4, <2>5, <2>6 DEF CompletedIsWhole
<1> QED BY <1>1, FeederInvHolds, PTL


-----------------------------------------------------------------------------
(* Pruner.                                                                   *)

Segs == [len : Nat, shows : BOOLEAN]

\* A window of n characters is wide enough for the keyword in its middle.
LEMMA Capped ==
    ASSUME NEW line \in Line, NEW a \in line.ats, NEW n \in Nat, n >= 20
    PROVE  /\ _cap_line(line, a, n) \in Segs
           /\ _cap_line(line, a, n).len <= n /\ _cap_line(line, a, n).shows
<1> DEFINE L == line.len
           win == n - 2
           half == win \div 2
           start == Larger(0, Smaller(a - half, L - win))
           c == _cap_line(line, a, n)
<1>1. L \in Nat /\ a \in Nat /\ a + 9 <= L
  BY DEF Line, Word
<1>2. win \in Nat /\ win >= 18 /\ half \in Nat /\ half + 9 <= win
  BY DEF win, half
<1>3. CASE L <= n
  <2>1. c = [len |-> L, shows |-> TRUE]
    BY <1>3 DEF _cap_line
  <2> HIDE DEF L
  <2> QED BY <1>1, <1>3, <2>1 DEF Segs, c
<1>4. CASE ~ (L <= n)
  <2>1. c = [len |-> win + (IF start > 0 THEN 1 ELSE 0) + (IF start + win < L THEN 1 ELSE 0),
             shows |-> start <= a /\ a + Word <= start + win]
    BY <1>4 DEF _cap_line
  <2> HIDE DEF L, c
  <2>2. start \in Nat /\ start <= a /\ a + 9 <= start + win
    <3> HIDE DEF half, win
    <3>0. L > win
      BY <1>1, <1>4 DEF win
    <3>1. CASE a - half <= L - win
      BY <1>1, <1>2, <3>0, <3>1 DEF Larger, Smaller
    <3>2. CASE ~ (a - half <= L - win)
      BY <1>1, <1>2, <3>0, <3>2 DEF Larger, Smaller
    <3> QED BY <3>1, <3>2
  <2> HIDE DEF start
  <2>3. c.shows = (start <= a /\ a + 9 <= start + win)
    BY <2>1 DEF Word
  <2>4. c.shows = TRUE
    BY <2>2, <2>3
  <2>5. c.len = win + (IF start > 0 THEN 1 ELSE 0) + (IF start + win < L THEN 1 ELSE 0)
    BY <2>1
  <2>6. c.len \in Nat /\ c.len <= n
    <3>1. win + 2 = n
      BY DEF win
    <3> HIDE DEF win
    <3> QED BY <1>2, <2>5, <3>1
  <2>7. c = [len |-> c.len, shows |-> c.shows]
    BY <2>1
  <2> QED BY <2>4, <2>6, <2>7 DEF Segs, c
<1> QED BY <1>3, <1>4

\* Lengths of lines, added up with their newlines.
Measured(ms) == Len(ms) \in Nat /\ \A i \in 1..Len(ms) : ms[i].len \in Nat

LEMMA EndsFacts ==
    ASSUME NEW ms, Measured(ms)
    PROVE  /\ \A i \in 0..Len(ms) : LineEnds(ms)[i] = IF i = 0 THEN 0 ELSE LineEnds(ms)[i - 1] + ms[i].len + 1
           /\ \A i \in 0..Len(ms) : LineEnds(ms)[i] \in Nat /\ (i > 0 => LineEnds(ms)[i] > 0)
<1> DEFINE n == Len(ms)
           g == [i \in Nat |-> [x \in Nat |-> IF i \in 1..n THEN x + ms[i].len + 1 ELSE x]]
           Meets(f) == f = [i \in 0..n |-> IF i = 0 THEN 0 ELSE f[i - 1] + ms[i].len + 1]
<1>1. n \in Nat /\ \A i \in 1..n : ms[i].len \in Nat
  BY DEF Measured
<1> HIDE DEF n
<1>2. g \in [Nat -> [Nat -> Nat]] /\ \A i \in 1..n, x \in Nat : g[i][x] = x + ms[i].len + 1
  <2>1. \A i \in Nat : [x \in Nat |-> IF i \in 1..n THEN x + ms[i].len + 1 ELSE x] \in [Nat -> Nat]
    BY <1>1
  <2>2. \A i \in 1..n : i \in Nat
    BY <1>1
  <2> QED BY <2>1, <2>2
<1> HIDE DEF g
<1>3. PICK f \in [0..n -> Nat] : f[0] = 0 /\ \A i \in 1..n : f[i] = g[i][f[i - 1]]
  <2>1. Unfolded(Nat, 0, g, n) # {}
    BY <1>1, <1>2, Recursion
  <2> QED BY <2>1 DEF Unfolded
<1>4. \A i \in 0..n : f[i] = IF i = 0 THEN 0 ELSE f[i - 1] + ms[i].len + 1
  <2>1. \A i \in 0..n : i # 0 => i \in 1..n /\ i - 1 \in 0..n
    BY <1>1
  <2>2. \A i \in 1..n : f[i - 1] \in Nat
    BY <1>1, <1>3, <2>1
  <2> QED BY <1>2, <1>3, <2>1, <2>2
<1>5. Meets(f)
  BY <1>3, <1>4
<1> HIDE DEF Meets
<1>6. LineEnds(ms) = CHOOSE f_1 : Meets(f_1)
  BY DEF LineEnds, Meets, n
<1>7. Meets(LineEnds(ms))
  BY <1>5, <1>6, Zenon
<1>8. \A i \in 0..n : LineEnds(ms)[i] = IF i = 0 THEN 0 ELSE LineEnds(ms)[i - 1] + ms[i].len + 1
  BY <1>7 DEF Meets
<1> DEFINE T == {i \in Nat : i <= n => LineEnds(ms)[i] \in Nat}
<1>9. 0 \in T
  BY <1>1, <1>8
<1>10. ASSUME NEW i \in T PROVE i + 1 \in T
  <2> SUFFICES ASSUME i + 1 <= n PROVE LineEnds(ms)[i + 1] \in Nat
    BY <1>10
  <2>1. i \in Nat /\ i <= n /\ i + 1 \in 1..n /\ i + 1 \in 0..n /\ i + 1 # 0 /\ (i + 1) - 1 = i
    BY <1>1
  <2>2. LineEnds(ms)[i] \in Nat /\ ms[i + 1].len \in Nat
    BY <1>1, <2>1
  <2>3. LineEnds(ms)[i + 1] = LineEnds(ms)[(i + 1) - 1] + ms[i + 1].len + 1
    BY <1>8, <2>1
  <2> QED BY <2>1, <2>2, <2>3
<1>11. T = Nat
  <2>1. T \in SUBSET Nat
    OBVIOUS
  <2> HIDE DEF T
  <2> QED BY <1>9, <1>10, <2>1, Induction
<1>12. \A i \in 0..n : LineEnds(ms)[i] \in Nat
  <2> SUFFICES ASSUME NEW i \in 0..n PROVE LineEnds(ms)[i] \in Nat
    OBVIOUS
  <2>1. i \in Nat /\ i <= n
    BY <1>1
  <2>2. i \in {k \in Nat : k <= n => LineEnds(ms)[k] \in Nat}
    BY <1>11, <2>1, Zenon
  <2> QED BY <2>1, <2>2
<1>13. \A i \in 0..n : i > 0 => LineEnds(ms)[i] > 0
  <2> SUFFICES ASSUME NEW i \in 0..n, i > 0 PROVE LineEnds(ms)[i] > 0
    OBVIOUS
  <2>1. i # 0 /\ i - 1 \in 0..n /\ i \in 1..n
    BY <1>1
  <2>2. LineEnds(ms)[i - 1] \in Nat /\ ms[i].len \in Nat
    BY <1>1, <1>12, <2>1
  <2>3. LineEnds(ms)[i] = LineEnds(ms)[i - 1] + ms[i].len + 1
    BY <1>8, <2>1
  <2> QED BY <2>2, <2>3
<1> QED BY <1>8, <1>12, <1>13 DEF n

\* One more line, one more length.
LEMMA EndsAppend ==
    ASSUME NEW ms \in Seq(Segs), NEW m \in Segs
    PROVE  LineEnds(Append(ms, m))[Len(Append(ms, m))] = LineEnds(ms)[Len(ms)] + m.len + 1
<1> DEFINE n == Len(ms)
           new == Append(ms, m)
           T == {i \in Nat : i <= n => LineEnds(new)[i] = LineEnds(ms)[i]}
<1>1. /\ n \in Nat /\ Len(new) = n + 1 /\ new[n + 1] = m /\ \A i \in 1..n : new[i] = ms[i]
      /\ new \in Seq(Segs)
  BY AppendProperties, LenProperties
<1> HIDE DEF new
<1>2. Measured(ms) /\ Measured(new)
  <2>1. \A i \in 1..n : ms[i] \in Segs
    BY ElementOfSeq
  <2>2. \A i \in 1..(n + 1) : new[i] \in Segs
    BY <1>1, ElementOfSeq
  <2> QED BY <1>1, <2>1, <2>2 DEF Measured, Segs
<1> HIDE DEF n
<1>3. \A i \in 0..n : LineEnds(ms)[i] = IF i = 0 THEN 0 ELSE LineEnds(ms)[i - 1] + ms[i].len + 1
  BY <1>2, EndsFacts DEF n
<1>4. \A i \in 0..(n + 1) : LineEnds(new)[i] = IF i = 0 THEN 0 ELSE LineEnds(new)[i - 1] + new[i].len + 1
  BY <1>1, <1>2, EndsFacts
<1>5. 0 \in T
  BY <1>1, <1>3, <1>4
<1>6. ASSUME NEW i \in T PROVE i + 1 \in T
  <2> SUFFICES ASSUME i + 1 <= n PROVE LineEnds(new)[i + 1] = LineEnds(ms)[i + 1]
    BY <1>6
  <2>1. /\ i \in Nat /\ i <= n /\ i + 1 \in 1..n /\ i + 1 \in 0..n /\ i + 1 \in 0..(n + 1)
        /\ i + 1 # 0 /\ (i + 1) - 1 = i
    BY <1>1
  <2>2. LineEnds(new)[i] = LineEnds(ms)[i] /\ new[i + 1] = ms[i + 1]
    BY <1>1, <2>1
  <2> QED BY <1>3, <1>4, <2>1, <2>2
<1>7. T = Nat
  <2>1. T \in SUBSET Nat
    OBVIOUS
  <2> HIDE DEF T
  <2> QED BY <1>5, <1>6, <2>1, Induction
<1>8. LineEnds(new)[n] = LineEnds(ms)[n]
  <2>1. n \in {i \in Nat : i <= n => LineEnds(new)[i] = LineEnds(ms)[i]}
    BY <1>1, <1>7, Zenon
  <2>2. n <= n
    BY <1>1
  <2> QED BY <2>1, <2>2
<1>9. LineEnds(new)[n + 1] = LineEnds(new)[n] + m.len + 1
  <2>1. n + 1 \in 0..(n + 1) /\ n + 1 # 0 /\ (n + 1) - 1 = n
    BY <1>1
  <2> QED BY <1>1, <1>4, <2>1
<1> QED BY <1>1, <1>8, <1>9 DEF n, new

-----------------------------------------------------------------------------
(* The lines that are rescued.                                               *)

Taken == [segs : Seq(Segs), used : Nat, skipped : Seq({s \in [line : Line, at : Nat] : s.at \in s.line.ats})]

\* All of them show their error, and they cost what is booked.
InBudget(s, budget) ==
    /\ s.used = LineEnds(s.segs)[Len(s.segs)] /\ s.used <= budget
    /\ Len(s.segs) <= max_err_lines /\ \A i \in 1..Len(s.segs) : s.segs[i].shows

LEMMA TakeFacts ==
    ASSUME NEW s \in Taken, NEW budget \in Nat, InBudget(s, budget),
           NEW line \in Line, NEW hidden \in SUBSET line.ats
    PROVE  /\ Take(s, line, hidden, budget) \in Taken /\ InBudget(Take(s, line, hidden, budget), budget)
           /\ s.segs # << >> \/ s.skipped # << >> \/ hidden # {} =>
                \/ Take(s, line, hidden, budget).segs # << >>
                \/ Take(s, line, hidden, budget).skipped # << >>
<1> DEFINE at == Min(hidden)
           seg == _cap_line(line, at, MAX_ERR_LINE)
           new == Take(s, line, hidden, budget)
<1>1. s.segs \in Seq(Segs) /\ s.used \in Nat /\ Len(s.segs) \in Nat /\ max_err_lines \in Nat \ {0}
  BY PrunerAssumption, LenProperties DEF Taken
<1>2. CASE hidden = {} \/ Len(s.segs) >= max_err_lines
  <2>1. new = s
    BY <1>2 DEF Take
  <2>2. Len(s.segs) >= max_err_lines => s.segs # << >>
    BY <1>1, EmptySeq
  <2> QED BY <1>2, <2>1, <2>2
<1>3. CASE hidden # {} /\ ~ (Len(s.segs) >= max_err_lines)
  <2>1. at \in hidden
    <3>1. hidden \in SUBSET Nat
      BY DEF Line
    <3> QED BY <1>3, <3>1, ChosenLeast DEF Min
  <2> HIDE DEF at
  <2>2. at \in line.ats /\ at \in Nat
    BY <2>1 DEF Line
  <2>3. seg \in Segs /\ seg.shows /\ seg.len \in Nat
    <3>1. MAX_ERR_LINE \in Nat /\ MAX_ERR_LINE >= 20
      BY DEF MAX_ERR_LINE
    <3> QED BY <2>2, <3>1, Capped DEF Segs
  <2> HIDE DEF seg
  <2>4. CASE s.used + seg.len + 1 > budget
    <3> DEFINE e == [line |-> line, at |-> at]
               more == Append(s.skipped, e)
    <3>1. new = [s EXCEPT !.skipped = more]
      BY <1>3, <2>4 DEF Take, at, seg
    <3>2. e \in {x \in [line : Line, at : Nat] : x.at \in x.line.ats}
      BY <2>2
    <3> HIDE DEF e
    <3>3. /\ more \in Seq({x \in [line : Line, at : Nat] : x.at \in x.line.ats})
          /\ more # << >>
      <4>1. s.skipped \in Seq({x \in [line : Line, at : Nat] : x.at \in x.line.ats})
        BY DEF Taken
      <4> QED BY <3>2, <4>1, AppendProperties
    <3> HIDE DEF more, new
    <3>4. new \in Taken /\ new.segs = s.segs /\ new.used = s.used /\ new.skipped = more
      BY <3>1, <3>3 DEF Taken
    <3> QED BY <3>3, <3>4 DEF InBudget, new
  <2>5. CASE ~ (s.used + seg.len + 1 > budget)
    <3> DEFINE more == Append(s.segs, seg)
    <3>1. new = [s EXCEPT !.segs = more, !.used = s.used + seg.len + 1]
      BY <1>3, <2>5 DEF Take, at, seg
    <3>2. /\ more \in Seq(Segs) /\ more # << >> /\ Len(more) = Len(s.segs) + 1
          /\ \A i \in 1..Len(s.segs) : more[i] = s.segs[i]
          /\ more[Len(s.segs) + 1] = seg
      BY <1>1, <2>3, AppendProperties
    <3>3. LineEnds(more)[Len(more)] = LineEnds(s.segs)[Len(s.segs)] + seg.len + 1
      BY <1>1, <2>3, EndsAppend
    <3> HIDE DEF more, new
    <3> DEFINE sum == s.used + seg.len + 1
    <3>4. sum \in Nat
      BY <1>1, <2>3
    <3>5. new = [s EXCEPT !.segs = more, !.used = sum]
      BY <3>1
    <3> HIDE DEF sum
    <3>6. new \in Taken /\ new.segs = more /\ new.used = sum
      BY <3>2, <3>4, <3>5 DEF Taken
    <3>7. \A i \in 1..Len(more) : more[i].shows
      <4>1. \A i \in 1..Len(more) : i \in 1..Len(s.segs) \/ i = Len(s.segs) + 1
        BY <1>1, <3>2
      <4> QED BY <2>3, <3>2, <4>1 DEF InBudget
    <3>8. Len(more) <= max_err_lines
      BY <1>1, <1>3, <3>2
    <3>9. new.used = LineEnds(new.segs)[Len(new.segs)] /\ new.used <= budget
      BY <1>1, <2>3, <2>5, <3>3, <3>6 DEF InBudget, sum
    <3> QED BY <3>2, <3>6, <3>7, <3>8, <3>9 DEF InBudget, new
  <2> QED BY <2>4, <2>5
<1> QED BY <1>2, <1>3

LEMMA RescuingFacts ==
    ASSUME NEW text \in Seq(Line), NEW head, NEW tail, NEW budget \in Nat
    PROVE  LET s == Rescuing(text, head, tail, budget)[Len(text)]
           IN  /\ s \in Taken /\ InBudget(s, budget)
               /\ (\E i \in 1..Len(text) : Hidden(text, i, head, tail) # {}) =>
                    s.segs # << >> \/ s.skipped # << >>
<1> DEFINE n == Len(text)
           H(i) == Hidden(text, i, head, tail)
           S == {s \in Taken : InBudget(s, budget)}
           none == [segs |-> << >>, used |-> 0, skipped |-> << >>]
           g == [i \in Nat |-> [s \in S |-> IF i \in 1..n THEN Take(s, text[i], H(i), budget) ELSE s]]
           Meets(f) == f = [i \in 0..n |-> IF i = 0 THEN none ELSE Take(f[i - 1], text[i], H(i), budget)]
           r == Rescuing(text, head, tail, budget)
           Some(s) == s.segs # << >> \/ s.skipped # << >>
<1>1. n \in Nat /\ \A i \in 1..n : text[i] \in Line /\ H(i) \in SUBSET text[i].ats
  BY LenProperties, ElementOfSeq DEF Hidden
<1>2. none \in S
  <2>1. << >> \in Seq(Segs) /\ Len(<< >>) = 0 /\ \A X : << >> \in Seq(X)
    BY EmptySeq
  <2>2. none \in Taken
    BY <2>1 DEF Taken
  <2>3. LineEnds(<< >>)[0] = 0
    <3>1. Measured(<< >>)
      BY <2>1 DEF Measured
    <3> QED BY <2>1, <3>1, EndsFacts
  <2>4. InBudget(none, budget)
    BY <2>1, <2>3, PrunerAssumption DEF InBudget
  <2> QED BY <2>2, <2>4
<1> HIDE DEF n, H, none
<1>3. ASSUME NEW i \in 1..n, NEW s \in S
      PROVE  /\ Take(s, text[i], H(i), budget) \in S
             /\ Some(s) \/ H(i) # {} => Some(Take(s, text[i], H(i), budget))
  BY <1>1, TakeFacts
<1> HIDE DEF S, Some
<1>4. g \in [Nat -> [S -> S]] /\ \A i \in 1..n, s \in S : g[i][s] = Take(s, text[i], H(i), budget)
  <2>1. \A i \in Nat : [s \in S |-> IF i \in 1..n THEN Take(s, text[i], H(i), budget) ELSE s] \in [S -> S]
    BY <1>3
  <2>2. \A i \in 1..n : i \in Nat
    BY <1>1
  <2> QED BY <2>1, <2>2
<1> HIDE DEF g
<1>5. PICK f \in [0..n -> S] : f[0] = none /\ \A i \in 1..n : f[i] = g[i][f[i - 1]]
  <2>1. Unfolded(S, none, g, n) # {}
    BY <1>1, <1>2, <1>4, Recursion
  <2> QED BY <2>1 DEF Unfolded
<1>6. \A i \in 0..n : i # 0 => i \in 1..n /\ i - 1 \in 0..n /\ f[i - 1] \in S
  BY <1>1, <1>5
<1>7. \A i \in 0..n : f[i] = IF i = 0 THEN none ELSE Take(f[i - 1], text[i], H(i), budget)
  BY <1>4, <1>5, <1>6
<1>8. Meets(f)
  BY <1>5, <1>7
<1> HIDE DEF Meets
<1>9. r = CHOOSE f_1 : Meets(f_1)
  BY DEF Rescuing, Meets, n, H, none
<1>10. Meets(r)
  BY <1>8, <1>9, Zenon
<1> HIDE DEF r
<1>11. \A i \in 0..n : r[i] = IF i = 0 THEN none ELSE Take(r[i - 1], text[i], H(i), budget)
  BY <1>10 DEF Meets
<1> DEFINE Good(i) == r[i] \in S /\ ((\E k \in 1..i : H(k) # {}) => Some(r[i]))
           T == {i \in Nat : i <= n => Good(i)}
<1>12. 0 \in T
  BY <1>1, <1>2, <1>11
<1>13. ASSUME NEW i \in T PROVE i + 1 \in T
  <2> SUFFICES ASSUME i + 1 <= n PROVE Good(i + 1)
    BY <1>13
  <2>1. i \in Nat /\ i <= n /\ i + 1 \in 1..n /\ i + 1 \in 0..n /\ i + 1 # 0 /\ (i + 1) - 1 = i
    BY <1>1
  <2>2. Good(i)
    BY <1>13, <2>1
  <2>3. r[i + 1] = Take(r[i], text[i + 1], H(i + 1), budget)
    BY <1>11, <2>1
  <2>4. r[i + 1] \in S /\ (Some(r[i]) \/ H(i + 1) # {} => Some(r[i + 1]))
    BY <1>3, <2>1, <2>2, <2>3
  <2>5. \A k \in 1..(i + 1) : k \in 1..i \/ k = i + 1
    BY <2>1
  <2> QED BY <2>2, <2>4, <2>5
<1>14. T = Nat
  <2>1. T \in SUBSET Nat
    OBVIOUS
  <2> HIDE DEF T
  <2> QED BY <1>12, <1>13, <2>1, Induction
<1>15. Good(n)
  <2>1. n \in {i \in Nat : i <= n => Good(i)}
    BY <1>1, <1>14, Zenon
  <2>2. n <= n
    BY <1>1
  <2> HIDE DEF Good
  <2> QED BY <2>1, <2>2
<1> QED BY <1>15 DEF S, H, n, Some, r

\* Lines rescued from a text: within the budget, each showing an error, and at
\* least one if any error was hidden.
LEMMA RescuedFacts ==
    ASSUME NEW text \in Seq(Line), NEW head, NEW tail, NEW budget \in Nat, budget > 20
    PROVE  LET segs == Rescued(text, head, tail, budget)
           IN  /\ segs \in Seq(Segs) /\ Len(segs) <= max_err_lines
               /\ LineEnds(segs)[Len(segs)] \in Nat /\ LineEnds(segs)[Len(segs)] <= budget
               /\ \A i \in 1..Len(segs) : segs[i].shows
               /\ (\E i \in 1..Len(text) : Hidden(text, i, head, tail) # {}) => segs # << >>
<1> DEFINE s == Rescuing(text, head, tail, budget)[Len(text)]
           segs == Rescued(text, head, tail, budget)
           some == \E i \in 1..Len(text) : Hidden(text, i, head, tail) # {}
           room == budget - s.used
<1>1. s \in Taken /\ InBudget(s, budget) /\ (some => s.segs # << >> \/ s.skipped # << >>)
  BY RescuingFacts
<1>2. segs = s.segs \o Leftover(s, budget)
  BY DEF Rescued
<1> HIDE DEF s, segs, some
<1>3. /\ s.segs \in Seq(Segs) /\ s.used \in Nat /\ Len(s.segs) \in Nat /\ max_err_lines \in Nat \ {0}
      /\ s.skipped \in Seq({x \in [line : Line, at : Nat] : x.at \in x.line.ats})
      /\ s.used = LineEnds(s.segs)[Len(s.segs)] /\ s.used <= budget /\ Len(s.segs) <= max_err_lines
      /\ \A i \in 1..Len(s.segs) : s.segs[i].shows
  BY <1>1, PrunerAssumption, LenProperties DEF Taken, InBudget
<1>4. CASE s.skipped # << >> /\ Len(s.segs) < max_err_lines /\ room > MinRoom
  <2> DEFINE c == s.skipped[1]
             m == _cap_line(c.line, c.at, room - 1)
  <2>1. c \in {x \in [line : Line, at : Nat] : x.at \in x.line.ats}
    <3>1. 1 \in 1..Len(s.skipped)
      BY <1>3, <1>4, EmptySeq
    <3> QED BY <1>3, <3>1, ElementOfSeq
  <2>2. c.line \in Line /\ c.at \in c.line.ats
    BY <2>1
  <2>3. room \in Nat /\ room - 1 \in Nat /\ room - 1 >= 20
    <3>1. s.used \in Nat /\ budget - s.used > 20
      BY <1>3, <1>4 DEF MinRoom
    <3> QED BY <3>1
  <2> HIDE DEF c, room
  <2>4. m \in Segs /\ m.len <= room - 1 /\ m.shows
    BY <2>2, <2>3, Capped
  <2>5. Leftover(s, budget) = <<m>>
    BY <1>4 DEF Leftover, c, room
  <2> HIDE DEF m
  <2>6. segs = Append(s.segs, m)
    BY <1>2, <1>3, <2>4, <2>5, AppendIsConcat
  <2>7. /\ segs \in Seq(Segs) /\ segs # << >> /\ Len(segs) = Len(s.segs) + 1
        /\ \A i \in 1..Len(s.segs) : segs[i] = s.segs[i]
        /\ segs[Len(s.segs) + 1] = m
    <3>1. m \in Segs /\ s.segs \in Seq(Segs)
      BY <1>3, <2>4
    <3> QED BY <2>6, <3>1, AppendProperties
  <2>8. LineEnds(segs)[Len(segs)] = s.used + m.len + 1
    BY <1>3, <2>4, <2>6, EndsAppend
  <2>9. \A i \in 1..Len(segs) : segs[i].shows
    <3>1. \A i \in 1..Len(segs) : i \in 1..Len(s.segs) \/ i = Len(s.segs) + 1
      BY <1>3, <2>7
    <3> QED BY <1>3, <2>4, <2>7, <3>1
  <2>10. m.len \in Nat
    BY <2>4 DEF Segs
  <2>11. LineEnds(segs)[Len(segs)] \in Nat /\ LineEnds(segs)[Len(segs)] <= budget
    <3>1. s.used \in Nat /\ m.len \in Nat /\ m.len <= room - 1
      BY <1>3, <2>4, <2>10
    <3>2. s.used + m.len + 1 \in Nat /\ s.used + m.len + 1 <= budget
      BY <3>1 DEF room
    <3> QED BY <2>8, <3>2
  <2>12. Len(segs) <= max_err_lines
    BY <1>3, <1>4, <2>7
  <2> QED BY <2>7, <2>9, <2>11, <2>12 DEF segs
<1>5. CASE ~ (s.skipped # << >> /\ Len(s.segs) < max_err_lines /\ room > MinRoom)
  <2>1. Leftover(s, budget) = << >>
    BY <1>5 DEF Leftover, room
  <2>2. segs = s.segs
    BY <1>2, <1>3, <2>1, ConcatEmptySeq
  <2>3. some => s.segs # << >>
    <3> SUFFICES ASSUME some, s.segs = << >> PROVE FALSE
      OBVIOUS
    <3>1. Len(s.segs) = 0 /\ s.used = 0
      <4>1. Len(<< >>) = 0 /\ << >> \in Seq(Segs)
        BY EmptySeq
      <4>2. Measured(<< >>)
        BY <4>1 DEF Measured
      <4>3. LineEnds(<< >>)[0] = 0
        BY <4>1, <4>2, EndsFacts
      <4> QED BY <1>3, <4>1, <4>3
    <3>2. room > MinRoom
      BY <3>1 DEF MinRoom
    <3> HIDE DEF room
    <3> QED BY <1>1, <1>3, <1>5, <3>1, <3>2
  <2> QED BY <1>3, <2>2, <2>3 DEF segs, some
<1> QED BY <1>4, <1>5

\* The lines of a text, and where its newlines are.
LEMMA LineFacts ==
    ASSUME NEW text \in Seq(Line), text # << >>
    PROVE  Total(text) \in Nat /\ Newlines(text) \in SUBSET Nat
<1> DEFINE n == Len(text)
<1>1. n \in Nat \ {0} /\ Measured(text)
  <2>1. n \in Nat \ {0} /\ \A i \in 1..n : text[i] \in Line
    BY EmptySeq, ElementOfSeq
  <2> QED BY <2>1 DEF Measured, Line
<1> HIDE DEF n
<1>2. \A i \in 0..n : LineEnds(text)[i] \in Nat /\ (i > 0 => LineEnds(text)[i] > 0)
  BY <1>1, EndsFacts DEF n
<1>3. Total(text) \in Nat
  <2>1. Total(text) = LineEnds(text)[(n + 1) - 1] - 1
    BY DEF Total, Begins, n
  <2>2. (n + 1) - 1 = n /\ n \in 0..n /\ n > 0
    BY <1>1
  <2>3. LineEnds(text)[n] \in Nat /\ LineEnds(text)[n] > 0
    BY <1>2, <2>2
  <2> QED BY <2>1, <2>2, <2>3
<1>4. Newlines(text) \in SUBSET Nat
  <2> SUFFICES ASSUME NEW i \in 2..n PROVE Begins(text, i) - 1 \in Nat
    BY DEF Newlines, n
  <2>1. i - 1 \in 0..n /\ i - 1 > 0
    BY <1>1
  <2>2. LineEnds(text)[i - 1] \in Nat /\ LineEnds(text)[i - 1] > 0
    BY <1>2, <2>1
  <2> QED BY <2>2 DEF Begins
<1> QED BY <1>3, <1>4

\* Head and tail are no longer than what is kept for them.
LEMMA HeadAndTail ==
    ASSUME NEW text \in Seq(Line), text # << >>, NEW body \in Nat, body <= Total(text)
    PROVE  /\ HeadEnd(text, body) \in Nat /\ HeadEnd(text, body) <= (body * 2) \div 3
           /\ TailStart(text, body) \in Nat
           /\ Total(text) - TailStart(text, body) <= body - (body * 2) \div 3
<1> DEFINE tot == Total(text)
           third == (body * 2) \div 3
           head == HeadEnd(text, body)
           tail == TailStart(text, body)
           NL == Newlines(text)
<1>1. tot \in Nat
  BY LineFacts
<1>2. NL \in SUBSET Nat
  BY LineFacts
<1>3. third \in Nat /\ third <= body
  OBVIOUS
<1> HIDE DEF NL, third, tot
<1>4. head \in Nat /\ head <= third
  <2> DEFINE in == {p \in NL : p < third}
  <2>1. head = IF in = {} THEN third ELSE Max(in) + 1
    BY DEF HeadEnd, NL, third
  <2>2. in \in SUBSET Nat /\ \A p \in in : p < third /\ p <= third
    <3>1. \A p \in in : p \in Nat /\ p < third
      BY <1>2
    <3> QED BY <1>3, <3>1
  <2> HIDE DEF in
  <2>3. CASE in # {}
    <3>1. \E m \in in : \A p \in in : p <= m
      BY <1>3, <2>2, <2>3, GreatestNumber
    <3>2. \E m \in in : \A p \in in : m >= p
      BY <2>2, <3>1
    <3>3. Max(in) \in in
      BY <3>2, Zenon DEF Max
    <3>4. Max(in) \in Nat /\ Max(in) < third
      BY <2>2, <3>3
    <3> QED BY <1>3, <2>1, <2>3, <3>4
  <2> QED BY <1>3, <2>1, <2>3
<1>5. tail \in Nat /\ tot - tail <= body - third
  <2> DEFINE raw == tot - (body - third)
             in == {p \in NL : p >= raw}
  <2>1. tail = IF in = {} THEN raw ELSE Min(in)
    BY DEF TailStart, NL, third, tot
  <2>2. raw \in Nat /\ tot - raw = body - third
    BY <1>1, <1>3 DEF tot
  <2> HIDE DEF raw
  <2>3. in \in SUBSET Nat /\ \A p \in in : p >= raw
    BY <1>2
  <2> HIDE DEF in
  <2>4. CASE in # {}
    <3>1. Min(in) \in in
      BY <2>3, <2>4, ChosenLeast DEF Min
    <3>2. Min(in) \in Nat /\ Min(in) >= raw
      BY <2>3, <3>1
    <3> HIDE DEF Min
    <3> QED BY <1>1, <1>3, <2>1, <2>2, <2>4, <3>2
  <2>5. CASE in = {}
    <3>1. tail = raw
      BY <2>1, <2>5
    <3> QED BY <1>3, <2>2, <3>1
  <2> QED BY <2>4, <2>5
<1> QED BY <1>1, <1>4, <1>5 DEF third, tot

LEMMA DigitsFacts ==
    ASSUME NEW n
    PROVE  Digits(n) \in Nat /\ Digits(n) <= 9
BY DEF Digits

\* What _clamp makes of a text under a cap of at least MIN_CAP.
LEMMA ClampFacts ==
    ASSUME NEW text \in Seq(Line), text # << >>, NEW cap \in Nat, cap >= MIN_CAP, NEW rescue \in BOOLEAN
    PROVE  LET out == _clamp(text, cap, rescue)
           IN  /\ out.len <= cap
               /\ out.segs \in Seq(Segs) /\ Len(out.segs) <= max_err_lines
               /\ \A i \in 1..Len(out.segs) : out.segs[i].shows
               /\ rescue /\ out.hidden # {} => out.segs # << >>
<1> DEFINE avail == cap - MARKER_RESERVE
           budget == IF rescue THEN avail \div RESCUE_FRAC ELSE 0
           body == avail - budget
           tot == Total(text)
           head == HeadEnd(text, body)
           tail == TailStart(text, body)
           segs == IF rescue THEN Rescued(text, head, tail, budget) ELSE << >>
           cost == LineEnds(segs)[Len(segs)]
           errors == IF segs = << >> THEN 0 ELSE LabelLen + cost
           hidden == {i \in 1..Len(text) : Hidden(text, i, head, tail) # {}}
           out == _clamp(text, cap, rescue)
<1>1. << >> \in Seq(Segs) /\ Len(<< >>) = 0 /\ max_err_lines \in Nat
  BY EmptySeq, PrunerAssumption
<1>2. Larger(cap, MIN_CAP) = cap
  BY DEF Larger, MIN_CAP
<1>3. CASE tot <= cap
  <2>1. out = [len |-> tot, hidden |-> {}, segs |-> << >>]
    BY <1>2, <1>3 DEF _clamp
  <2> HIDE DEF out, tot
  <2>2. out.len = tot /\ out.hidden = {} /\ out.segs = << >>
    BY <2>1
  <2> QED BY <1>1, <1>3, <2>2 DEF out
<1>4. CASE ~ (tot <= cap)
  <2>1. avail \in Nat /\ avail = cap - 48 /\ avail >= 152
    BY DEF MARKER_RESERVE, MIN_CAP
  <2>2. budget \in Nat /\ budget <= avail /\ (rescue => budget > 20)
    <3> HIDE DEF avail
    <3> QED BY <2>1 DEF RESCUE_FRAC
  <2> HIDE DEF avail, budget
  <2>3. body \in Nat /\ body <= cap /\ body + budget = cap - 48
    BY <2>1, <2>2
  <2>4. tot \in Nat /\ body <= tot
    <3>1. tot \in Nat
      BY LineFacts
    <3> QED BY <1>4, <2>3, <3>1
  <2> HIDE DEF body
  <2>5. /\ head \in Nat /\ tail \in Nat /\ head + (tot - tail) <= body
    <3> DEFINE third == (body * 2) \div 3
    <3>1. third \in Nat
      BY <2>3
    <3>2. head \in Nat /\ head <= third /\ tail \in Nat /\ tot - tail <= body - third
      BY <2>3, <2>4, HeadAndTail
    <3> HIDE DEF third, head, tail, tot
    <3> QED BY <2>3, <2>4, <3>1, <3>2
  <2> HIDE DEF head, tail
  <2>6. /\ segs \in Seq(Segs) /\ Len(segs) <= max_err_lines
        /\ \A i \in 1..Len(segs) : segs[i].shows
        /\ rescue /\ hidden # {} => segs # << >>
        /\ segs # << >> => cost \in Nat /\ cost <= budget
    <3>1. CASE rescue
      <4>1. segs = Rescued(text, head, tail, budget)
        BY <3>1
      <4> HIDE DEF segs
      <4> QED BY <2>2, <3>1, <4>1, RescuedFacts
    <3>2. CASE ~ rescue
      <4>1. segs = << >>
        BY <3>2
      <4> HIDE DEF segs
      <4> QED BY <1>1, <3>2, <4>1
    <3> QED BY <3>1, <3>2
  <2>7. /\ out.len = head + errors + MarkerLen + Digits(tail - head) + (tot - tail) + 2
        /\ out.hidden = hidden /\ out.segs = segs
    BY <1>2, <1>4 DEF _clamp, head, tail, body, budget, avail
  <2> HIDE DEF segs, hidden, out, cost, tot
  <2>8. errors \in Nat /\ errors <= budget + 8
    BY <2>2, <2>6 DEF LabelLen
  <2>9. Digits(tail - head) \in Nat /\ Digits(tail - head) <= 9
    BY DigitsFacts
  <2> HIDE DEF errors
  <2>10. out.len <= cap
    BY <2>2, <2>3, <2>4, <2>5, <2>7, <2>8, <2>9 DEF MarkerLen
  <2> QED BY <2>6, <2>7, <2>10 DEF out
<1> QED BY <1>3, <1>4

\* What was cut is what _clamp made of an output.
ClampedInv ==
    cut # << >> =>
        \E text \in Outputs, role \in DOMAIN _CLAMP :
            cut = [text |-> text, role |-> role,
                   out |-> _clamp(text, _CLAMP[role].cap, _CLAMP[role].rescue)]

\* A text that is cut stays within its cap and keeps an error that was in what was
\* cut, for any output (DeterministicPruner._clamp).
THEOREM CutsKeepAnError == PruneSpec => []CutKeepsAnError
<1>1. PruneInit => ClampedInv
  BY DEF PruneInit, ClampedInv
<1>2. ClampedInv /\ [Prune]_cut => ClampedInv'
  BY DEF ClampedInv, Prune
<1>3. ClampedInv => CutKeepsAnError
  <2> SUFFICES ASSUME ClampedInv, cut # << >> PROVE CutKeepsAnError
    BY DEF CutKeepsAnError
  <2>1. PICK text \in Outputs, role \in DOMAIN _CLAMP :
           cut = [text |-> text, role |-> role,
                  out |-> _clamp(text, _CLAMP[role].cap, _CLAMP[role].rescue)]
    BY DEF ClampedInv
  <2> DEFINE cap == _CLAMP[role].cap
             rescue == _CLAMP[role].rescue
             out == _clamp(text, cap, rescue)
  <2>2. cap \in Nat /\ cap >= MIN_CAP /\ rescue \in BOOLEAN
    <3>1. role \in {"tool_call", "tool_result", "reasoning"}
      BY DEF _CLAMP
    <3>2. /\ _CLAMP["tool_call"] = [cap |-> 1200, rescue |-> TRUE]
          /\ _CLAMP["tool_result"] = [cap |-> 2500, rescue |-> TRUE]
          /\ _CLAMP["reasoning"] = [cap |-> 1000, rescue |-> FALSE]
      BY DEF _CLAMP
    <3>3. cap \in {1200, 2500, 1000}
      BY <3>1, <3>2
    <3>4. rescue \in BOOLEAN
      <4>1. PICK c : c = _CLAMP[role] /\ rescue = c.rescue
        OBVIOUS
      <4>2. c = [cap |-> 1200, rescue |-> TRUE] \/ c = [cap |-> 2500, rescue |-> TRUE]
              \/ c = [cap |-> 1000, rescue |-> FALSE]
        BY <3>1, <3>2, <4>1
      <4>3. c.rescue = TRUE \/ c.rescue = FALSE
        BY <4>2
      <4> HIDE DEF rescue
      <4> QED BY <4>1, <4>3
    <3> HIDE DEF cap, rescue
    <3>5. cap \in Nat /\ cap >= MIN_CAP
      BY <3>3 DEF MIN_CAP
    <3> QED BY <3>4, <3>5
  <2>3. text \in Seq(Line) /\ text # << >>
    BY PrunerAssumption
  <2> HIDE DEF cap, rescue
  <2>4. /\ out.len <= cap
        /\ out.segs \in Seq(Segs) /\ Len(out.segs) <= max_err_lines
        /\ \A i \in 1..Len(out.segs) : out.segs[i].shows
        /\ rescue /\ out.hidden # {} => out.segs # << >>
    BY <2>2, <2>3, ClampFacts
  <2>5. cut.out = out /\ cut.role = role
    BY <2>1 DEF cap, rescue
  <2> HIDE DEF out
  <2>6. ASSUME out.segs # << >> PROVE \E s \in ToSet(out.segs) : s.shows
    <3>1. 1 \in 1..Len(out.segs) /\ DOMAIN out.segs = 1..Len(out.segs)
      BY <2>4, <2>6, EmptySeq, LenProperties
    <3> QED BY <2>4, <3>1 DEF ToSet
  <2>7. /\ cut.out.len <= _CLAMP[cut.role].cap /\ Len(cut.out.segs) <= max_err_lines
        /\ _CLAMP[cut.role].rescue /\ cut.out.hidden # {} => \E s \in ToSet(cut.out.segs) : s.shows
    BY <2>4, <2>5, <2>6 DEF cap, rescue
  <2> QED BY <2>7 DEF CutKeepsAnError
<1> QED BY <1>1, <1>2, <1>3, PTL DEF PruneSpec
=============================================================================
