--------------------------- MODULE MirrorRestore ---------------------------
(***************************************************************************)
(* restore-from-mirror.py: a staging home rebuilt from the raw mirror, from   *)
(* which the whole archive is taken in again. A conversation file is          *)
(* captured many times as it grows, each time as a manifest and a blob; only   *)
(* its newest capture may be staged, a shorter one would be taken in without   *)
(* a word. Manifests may be unusable, blobs missing or rotten, a run may be    *)
(* killed and started again, with --force over what it left.                  *)
(*                                                                         *)
(* The content of a capture is the length the file had.                       *)
(***************************************************************************)
EXTENDS Naturals, FiniteSets, SequencesExt

CONSTANTS
    Paths,          \* original_path of the conversation files
    Abroad,         \* an original_path that is not under SOURCE_HOME_PREFIX
    Unstaged,       \* no file under the path in staging
    Captures,       \* bound: captures
    Spoils,         \* bound: manifests and blobs that go bad
    Restores        \* bound: runs of the tool

ASSUME MirrorAssumption == {Captures, Spoils, Restores} \subseteq Nat

VARIABLES
    manifests,      \* v1/manifests: per capture [path, at, size, usable, readable]
    blob,           \* per capture its blob: intact, rotten or gone
    staging,        \* per path the content staged
    staged_toml,    \* .config/cass/sources.toml of staging
    winners,        \* what the run has not copied: a capture per path
    tool,           \* step of the run: off, copy
    marker,         \* RESTORE_LATEST_PER_PATH_OK was printed
    seen, usable,   \* history: the captures the run found, and could use
    spoils, restores

mirrorVars == <<manifests, blob, staging, staged_toml, winners, tool, marker, seen, usable, spoils, restores>>

Anywhere == Paths \union {Abroad}

Ids == DOMAIN manifests

\* The file has grown to n and is captured, in the same millisecond or later.
Capture(p) ==
    /\ Len(manifests) < Captures
    /\ LET mine == {i \in Ids : manifests[i].path = p}
           grown == Cardinality(mine) + 1
           last == IF manifests = << >> THEN 1 ELSE Last(manifests).at
       IN  \E t \in {last, last + 1} :
             manifests' = Append(manifests, [path |-> p, at |-> t, size |-> grown, usable |-> TRUE])
    /\ blob' = Append(blob, "intact")
    /\ UNCHANGED <<staging, staged_toml, winners, tool, marker, seen, usable, spoils, restores>>

\* A manifest loses a required field or its syntax, a blob its bytes.
Spoil ==
    /\ spoils < Spoils /\ spoils' = spoils + 1
    /\ \E i \in Ids :
         \/ manifests' = [manifests EXCEPT ![i].usable = FALSE] /\ UNCHANGED blob
         \/ blob' \in {[blob EXCEPT ![i] = b] : b \in {"rotten", "gone"}} /\ UNCHANGED manifests
    /\ UNCHANGED <<staging, staged_toml, winners, tool, marker, seen, usable, restores>>

is_valid_manifest(i) == manifests[i].usable

\* Newest first, then longest, then by name: a total order.
winner_sort_key_BySize(i, j) ==
    \/ manifests[i].size < manifests[j].size
    \/ manifests[i].size = manifests[j].size /\ i < j

winner_sort_key(i, j) ==
    \/ manifests[i].at > manifests[j].at
    \/ manifests[i].at = manifests[j].at /\ manifests[i].size > manifests[j].size
    \/ manifests[i].at = manifests[j].at /\ manifests[i].size = manifests[j].size /\ i < j

Winners ==
    {i \in Ids : /\ is_valid_manifest(i)
                 /\ \A j \in Ids \ {i} : manifests[j].path = manifests[i].path /\ is_valid_manifest(j)
                                           => winner_sort_key(i, j)}

Nothing == [p \in Anywhere |-> Unstaged]
NoToml == [there |-> FALSE, form |-> "list", entries |-> {}]

\* A staging that holds something is refused, or cleared with --force.
StartRestore(force) ==
    /\ tool = "off" /\ manifests # << >>
    /\ restores < Restores /\ restores' = restores + 1
    /\ (staging = Nothing /\ ~staged_toml.there) \/ force
    /\ staging' = Nothing /\ staged_toml' = NoToml
    /\ winners' = Winners
    /\ seen' = Ids /\ usable' = {i \in Ids : is_valid_manifest(i)}
    /\ tool' = "copy" /\ marker' = FALSE
    /\ UNCHANGED <<manifests, blob, spoils>>

Ends == tool' = "off" /\ winners' = {}

\* A path that is not under the home cannot be mapped into staging: there is no
\* target for it, and the run ends at it.
resolve_target(p) == p \in Paths

\* The blob is copied and the copy is hashed; one that is missing or wrong, or
\* has no target, ends the run.
CopyWinner ==
    /\ tool = "copy"
    /\ \E i \in winners :
         LET p == manifests[i].path
         IN  IF blob[i] = "gone" \/ ~resolve_target(p) THEN Ends /\ UNCHANGED staging
             ELSE /\ staging' = [staging EXCEPT ![p] = IF blob[i] = "intact" THEN manifests[i].size ELSE 0]
                  /\ IF blob[i] = "intact" THEN winners' = winners \ {i} /\ UNCHANGED tool ELSE Ends
    /\ UNCHANGED <<manifests, blob, staged_toml, marker, seen, usable, spoils, restores>>

\* A path whose only manifest was skipped is never counted.
lost_paths == 0

\* The production sources.toml, as the operator may have it at that moment: not
\* there, with a table inside a source, and its paths a list or a text. An entry is
\* under the home, the home itself without the last slash, or elsewhere.
SourcesToml ==
    {t \in [there : BOOLEAN, nested : BOOLEAN, form : {"list", "text"},
            entries : SUBSET {"under", "home", "elsewhere"}] :
       t.form = "text" => Cardinality(t.entries) = 1}

\* An entry of a list that begins with the home and a slash is moved into staging;
\* the others, and what is not a list, stay as they are.
rewrite_paths(t) ==
    IF t.form = "list" THEN {IF e = "under" THEN "staged" ELSE e : e \in t.entries} ELSE t.entries

\* _emit_toml refuses a nested table, and the write may fail.
generate_sources_toml(prod) ==
    \/ /\ prod.there /\ ~prod.nested
       /\ staged_toml' = [there |-> TRUE, form |-> prod.form, entries |-> rewrite_paths(prod)]
    \/ UNCHANGED staged_toml

\* Every winner is in place; the marker is printed if sources.toml is too.
FinishRestore ==
    /\ tool = "copy" /\ winners = {}
    /\ Ends
    /\ \E prod \in SourcesToml : generate_sources_toml(prod)
    /\ marker' = (staged_toml'.there /\ lost_paths = 0)
    /\ UNCHANGED <<manifests, blob, staging, seen, usable, spoils, restores>>

KillRestore ==
    /\ tool = "copy" /\ Ends
    /\ UNCHANGED <<manifests, blob, staging, staged_toml, marker, seen, usable, spoils, restores>>

MirrorInit ==
    /\ manifests = << >> /\ blob = << >> /\ seen = {} /\ usable = {}
    /\ staging = Nothing /\ staged_toml = NoToml /\ winners = {} /\ tool = "off" /\ marker = FALSE
    /\ spoils = 0 /\ restores = 0

MirrorNext ==
    \/ \E p \in Anywhere : Capture(p)
    \/ \E force \in BOOLEAN : StartRestore(force)
    \/ Spoil \/ CopyWinner \/ FinishRestore \/ KillRestore

MirrorSpec == MirrorInit /\ [][MirrorNext]_mirrorVars

-----------------------------------------------------------------------------
Of(p, found) == {i \in found : manifests[i].path = p}

MarkedIsNewest ==
    \A p \in Anywhere :
        staging[p] = IF Of(p, usable) = {} THEN Unstaged
                     ELSE manifests[CHOOSE i \in Of(p, usable) : \A j \in Of(p, usable) : j <= i].size

ListsAreRewritten ==
    staged_toml.there /\ (staged_toml.form = "list" => "under" \notin staged_toml.entries)

\* The marker means that staging can be taken in: it holds of every path the newest
\* capture that could be used and nothing else, whatever earlier runs left there,
\* and its sources.toml is this run's, with no entry of a list under the production
\* home (restore-from-mirror.py: winner_sort_key, resolve_target, rewrite_paths, main).
StagingIsWhole == marker => MarkedIsNewest /\ ListsAreRewritten

\* What the tool says of itself (lines 31-33): of every entry of the production
\* sources the prefix of the home is rewritten. Not so of a text, nor of the home itself.
EntriesAreRewritten == marker => {"under", "home"} \cap staged_toml.entries = {}

\* What the tool says of itself (lines 58-60): a path all of whose manifests
\* were skipped is lost, and the marker is refused.
MarkerMeansAll ==
    marker => \A p \in Anywhere : Of(p, seen) # {} => staging[p] # Unstaged
=============================================================================
