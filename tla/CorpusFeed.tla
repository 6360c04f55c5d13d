----------------------------- MODULE CorpusFeed -----------------------------
(***************************************************************************)
(* The export of the conversation archive to a directory of transcripts      *)
(* (cass_corpus): run_feed exports what lies behind a cursor <<time, rowid>> *)
(* kept in a file, export_one exports one conversation by its stable id and  *)
(* leaves the cursor alone. Both write a transcript by link, or by replace   *)
(* after looking at whose file is there. Conversations grow at any time,     *)
(* also with times that are already past; a rebuilt archive renumbers its    *)
(* rows. Reads and writes fail and runs are killed.                          *)
(*                                                                         *)
(* A text is the conversation it renders with the turns and the newest time  *)
(* it was rendered from.                                                     *)
(***************************************************************************)
EXTENDS Naturals, FiniteSets

CONSTANTS
    Convs,        \* conversations, told apart by (external_id, source_id, agent)
    MinTurns,     \* min_turns: shorter conversations are not selected
    FeedCap,      \* cap: conversations per run
    Layouts,      \* how it may start: [named, enough, corpus]
    Foreign,      \* a file that is no transcript
    NoText,       \* no file, or nothing read
    NoKey,        \* no cursor
    FeedTurns,    \* bound: turns of a conversation
    FeedTimes,    \* bound: times
    FeedRuns,     \* bound: runs of either export that select something
    FeedFaults,   \* bound: failures and kills
    Rebuilds      \* bound: rebuilt archives

ASSUME CorpusAssumption ==
    /\ {MinTurns, FeedTurns, FeedTimes, FeedRuns, FeedFaults, Rebuilds} \subseteq Nat
    /\ FeedCap \in Nat \ {0} /\ MinTurns > 0

Names == 1..Cardinality(Convs)

Transcripts == [of : Convs, turns : Nat, ts : Nat]

ASSUME LayoutsAssumption ==
    /\ IsFiniteSet(Convs)
    /\ {Foreign, NoText} \intersect Convs = {} /\ {Foreign, NoText} \intersect Transcripts = {}
    /\ NoKey \notin Nat \X Nat
    /\ Layouts \subseteq [named : [Convs -> Names], enough : [Convs -> Nat],
                         corpus : [Names -> Transcripts \union {Foreign, NoText}]]

VARIABLES
    turns,        \* messages of a conversation, 0 while it does not exist
    last_ts,      \* last_message_created_at
    rowid,
    named,        \* file name of a conversation, two may share one
    enough,       \* turns that render to min_chars; shorter texts are skipped
    corpus,       \* out_dir: per name a text, Foreign or NoText
    cursor,       \* watermark.json
    writer,       \* per export its step, its conversation and the text it writes
    batch,        \* what run_feed selected and has not looked at: [conv, key]
    passed,       \* max_cursor of the run
    broke,        \* an item of the run failed
    version,      \* exported_ts of export_one
    unowed,       \* history: what run_feed owes no file, see Owes
    feeds, upsets, renumbered

archive == <<turns, last_ts, rowid>>
layout == <<named, enough>>
feedVars == <<archive, layout, corpus, cursor, writer, batch, passed, broke, version,
              unowed, feeds, upsets, renumbered>>

Numberings == {r \in [Convs -> Names] : \A c, d \in Convs : r[c] = r[d] => c = d}

Idle == [at |-> "off", conv |-> NoText, text |-> NoText]

Key(c) == <<last_ts[c], rowid[c]>>

After(k, l) == l = NoKey \/ k[1] > l[1] \/ (k[1] = l[1] /\ k[2] > l[2])

Render(c) == [of |-> c, turns |-> turns[c], ts |-> last_ts[c]]

\* The file name: a date, the agent and the digest of the identity.
transcript_filename(c) == named[c]

Upset == upsets < FeedFaults /\ upsets' = upsets + 1

\* Behind every key that the cursor may come to hold in this run.
Beyond(k) == \A l \in {i.key : i \in batch} \union {cursor, passed} : After(k, l)

\* What changes of the debt when the key of c becomes k.
Owes(c, k) == IF Beyond(k) THEN unowed \ {c} ELSE unowed \union {c}

-----------------------------------------------------------------------------
FeedInit ==
    /\ turns = [c \in Convs |-> 0]
    /\ last_ts = [c \in Convs |-> 0]
    /\ rowid \in Numberings
    /\ \E l \in Layouts : named = l.named /\ enough = l.enough /\ corpus = l.corpus
    /\ cursor = NoKey
    /\ writer = [p \in {"feed", "one"} |-> Idle]
    /\ batch = {} /\ passed = NoKey /\ broke = FALSE /\ version = 0
    /\ unowed = {}
    /\ feeds = 0 /\ upsets = 0 /\ renumbered = 0

\* The archive takes in a message of c, of any time up to now.
Grow(c) ==
    /\ turns[c] < FeedTurns
    /\ turns' = [turns EXCEPT ![c] = @ + 1]
    /\ \E t \in last_ts[c]..FeedTimes :
         /\ t > 0
         /\ last_ts' = [last_ts EXCEPT ![c] = t]
         /\ unowed' = Owes(c, <<t, rowid[c]>>)
    /\ UNCHANGED <<rowid, layout, corpus, cursor, writer, batch, passed, broke, version,
                   feeds, upsets, renumbered>>

\* The archive is rebuilt from the sources between two runs: new rowids.
Rebuild ==
    /\ renumbered < Rebuilds /\ renumbered' = renumbered + 1
    /\ \A p \in DOMAIN writer : writer[p].at = "off"
    /\ rowid' \in Numberings \ {rowid}
    /\ unowed' = {c \in Convs : /\ cursor # NoKey
                                /\ ~After(<<last_ts[c], rowid'[c]>>, cursor)
                                /\ After(Key(c), cursor) \/ c \in unowed}
    /\ UNCHANGED <<turns, last_ts, layout, corpus, cursor, writer, batch, passed, broke,
                   version, feeds, upsets>>

-----------------------------------------------------------------------------
(* run_feed and export *)

\* The first FeedCap conversations after the cursor l, in the order of their keys.
select_conversations(l) ==
    LET items == {[conv |-> c, key |-> Key(c)] :
                    c \in {d \in Convs : turns[d] >= MinTurns /\ After(Key(d), l)}}
    IN  {i \in items : Cardinality({j \in items : After(i.key, j.key)}) < FeedCap}

\* They are looked at in that order.
First(items) == CHOOSE i \in items : \A j \in items : ~After(i.key, j.key)

Stands(p, s) == writer[p].at = s
Goes(p, s) == writer' = [writer EXCEPT ![p].at = s]

\* The first run only puts the cursor at the newest conversation.
Seed ==
    /\ Stands("feed", "off") /\ cursor = NoKey
    /\ \E c \in Convs : /\ turns[c] > 0
                        /\ \A d \in Convs : turns[d] > 0 => ~After(Key(d), Key(c))
                        /\ cursor' = Key(c)
    /\ unowed' = {c \in Convs : turns[c] > 0}
    /\ UNCHANGED <<archive, layout, corpus, writer, batch, passed, broke, version,
                   feeds, upsets, renumbered>>

FeedStart(backfill) ==
    /\ Stands("feed", "off") /\ (backfill \/ cursor # NoKey)
    /\ feeds < FeedRuns /\ feeds' = feeds + 1
    /\ batch' = select_conversations(IF backfill THEN NoKey ELSE cursor)
    /\ passed' = NoKey /\ broke' = FALSE
    /\ Goes("feed", "pick")
    /\ UNCHANGED <<archive, layout, corpus, cursor, version, unowed, upsets, renumbered>>

\* The item is done: max_cursor moves as long as none has failed.
Advance_AfterErrors(ok) ==
    /\ batch' = batch \ {First(batch)}
    /\ broke' = (broke \/ ~ok)
    /\ passed' = IF ok THEN First(batch).key ELSE passed

Advance(ok) ==
    /\ batch' = batch \ {First(batch)}
    /\ broke' = (broke \/ ~ok)
    /\ passed' = IF ok /\ ~broke THEN First(batch).key ELSE passed

\* The conversation has been written, skipped, or has failed.
Settle(p, ok) ==
    \/ p = "feed" /\ Advance(ok) /\ writer' = [writer EXCEPT ![p] = [Idle EXCEPT !.at = "pick"]]
    \/ p = "one" /\ writer' = [writer EXCEPT ![p] = Idle] /\ UNCHANGED <<batch, passed, broke>>

\* The messages of the item as they are now; too short a text is passed over.
FeedRead ==
    /\ Stands("feed", "pick") /\ batch # {}
    /\ LET c == First(batch).conv IN
         IF turns[c] < enough[c] THEN Settle("feed", TRUE)
         ELSE /\ writer' = [writer EXCEPT !["feed"] = [at |-> "link", conv |-> c, text |-> Render(c)]]
              /\ UNCHANGED <<batch, passed, broke>>
    /\ UNCHANGED <<archive, layout, corpus, cursor, version, unowed, feeds, upsets, renumbered>>

FeedEnd ==
    /\ Stands("feed", "pick") /\ batch = {}
    /\ cursor' = IF passed # NoKey THEN passed ELSE cursor
    /\ passed' = NoKey /\ broke' = FALSE
    /\ Goes("feed", "off")
    /\ UNCHANGED <<archive, layout, corpus, batch, version, unowed, feeds, upsets, renumbered>>

-----------------------------------------------------------------------------
(* export_one: the version is read before the messages *)

OneStart(c) ==
    /\ Stands("one", "off") /\ turns[c] > 0
    /\ feeds < FeedRuns /\ feeds' = feeds + 1
    /\ version' = last_ts[c]
    /\ writer' = [writer EXCEPT !["one"] = [at |-> "pick", conv |-> c, text |-> NoText]]
    /\ UNCHANGED <<archive, layout, corpus, cursor, batch, passed, broke, unowed, upsets, renumbered>>

OneRead ==
    /\ Stands("one", "pick")
    /\ LET c == writer["one"].conv IN
         writer' = [writer EXCEPT !["one"] =
                      IF turns[c] < enough[c] THEN Idle
                      ELSE [at |-> "link", conv |-> c, text |-> Render(c)]]
    /\ UNCHANGED <<archive, layout, corpus, cursor, batch, passed, broke, version, unowed,
                   feeds, upsets, renumbered>>

-----------------------------------------------------------------------------
(* _write_transcript, by either export *)

Target(p) == transcript_filename(writer[p].conv)

\* Whose file is under the name.
_identity_of_file(n) == IF corpus[n] \in {Foreign, NoText} THEN corpus[n] ELSE corpus[n].of

\* A conversation that export_one wrote is its caller's to follow from then on.
Write(p) ==
    /\ corpus' = [corpus EXCEPT ![Target(p)] = writer[p].text]
    /\ unowed' = IF p = "one" THEN unowed \union {writer[p].conv} ELSE unowed
    /\ Settle(p, TRUE)

Link(p) ==
    /\ Stands(p, "link")
    /\ \/ corpus[Target(p)] = NoText /\ Write(p)
       \/ /\ corpus[Target(p)] # NoText /\ Goes(p, "guard")
          /\ UNCHANGED <<corpus, unowed, batch, passed, broke>>
    /\ UNCHANGED <<archive, layout, cursor, version, feeds, upsets, renumbered>>

_guard_write_target_Transcript(p) == corpus[Target(p)] # Foreign

_guard_write_target(p) == _identity_of_file(Target(p)) = writer[p].conv

Guard(p) ==
    /\ Stands(p, "guard")
    /\ \/ _guard_write_target(p) /\ Goes(p, "replace") /\ UNCHANGED <<batch, passed, broke>>
       \/ ~_guard_write_target(p) /\ Settle(p, FALSE)
    /\ UNCHANGED <<archive, layout, corpus, cursor, version, unowed, feeds, upsets, renumbered>>

Replace(p) ==
    /\ Stands(p, "replace") /\ Write(p)
    /\ UNCHANGED <<archive, layout, cursor, version, feeds, upsets, renumbered>>

\* A read or a write raises: the item failed, the run goes on.
Fails(p) ==
    /\ Upset
    /\ ~Stands(p, "off") /\ (Stands("feed", "pick") => p = "one" \/ batch # {})
    /\ Settle(p, FALSE)
    /\ UNCHANGED <<archive, layout, corpus, cursor, version, unowed, feeds, renumbered>>

KillExport(p) ==
    /\ Upset
    /\ ~Stands(p, "off")
    /\ writer' = [writer EXCEPT ![p] = Idle]
    /\ IF p = "feed" THEN batch' = {} /\ passed' = NoKey /\ broke' = FALSE
       ELSE UNCHANGED <<batch, passed, broke>>
    /\ UNCHANGED <<archive, layout, corpus, cursor, version, unowed, feeds, renumbered>>

FeedNext ==
    \/ Rebuild \/ Seed \/ FeedRead \/ FeedEnd \/ OneRead
    \/ \E backfill \in BOOLEAN : FeedStart(backfill)
    \/ \E c \in Convs : Grow(c) \/ OneStart(c)
    \/ \E p \in {"feed", "one"} : Link(p) \/ Guard(p) \/ Replace(p) \/ Fails(p) \/ KillExport(p)

FeedSpec == FeedInit /\ [][FeedNext]_feedVars

-----------------------------------------------------------------------------
\* Nothing is passed over: a conversation at or behind the cursor that run_feed
\* owes a file has its newest text on disk, whatever failed, was killed, grew
\* or was exported by hand in between (export.py: the error-free prefix).
NothingIsPassedOver ==
    \A c \in Convs :
        /\ cursor # NoKey /\ c \notin unowed
        /\ turns[c] >= enough[c] /\ turns[c] >= MinTurns /\ ~After(Key(c), cursor)
        => corpus[transcript_filename(c)] = Render(c)

\* A file never changes hands: what is under a name stays that conversation's,
\* or foreign, also when two conversations have one name and two exports write
\* at once (export.py: _write_transcript).
NoFileChangesHands ==
    [][\A n \in Names : corpus[n] # NoText => _identity_of_file(n)' = _identity_of_file(n)]_corpus
=============================================================================
