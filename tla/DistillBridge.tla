-------------------------- MODULE DistillBridge --------------------------
(***************************************************************************)
(* The distillation bridge (distill/): a batch, run now and then under a   *)
(* lease, reads new messages of the CASS archive as spans, has a model     *)
(* distil each span into facts, and writes every fact as a timeline entry  *)
(* of a page of gbrain.  Its own state is an SQLite database: a cursor per *)
(* source, the spans (raw_work_item), the facts (journal) and the sources  *)
(* of unknown agents, which wait for a release.  Operators release sources *)
(* and replay what was quarantined, at any moment.                         *)
(*                                                                         *)
(* A fact is named by the message it refers to; a conversation by the      *)
(* agent and the workspace it is of.                                       *)
(***************************************************************************)
EXTENDS Naturals, FiniteSets, FiniteSetsExt

CONSTANTS Bridge,        \* processes that may run a batch
          Agent, Known,  \* all agents, those of KNOWN_SOURCES
          Ws, NoWs,      \* workspaces, and the absent one (the empty string)
          N, From,       \* messages 1..N of the archive, the conversation of each
          Page, PageOf,  \* pages, the page of the fact of a message
          Limit, Cap, Cost, MaxEntities,   \* messages per read, tokens per batch,
                                           \* tokens of a span, entries per batch
          MaxFaults, MaxReplays,           \* bounds
          None

Msg    == 1..N
Source == [agent : Agent, ws : Ws \cup {NoWs}]
Span   == {s \in [conv : Source, lo : Msg, hi : Msg] :
             s.lo <= s.hi /\ From[s.lo] = s.conv /\ From[s.hi] = s.conv}

ASSUME DistillAssumption ==
  /\ Known \subseteq Agent /\ NoWs \notin Ws /\ N \in Nat
  /\ From \in [Msg -> Source] /\ PageOf \in [Msg -> Page]
  /\ Limit \in Nat \ {0} /\ Cap \in Nat \ {0} /\ Cost \subseteq Nat
  /\ MaxEntities \in Nat \ {0} /\ MaxFaults \in Nat /\ MaxReplays \in Nat
  /\ None \notin Bridge /\ None \notin Msg

VARIABLES arrived,   \* the archive holds the messages 1..arrived
          sources,   \* source_quarantine, by agent and workspace
          cursor,    \* the last message read, by agent and workspace filter
          raw,       \* raw_work_item
          journal,   \* journal, by message
          lease,     \* the holder of the flock
          batch,     \* how far each process is
          pages,     \* gbrain: pages
          timeline,  \* gbrain: how many entries carry the key of a fact
          late,      \* gbrain: how many were sent and given up, and are under way
          faults, replays,
          blind      \* history: how often the bridge took an entry on its way
                     \* or on the page for missing

vars == <<arrived, sources, cursor, raw, journal, lease, batch, pages,
          timeline, late, faults, replays, blind>>
remote == <<pages, timeline, late, blind>>
bounds == <<faults, replays>>

Idle == [pc |-> "idle", todo |-> {}, used |-> 0, row |-> None]
At(pc, todo) == [pc |-> pc, todo |-> todo, used |-> 0, row |-> None]
Stages == {"idle", "reset", "discover", "read", "distill", "reconcile",
           "probe", "put", "add", "mark"}

TypeOK ==
  /\ arrived \in 0..N
  /\ sources \in [Source -> {"unseen", "quarantined", "released"}]
  /\ cursor \in [Source -> 0..N]
  /\ raw \in [Span -> {"none", "new", "raw_deferred", "raw_quarantined", "distilled"}]
  /\ journal \in [Msg -> {"none", "pending", "deferred", "quarantined", "done"}]
  /\ lease \in Bridge \cup {None}
  /\ \A b \in Bridge :
       /\ batch[b].pc \in Stages /\ (batch[b].pc # "idle" <=> lease = b)
       /\ batch[b].pc \in {"probe", "put", "add", "mark"} <=> batch[b].row \in Msg
  /\ pages \subseteq Page /\ timeline \in [Msg -> Nat] /\ late \in [Msg -> Nat]
  /\ faults \in 0..MaxFaults /\ replays \in 0..MaxReplays /\ blind \in [Msg -> Nat]

Init ==
  /\ arrived = 0
  /\ sources = [c \in Source |-> "unseen"]
  /\ cursor = [f \in Source |-> 0]
  /\ raw = [s \in Span |-> "none"] /\ journal = [k \in Msg |-> "none"]
  /\ lease = None /\ batch = [b \in Bridge |-> Idle]
  /\ pages = {} /\ timeline = [k \in Msg |-> 0] /\ late = [k \in Msg |-> 0]
  /\ faults = 0 /\ replays = 0 /\ blind = [k \in Msg |-> 0]

Fault == faults < MaxFaults /\ faults' = faults + 1

-----------------------------------------------------------------------------
(* The world.                                                                *)

Arrive ==
  /\ arrived < N /\ arrived' = arrived + 1
  /\ UNCHANGED <<sources, cursor, raw, journal, lease, batch, remote, bounds>>

\* An entry that was sent, and whose answer nobody waits for any more, lands.
Land(k) ==
  /\ late[k] > 0
  /\ late' = [late EXCEPT ![k] = @ - 1] /\ timeline' = [timeline EXCEPT ![k] = @ + 1]
  /\ UNCHANGED <<arrived, sources, cursor, raw, journal, lease, batch, pages, bounds, blind>>

\* An operator lets the sessions of an unknown agent in one workspace through.
Release(c) ==
  /\ sources[c] = "quarantined"
  /\ sources' = [sources EXCEPT ![c] = "released"]
  /\ UNCHANGED <<arrived, cursor, raw, journal, lease, batch, remote, bounds>>

replay_raw(s) ==
  /\ raw[s] = "raw_quarantined" /\ replays < MaxReplays
  /\ raw' = [raw EXCEPT ![s] = "new"] /\ replays' = replays + 1
  /\ UNCHANGED <<arrived, sources, cursor, journal, lease, batch, remote, faults>>

replay_journal_Any(k) ==   \* faulty variant: whatever the row's status
  /\ journal[k] # "none" /\ replays < MaxReplays
  /\ journal' = [journal EXCEPT ![k] = "pending"] /\ replays' = replays + 1
  /\ UNCHANGED <<arrived, sources, cursor, raw, lease, batch, remote, faults>>

replay_journal(k) ==
  /\ journal[k] = "quarantined" /\ replays < MaxReplays
  /\ journal' = [journal EXCEPT ![k] = "pending"] /\ replays' = replays + 1
  /\ UNCHANGED <<arrived, sources, cursor, raw, lease, batch, remote, faults>>

\* The batch dies: a kill, or an exception that nothing catches.  The kernel
\* drops the lease; an entry that was just being sent may still land.
Crash(b) ==
  /\ Fault /\ batch[b].pc # "idle"
  /\ lease' = IF lease = b THEN None ELSE lease
  /\ batch' = [batch EXCEPT ![b] = Idle]
  /\ \/ late' = late
     \/ batch[b].pc = "add" /\ late' = [late EXCEPT ![batch[b].row] = @ + 1]
  /\ UNCHANGED <<arrived, sources, cursor, raw, journal, pages, timeline, blind, replays>>

-----------------------------------------------------------------------------
(* A batch: the lease, the deferred ones back, the sources, their spans.     *)

Begin_NoLease(b) ==   \* faulty variant: two batches at a time
  /\ batch[b].pc = "idle"
  /\ lease' = b /\ batch' = [batch EXCEPT ![b] = At("reset", {})]
  /\ UNCHANGED <<arrived, sources, cursor, raw, journal, remote, bounds>>

\* flock_lease: who does not get it leaves.
Begin(b) ==
  /\ batch[b].pc = "idle" /\ lease = None
  /\ lease' = b /\ batch' = [batch EXCEPT ![b] = At("reset", {})]
  /\ UNCHANGED <<arrived, sources, cursor, raw, journal, remote, bounds>>

reset_deferred_Spans(b) ==   \* faulty variant: forgets the journal
  /\ batch[b].pc = "reset"
  /\ raw' = [s \in Span |-> IF raw[s] = "raw_deferred" THEN "new" ELSE raw[s]]
  /\ batch' = [batch EXCEPT ![b] = At("discover", {})]
  /\ UNCHANGED <<arrived, sources, cursor, journal, lease, remote, bounds>>

reset_deferred(b) ==
  /\ batch[b].pc = "reset"
  /\ raw' = [s \in Span |-> IF raw[s] = "raw_deferred" THEN "new" ELSE raw[s]]
  /\ journal' = [k \in Msg |-> IF journal[k] = "deferred" THEN "pending" ELSE journal[k]]
  /\ batch' = [batch EXCEPT ![b] = At("discover", {})]
  /\ UNCHANGED <<arrived, sources, cursor, lease, remote, bounds>>

\* What the archive shows, and the filters to read by: a known agent in all
\* its workspaces, an unknown one in those that are released.  An absent
\* workspace and "all workspaces" are the same filter, NoWs.
Seen == {From[m] : m \in 1..arrived}
Filters ==
  {[agent |-> c.agent, ws |-> NoWs] : c \in {d \in Seen : d.agent \in Known}}
    \cup {c \in Seen : c.agent \notin Known /\ sources[c] = "released"}

Listed ==
  [c \in Source |-> IF c \in Seen /\ c.agent \notin Known /\ sources[c] = "unseen"
                    THEN "quarantined" ELSE sources[c]]

\* Reading a whole agent, its cursors by workspace are deleted.
Cleared ==
  [f \in Source |-> IF f.ws # NoWs /\ [f EXCEPT !.ws = NoWs] \in Filters
                    THEN 0 ELSE cursor[f]]

discover_sources_All(b) ==   \* faulty variant: the unknown ones at once
  /\ batch[b].pc = "discover"
  /\ sources' = Listed /\ cursor' = Cleared
  /\ batch' = [batch EXCEPT ![b] = At("read", Filters \cup {c \in Seen : c.agent \notin Known})]
  /\ UNCHANGED <<arrived, raw, journal, lease, remote, bounds>>

discover_sources(b) ==
  /\ batch[b].pc = "discover"
  /\ sources' = Listed /\ cursor' = Cleared
  /\ batch' = [batch EXCEPT ![b] = At("read", Filters)]
  /\ UNCHANGED <<arrived, raw, journal, lease, remote, bounds>>

Matches(m, f) == From[m].agent = f.agent /\ f.ws \in {NoWs, From[m].ws}

\* The next messages of a source, at most Limit, lowest first.
Next_messages(f) ==
  LET new == {m \in 1..arrived : m > cursor[f] /\ Matches(m, f)} IN
    {m \in new : Cardinality({n \in new : n < m}) < Limit}

SpansOf(ms) ==
  {[conv |-> c, lo |-> Min({m \in ms : From[m] = c}), hi |-> Max({m \in ms : From[m] = c})] :
     c \in {From[m] : m \in ms}}

Inserted(spans) == [s \in Span |-> IF s \in spans /\ raw[s] = "none" THEN "new" ELSE raw[s]]

read_spans_CursorFirst(b, f) ==   \* faulty variant: two transactions, and a crash between
  /\ batch[b].pc = "read" /\ f \in batch[b].todo
  /\ LET ms == Next_messages(f) IN
       IF ms = {} THEN UNCHANGED <<raw, cursor, batch, lease>>
       ELSE /\ cursor' = [cursor EXCEPT ![f] = Max(ms)]
            /\ \/ /\ raw' = Inserted(SpansOf(ms)) /\ UNCHANGED lease
                  /\ batch' = [batch EXCEPT ![b].todo = @ \ {f}]
               \/ /\ raw' = raw /\ lease' = None
                  /\ batch' = [batch EXCEPT ![b] = Idle]
  /\ UNCHANGED <<arrived, sources, journal, remote, bounds>>

\* The spans and the cursor, in one transaction.
read_spans(b, f) ==
  /\ batch[b].pc = "read" /\ f \in batch[b].todo
  /\ LET ms == Next_messages(f) IN
       IF ms = {} THEN UNCHANGED <<raw, cursor>>
       ELSE raw' = Inserted(SpansOf(ms)) /\ cursor' = [cursor EXCEPT ![f] = Max(ms)]
  /\ batch' = [batch EXCEPT ![b].todo = @ \ {f}]
  /\ UNCHANGED <<arrived, sources, journal, lease, remote, bounds>>

EndOfRead(b) ==
  /\ batch[b].pc = "read" /\ batch[b].todo = {}
  /\ batch' = [batch EXCEPT ![b] = At("distill", {s \in Span : raw[s] = "new"})]
  /\ UNCHANGED <<arrived, sources, cursor, raw, journal, lease, remote, bounds>>

-----------------------------------------------------------------------------
(* Distilling the spans of the list, within the token budget.                *)

MessagesOf(s) == {m \in s.lo .. s.hi : From[m] = s.conv}

\* One span is done with; `used` tokens so far.
Spent(b, s, status, used) ==
  /\ batch[b].pc = "distill" /\ s \in batch[b].todo
  /\ raw' = [raw EXCEPT ![s] = status]
  /\ batch' = [batch EXCEPT ![b].todo = @ \ {s}, ![b].used = used]
  /\ UNCHANGED <<arrived, sources, cursor, lease, remote, replays>>

\* The first span of a batch is read whatever it costs.
TooMuch(used, cost) == used >= Cap \/ (used # 0 /\ used + cost > Cap)

Defer(b, s, cost) ==
  /\ TooMuch(batch[b].used, cost) /\ Spent(b, s, "raw_deferred", batch[b].used)
  /\ UNCHANGED <<journal, faults>>

\* Nothing but noise: it costs nothing.
Noise(b, s) ==
  /\ batch[b].used < Cap /\ Spent(b, s, "distilled", batch[b].used)
  /\ UNCHANGED <<journal, faults>>

\* commit_distilled: the facts and the span's status in one transaction.
commit_distilled(b, s, cost) ==
  /\ ~TooMuch(batch[b].used, cost) /\ raw[s] = "new"
  /\ Spent(b, s, "distilled", batch[b].used + cost)
  /\ \E facts \in SUBSET MessagesOf(s) :
       journal' = [k \in Msg |-> IF k \in facts /\ journal[k] = "none" THEN "pending" ELSE journal[k]]
  /\ UNCHANGED faults

\* The model failed, every retry.
Undistilled(b, s, cost) ==
  /\ ~TooMuch(batch[b].used, cost) /\ Fault
  /\ Spent(b, s, "raw_quarantined", batch[b].used + cost)
  /\ UNCHANGED journal

EndOfDistill(b) ==
  /\ batch[b].pc = "distill" /\ batch[b].todo = {}
  /\ batch' = [batch EXCEPT ![b] = At("reconcile", {k \in Msg : journal[k] = "pending"})]
  /\ UNCHANGED <<arrived, sources, cursor, raw, journal, lease, remote, bounds>>

-----------------------------------------------------------------------------
(* reconcile_pending: each fact of the list, within the entity budget.       *)

\* The status of a journal row is changed only while it is pending.
Marked(k, status) == [journal EXCEPT ![k] = IF @ = "pending" THEN status ELSE @]

\* The row is done with, and the batch takes the next.
Next_row(b, k, used) ==
  batch' = [batch EXCEPT ![b] = [pc |-> "reconcile", todo |-> @.todo \ {k}, used |-> used, row |-> None]]

\* timeline_has_key finds the entry: it was written before a crash.
Found(b, k) ==
  /\ batch[b].pc = "reconcile" /\ k \in batch[b].todo /\ timeline[k] > 0
  /\ journal' = Marked(k, "done") /\ Next_row(b, k, batch[b].used)
  /\ UNCHANGED <<arrived, sources, cursor, raw, lease, remote, bounds>>

\* It does not, or the timeline cannot be read, which it takes for the same:
\* past the budget the row waits for the next batch.
Missing(b, k) ==
  /\ batch[b].pc = "reconcile" /\ k \in batch[b].todo
  /\ \/ timeline[k] = 0 /\ UNCHANGED faults
     \/ timeline[k] > 0 /\ Fault
  /\ IF batch[b].used >= MaxEntities
     THEN journal' = Marked(k, "deferred") /\ Next_row(b, k, batch[b].used) /\ UNCHANGED blind
     ELSE /\ batch' = [batch EXCEPT ![b].pc = "probe", ![b].row = k]
          /\ blind' = [blind EXCEPT ![k] = IF timeline[k] > 0 \/ late[k] > 0 THEN @ + 1 ELSE @]
          /\ UNCHANGED journal
  /\ UNCHANGED <<arrived, sources, cursor, raw, lease, pages, timeline, late, replays>>

\* write_entry, before it writes: the search and get_page.
Probe(b) ==
  /\ batch[b].pc = "probe"
  /\ batch' = [batch EXCEPT ![b].pc = IF PageOf[batch[b].row] \in pages THEN "add" ELSE "put"]
  /\ UNCHANGED <<arrived, sources, cursor, raw, journal, lease, remote, bounds>>

\* PreWriteError: nothing was written, the row stays pending.
ProbeFails(b) ==
  /\ batch[b].pc = "probe" /\ Fault /\ Next_row(b, batch[b].row, batch[b].used)
  /\ UNCHANGED <<arrived, sources, cursor, raw, journal, lease, remote, replays>>

\* The name is found on another page too: a person has to look at it.
Ambiguous(b) ==
  /\ batch[b].pc = "probe" /\ Fault
  /\ journal' = Marked(batch[b].row, "quarantined") /\ Next_row(b, batch[b].row, batch[b].used)
  /\ UNCHANGED <<arrived, sources, cursor, raw, lease, remote, replays>>

put_page(b) ==
  /\ batch[b].pc = "put"
  /\ pages' = pages \cup {PageOf[batch[b].row]}
  /\ batch' = [batch EXCEPT ![b].pc = "add"]
  /\ UNCHANGED <<arrived, sources, cursor, raw, journal, lease, timeline, late, blind, bounds>>

add_timeline_entry(b) ==
  /\ batch[b].pc = "add"
  /\ timeline' = [timeline EXCEPT ![batch[b].row] = @ + 1]
  /\ batch' = [batch EXCEPT ![b].pc = "mark"]
  /\ UNCHANGED <<arrived, sources, cursor, raw, journal, lease, pages, late, blind, bounds>>

\* A write is answered by an error, or not in time: it was carried out, or was
\* not, or will be.
WriteFails(b) ==
  /\ Fault
  /\ LET k == batch[b].row IN
       /\ \/ batch[b].pc = "put" /\ UNCHANGED <<timeline, late>> /\ pages' \in {pages, pages \cup {PageOf[k]}}
          \/ batch[b].pc = "add" /\ UNCHANGED <<timeline, late, pages>>
          \/ batch[b].pc = "add" /\ timeline' = [timeline EXCEPT ![k] = @ + 1] /\ UNCHANGED <<late, pages>>
          \/ batch[b].pc = "add" /\ late' = [late EXCEPT ![k] = @ + 1] /\ UNCHANGED <<timeline, pages>>
       /\ journal' = Marked(k, "quarantined") /\ Next_row(b, k, batch[b].used)
  /\ UNCHANGED <<arrived, sources, cursor, raw, lease, blind, replays>>

\* The journal, after the entry.
Mark(b) ==
  /\ batch[b].pc = "mark"
  /\ journal' = Marked(batch[b].row, "done") /\ Next_row(b, batch[b].row, batch[b].used + 1)
  /\ UNCHANGED <<arrived, sources, cursor, raw, lease, remote, bounds>>

End(b) ==
  /\ batch[b].pc = "reconcile" /\ batch[b].todo = {}
  /\ batch' = [batch EXCEPT ![b] = Idle] /\ lease' = None
  /\ UNCHANGED <<arrived, sources, cursor, raw, journal, remote, bounds>>

-----------------------------------------------------------------------------
\* The bridge at work, whatever comes of it.
Reading(b) == reset_deferred(b) \/ discover_sources(b) \/ EndOfRead(b) \/ \E f \in Source : read_spans(b, f)
Distilling(b) ==
  \/ EndOfDistill(b)
  \/ \E s \in Span : Noise(b, s) \/ \E c \in Cost : Defer(b, s, c) \/ commit_distilled(b, s, c) \/ Undistilled(b, s, c)
Writing(b) ==
  \/ Probe(b) \/ ProbeFails(b) \/ Ambiguous(b) \/ put_page(b) \/ add_timeline_entry(b)
  \/ WriteFails(b) \/ Mark(b) \/ End(b)
  \/ \E k \in Msg : Found(b, k) \/ Missing(b, k)

Operator == (\E c \in Source : Release(c)) \/ (\E s \in Span : replay_raw(s)) \/ (\E k \in Msg : replay_journal(k))

Next ==
  \/ Arrive \/ Operator
  \/ \E k \in Msg : Land(k)
  \/ \E b \in Bridge : Begin(b) \/ Reading(b) \/ Distilling(b) \/ Writing(b) \/ Crash(b)

Spec == Init /\ [][Next]_vars

\* A timer starts batches again and again, and a batch that runs goes on.
\* Messages, operators, faults and late entries owe nothing.
Fairness == \A b \in Bridge : WF_vars(Begin(b) \/ Reading(b) \/ Distilling(b) \/ Writing(b))

FairSpec == Spec /\ Fairness

-----------------------------------------------------------------------------
(* Properties.                                                               *)

Covered(m) == \E s \in Span : raw[s] # "none" /\ m \in MessagesOf(s)

\* No message is lost: what a cursor has passed has its span on file, across
\* every crash (read_spans).
NothingSkipped == \A f \in Source, m \in Msg : m <= cursor[f] /\ Matches(m, f) => Covered(m)

\* A fact that is done is on its page: never taken for written because a read
\* failed or a write was not answered (reconcile_pending, write_entry).
DoneIsWritten == \A k \in Msg : journal[k] = "done" => timeline[k] > 0

\* No entry is written twice, however batches crash, answers are lost and rows
\* are replayed, but for the times the timeline could not be read, or did not
\* show an entry still under way (reconcile.py, "zero duplicates").
WrittenOnce == \A k \in Msg : timeline[k] + late[k] <= 1 + blind[k]

\* The journal and the pages agree, with both: neither a fact lost behind a row
\* that says done nor one written again behind a row that does not.
WrittenAsRecorded == DoneIsWritten /\ WrittenOnce

\* A release lets a source through; the absent workspace of an agent stands for
\* all of them.
LetThrough(c) == c.agent \in Known \/ sources[c] = "released"
AllOf(c) == [c EXCEPT !.ws = NoWs]

\* Sessions of an unknown agent are read only after a release of their own
\* workspace, or of the agent's sessions that name none: the filter of those, the
\* empty string, matches every workspace (discover_sources, _READ_SQL).
ReadAsReleased ==
  \A s \in Span : raw[s] # "none" => LetThrough(s.conv) \/ LetThrough(AllOf(s.conv))

\* What the comment in discover_sources says: a release lets its own combination
\* of agent and workspace through, and does not spill to other workspaces.
QuarantineHolds == \A s \in Span : raw[s] # "none" => LetThrough(s.conv)

\* What is done stays done, a fact or span on file stays on file, and leaves
\* quarantine only for another try (the guards on status of every update).
Kept ==
  /\ \A k \in Msg : /\ journal[k] = "done" => journal'[k] = "done"
                    /\ journal[k] # "none" => journal'[k] # "none"
                    /\ journal[k] = "quarantined" => journal'[k] \in {"quarantined", "pending"}
  /\ \A s \in Span : raw[s] # "none" => raw'[s] # "none"

NothingIsForgotten == [][Kept]_vars

\* Every fact is written in the end, or set aside for a person: the entity
\* budget starves nobody (reset_deferred, reconcile_pending).
EveryFactSettles ==
  \A k \in Msg : journal[k] \in {"pending", "deferred"} ~> journal[k] \in {"done", "quarantined"}

\* Every message of a known agent, and of a source that is released, is read and
\* distilled in the end, or its span set aside: the token budget starves nobody,
\* also when a span is larger (run_batch).
EveryMessageSettles ==
  \A m \in Msg :
    (m <= arrived /\ (From[m].agent \in Known \/ sources[From[m]] = "released")) ~>
     \E s \in Span : m \in MessagesOf(s) /\ raw[s] \in {"distilled", "raw_quarantined"}

\* Facts and messages both: budgets, deferrals, replays and lost answers leave
\* nothing waiting for ever.
EverythingSettles == EveryFactSettles /\ EveryMessageSettles
==========================================================================
