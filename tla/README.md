# TLA+ models of the shared memory services

This directory holds TLA+ modules that model the stateful parts of the
repository, configurations that check them with TLC, and proofs that TLAPS
checks. Every definition is translated from the code; `PROJECT.json` maps it
to the lines it stands for.

## 1. The system

Agents' sessions are archived by CASS (an external program with an SQLite
archive). From the archive, one feed exports transcripts into a corpus, one
adapter feeds the EverOS memory service, and a distillation bridge writes facts
into gbrain (an external wiki with a timeline per page). Two MCP servers give
agents read access: `everos_mcp` (a search with a durable request ledger, scored
afterwards) and `cass_mcp` (a stateless wrapper). Shell scripts and Python
helpers back the archive up to a NAS, verify the chain of backups and restore it.

| Component | State | Operations | Interacts with | What is hard |
|---|---|---|---|---|
| **Request ledger** `everos_mcp/ledger.py` | three append-only streams (ops, accepted, scored), each with a queue and a writer thread; `aborts.log`; attempt counters | submit, submit_nowait, submit_scored, mark_abort, seal torn tails, effective_status | handlers, score worker, sweep, reports | receipts that time out while the row stays queued; failed flush and failed fsync; kill and power loss within a write; two streams with no common order |
| **Search handler** `everos_mcp/server.py` | per call | started, gate, upstream search, accepted, terminal, hand-over to scoring, answer | ledger, checkpoint, worker, blob store | each of up to three waits may time out; a failed started row ends the process |
| **Score worker and sweep** `everos_mcp/scorer.py` | a queue of 256, one worker thread, an hourly sweep over the files | enqueue, manual_rescore, _score_once, reconcile | ledger, model server (docker) | dropped hand-overs, stale reads of the sweep, permanent failure by count, callers without a timeout |
| **Pins and vector cache** `everos_mcp/scorer.py` | the pin bundle (marker, digest, artifact fingerprint), vectors on disk | collect, rebuild, attempt, cache get and put | model server | the container restarts between any two readings |
| **Checkpoint** `everos_mcp/checkpoint.py` | `meta.json`: launched_ts, due_since, reviews | init_or_load, state, record_review | handlers, watchdog, review command (another process) | read-change-rename by two processes; times read before the lock; clocks |
| **Watchdog** `server.py` | which components it restarted once | liveness, orphan count, checkpoint, disk usage | ledger, worker, checkpoint | its count of orphans is older than what it decides from it |
| **Blob store** `blobstore.py` | files named by the hash of their content | put, get | handlers, worker | kills between write, fsync and rename; concurrent puts |
| **Materialisation** `materialize.py` | none: reads all files | healthy, fold, joins | ledger | late and duplicate rows |
| **Distillation bridge** `distill/` | SQLite: cursor, raw work items, journal, quarantines | read spans, distil, reconcile, replay, reset | CASS archive, model, gbrain | a remote write and its journal entry are two steps; budgets; replay |
| **Corpus export** `cass_corpus/` | cursor file, transcripts | select after the cursor, write transcripts, advance | CASS archive, gbrain import | cursor over errors; check-then-replace; first run seeds |
| **EverOS adapter** `everos_adapter/` | none | batching, feed | EverOS | batch boundaries |
| **Archive backup** `infra/backup/backup-cass.sh`, `cass/` | NAS directories: `.incomplete-S`, `cass-S`, `RECOVERABLE-`, `INCOMPLETE-`, `SUSPECT-`; sessions mirror and its state table | stage, COMPLETE, publish, rotate, trap, verify chain, gate, weekly, restore | NAS, alerts | the script may die after any command; the next run judges what it finds |
| **cass_mcp**, hooks, evaluation, probes, scripts | none or offline files | read-only queries, statistics | | |

What makes each correct:

- Ledger and handler: what a client is told is what the files say, for ever: a
  result is on file when it is told, an error never turns into a result, a hit
  has its evidence, nothing without a started row. The call returns.
- Worker and sweep: every recorded hit ends with a healthy score or a permanent
  failure; none is given up before the threshold; attempt numbers grow.
- Pins and cache: the scores and the pins of a row come from one start of the
  container; cached vectors belong to the weights they are filed under.
- Checkpoint: nothing recorded is lost; a review made after the notice lifts the
  gate for good; no deadlock; the server accepts its own file.
- Blob store: a name shows its content or nothing.
- Bridge: no span is lost, no entry is written twice, quarantine is left only by
  replay. Corpus: no conversation is skipped. Backup: a complete backup is never
  deleted but by rotation, and the newest published one survives everything.

## 2. Modules

| Module | Models | Role |
|---|---|---|
| `SearchLedger` | ledger and handler together (they share the protocol) | detailed specification |
| `SearchOutcome` | what the ledger promises per request: an answer is the verdict of its moment and freezes it | abstract specification, refined by `SearchLedger` |
| `SearchLedgerInv` | the inductive invariant of `SearchLedger` | checked and proved |
| `SearchLedgerProofs` | theorems about `SearchLedger` | TLAPS |
| `NumberFacts` | least and greatest numbers, what CHOOSE picks, induction and recursion over the natural numbers | TLAPS |
| `ScorePins` | pins, markers, vector cache, attempts | |
| `ScorePinsProofs` | theorems about `ScorePins` | TLAPS |
| `ScoreQueue` | queue, worker, sweep, manual_rescore, scored stream | |
| `ScoreQueueProofs` | theorems about `ScoreQueue` | TLAPS |
| `PinFile` | the PIN file of EverOS behind its mtime cache, read by every request | |
| `BlobStore` | put step by step, several at once, with kills and power failures | |
| `LedgerView` | the join of all streams that materialize and the watchdog do | operators over rows that arrive in any order; the streaks are a recursive function of the row number |
| `Checkpoint` | meta.json, the two locks, all its callers | with its inductive invariant |
| `CheckpointProofs` | theorems about `Checkpoint` | TLAPS |
| `DistillBridge` | a batch of the bridge from lease to report, its database, gbrain, operators | |
| `DistillBridgeProofs` | theorems about `DistillBridge` | TLAPS |
| `CorpusFeed` | run_feed and export_one over the cursor, the transcripts and a growing, rebuilt archive | |
| `Pruner` | the clamping of long tool output, with the numbers of the code | pure operators |
| `EverosFeed` | the feed of one claimed session: staleness, strategy, batches, retries, card, status | |
| `CassChain` | verify_chain, rotation victims, the newest published backup | pure operators, used by `CassBackup` |
| `CassBackup` | the life of a backup directory, its traps, rotation, the next run's sweep | |
| `CassGate` | the five legs and the verdict over a database and a baseline | |
| `CassVault` | manifests, blob pool, doctor, publication checks, weekly run, restore | |
| `CassSessions` | the sessions pool and its table, gate and restore check | |
| `MirrorRestore` | the restore of session files from the raw mirror | |
| `ArchiveProofs` | theorems about `CassBackup` with `CassChain`, `CassGate`, `CassSessions`, `CassVault` | TLAPS |
| `StoreProofs` | theorems about `BlobStore`, `PinFile`, `MirrorRestore`, `CorpusFeed`, `LedgerView`, `EverosFeed`, `Pruner` | TLAPS |
| `MC*` | instances and symmetry for TLC; `MCServer`, `MCArchive` and `MCFiles` put several parts into one run | |

`SearchLedger` and `ScoreQueue` meet in one action: `ReplyError`/`Reply` decides
what is enqueued (`QueuedIsHit` on the one side), and `ScoreQueue` starts from
requests whose effective status is hit, the set that `effective_status` defines
in `SearchLedger`. `Checkpoint` is composed with the handler at one point only: a
search reaches `state()` after its started row is on file.

### Correspondence

*Streams* (`SearchLedger`). `log[s]` is every row ever submitted to a stream, in
queue order, and three marks on it say how far the writer has got: `taken`
(dequeued), `written` (in the file), `synced` (fsync'ed). A row whose flush
failed is between `written` and `taken`, in the file object's buffer, until the
next flush that succeeds. A kill keeps what is written and may tear the row
being written; power loss keeps at least what is synced. A restart seals a torn
segment (`Glue` is what would happen without). The receipt of a row is the
`ack` that `Flush`, `FlushFails`, `Fsync` and `FsyncFails` give to the handler
waiting for it; waiting ends by that receipt or by `TimedOut`, whichever comes
first. A handler is one program counter per request with the same stages as
`_handle_search`: started, (early returns), accepted, terminal, answer.
Upstream, contract and gate are a choice of the outcome they lead to.
`mark_abort` is one synchronous write which, with `AbortMayFail`, may fail and be
swallowed, as in the code.

*Scoring* (`ScoreQueue`). Queue items are request ids with their producer; the
worker takes one at a time; `_score_once` is a choice of ok, retryable error
(`Score`) or no row (`ScoreNothing`: nothing to score, or a stream that cannot be
read), its write goes through the scored writer (same marks as above) and the
worker waits for the receipt or the timeout. The sweep is `Scan` (its unlocked
reads, from which it decides to the end of its run), `Condemn` one request at a
time with the writer's answer awaited, and `Requeue`. Attempt numbers are the
writer's in-memory counters, restored by `Restart` from the file.

*Pins* (`ScorePins`). A start of the container has a number (the marker's
StartedAt) and the weights it loaded. Each marker reading, fingerprint,
embedding, cache access and reranking is its own step, and a restart may come
between any two. A vector or score is represented by the start, or the weights,
that produced it. An attempt may fail at any of its questions and where it writes
the cache, and leaves there what it has put away.

*Checkpoint*. Each of state(), record_review() and init_or_load() is: take the
time, take the lock(s), read the file, decide and rename. `now` is read where
the code reads it: by a handler when it holds `checkpoint_lock`, by the watchdog
at the head of its pass, by the review command before it asks for the flock. A
kill drops the locks of the process, as the kernel does.

*Bridge* (`DistillBridge`). A batch is one program counter through `run_batch`:
lease, reset_deferred, discover_sources, read_spans per source, the spans, the
journal rows. Every SQLite transaction is one action (a commit is atomic, a kill
falls between two), every call of gbrain one action of its own. A message has at
most one fact, which carries its name and therefore its idempotency key; what the
model finds in a span is any subset of its messages. `timeline` counts the
entries with the key of a fact, so a duplicate shows. A write that fails was
carried out, was not, or is still under way and may land at any later time, also in
another batch; `late` counts, per fact, the writes under way. A read of the timeline that fails looks as if the
entry were missing, as in `timeline_has_key`. `blind` is a history variable: how
often a batch decided to write although the entry was there or under way; nothing
reads it but `WrittenOnce`. The absent workspace is `NoWs`, which is also the
filter for all workspaces, as the empty string is in `_READ_SQL`. `ReadAsReleased` says
what a release lets through with that reading of it, `QuarantineHolds` what the code
says it lets through. Rows are taken
in any order, where the code has an ORDER BY or the order of the table.

*PIN file* (`PinFile`). read() is four steps: stat, the look at the cache, the
reading of the text, the assignment of the cache; any of them may be separated
from the next by a new PIN file or by another thread's read(). `held` is what the
file said during one read(). mtimes are assumed to grow and all fingerprints to be of
one size, so the mtime alone decides; a rewrite within one tick of the file
system's clock would be served stale.

*Blob store* (`BlobStore`). A name stands for its content. `blobs` is what reads
under a name now, `disk` what a power failure leaves of it at least. A put is:
temporary file, fsync, then the name is there and reads back (deduplicated) or
rename and fsync of the directory.

*View* (`LedgerView`). The rows are written in any order by `Ask`, `AnswerQuery`,
`AbortQuery`, `Score`; hits, healthy rows, folds, orphans, streaks and the gates are
operators over them, translated from `materialize` and from `_count_orphans`.
`once` is a history of who ever had a healthy row.

*Corpus* (`CorpusFeed`). A conversation is its number of turns and its newest
time; a text is the turns and the time it was rendered from. `select_conversations`
is the keyset query; a writer's link, its look at whose file is there, and its
replace are steps of their own, and run_feed and export_one take them at once. The
rows of a query are a set: their keys (time, id) differ, so the ORDER BY of the code
leaves one sequence, the one by keys, and LIMIT takes the `First` of them.
`Pruner` is arithmetic on lengths with the constants of the code: a line is its length
and where in it the error keywords begin, each within the line. A text is no longer
than SQLite's limit of 10^9 bytes, which bounds the digits of a marker, and a pruner
may rescue at least one line (`max_err_lines`, 10 wherever one is made). TLC takes
outputs of three lines of lengths from short to longer than the cap, the theorem any
number of lines.

*EverOS feed* (`EverosFeed`). A message is its role, its id, its time and whether its
content begins like that of a tool or a reasoning (`mark`), since the text strategy
tells orphans by that and an answer may begin so too; what the
role map, the text strategy and the batching make of the conversation are operators,
and a run is start, staleness check, batches with their attempts, flush, wait for
the card, status. The worker that claims sessions is external: it starts a run
again after every status that says so.

*Archive backup*. `CassBackup` keeps per run the directory with its name and what is
in it (payload whole, COMPLETE, digest), and steps through the script; a command
that fails, a kill and a termination may come at each step, and the exit trap acts on
the variables the script has set by then. `CassChain` is the verification as
operators over the retained set. `CassGate` judges one snapshot after another; a
snapshot says per table its rows, which readings raise and what the
integrity check prints. `CassVault` keeps of each published backup its manifests,
listing, sums and digest fields, with the content in place of a hash, and of the pool
whether each blob is intact. Any one copy of a night may go bad on its way to the NAS:
the database, a manifest, a line of the listing, db.sha256, census.tsv or a blob. The
sums that the digest takes from staging (database, census) and those it takes from the
copies (listing, sessions) are kept apart. `doctor` says what a doctor that reads some
of the manifests counts, `Told` all that one may be told, also of blobs nobody read. `CassSessions` keeps per file its content on the
source, in the pool and in the table, in blocks; rsync --append sends what lies
beyond the length of the pool's file. `sent` is a history: the files rsync sent
since the last publication, also in runs that were refused. A file published and
not sent since must be in the next publication (`PublishedIsContinued`); one that
was sent may have lost its record with the run that sent it, and is judged anew.
The victims of a rotation are a set in `CassBackup`, taken oldest first: generations
differ, so the order of the code's list is the order of the generations. What one of the four sees of another is a
choice: whether the gate passes, in `CassBackup`, is any outcome.
`Spec` of `CassBackup` assumes that a digest the gate could read can be read again when
step 14c of the same run asks for the newest; `FlakySpec` adds the step where it cannot (section 3).

*Mirror* (`MirrorRestore`). A capture is a manifest with its time, its size and
whether it can be used, and a blob that may be lost or rotten; its path is under
the home, or is not and has no target. A run clears staging or refuses one that
holds something, copies the winners one by one, writes the `sources.toml` of
staging from the one production has at that moment, and gives its marker. That one may
be missing, hold a nested table, or have as its `paths` a list or a text, with entries
under the home, elsewhere, or the home itself, which has no slash to be found by. Quoting in TOML is
left out: the tool parses what it wrote and compares.

## 3. Runs

Each hazard is an order of a few steps of two or three actors. The bounds are the least at which the
order occurs; that they suffice is shown by the mutants, one per property, each
a plausible bug, each found under the same bounds.

| Run | Instance | Question | Result |
|---|---|---|---|
| `SearchLedgerSafety` | 2 requests, symmetric; failures, hangs, late answers, kill, power loss, restart | Is what a client was told what the files say for ever? Refinement of `SearchOutcome` | holds |
| `Server` | three parts, see below: 1 search, writers owe nothing, aborts may fail; 2 weights that may come back, 3 container starts at any step, a crash; 1 handler, watchdog, 1 review command, 1 kill, clock forward only | Does a call return? Are the scores of a row from the start its pins name, and is every request done with? Does heeding a notice lift the gate, does every call leave the locks, does the server come up? | holds |
| `ScorePinsPoisoned` | the same weights and starts | Do cached vectors match the weights the row names (scorer.py:16-18)? | violated |
| `ScoreQueueSettles` | 1 hit, queue of 1, threshold 2, 1 fault, 1 manual call | numbers, threshold; is every hit settled and every caller released? | holds |
| `DistillBridgeFacts` | 3 messages: a known agent, an unknown one with a workspace and without; 2 bridges, budgets of one entry and of less than a large span; 1 fault, 1 replay | Is a message skipped, one read that no release let through, a fact lost or written twice? Does everything settle? | holds |
| `ArchiveNights` | 5 runs, keep 2, 2 faults, 1 reset; some fifty databases; 2 nights, 2 blobs and 2 manifests, 2 faults; 2 session files, 3 nights, 3 edits, 1 mishap | directories and chain, gate, vault, sessions | holds |
| `Files` | eight parts, see below | checkpoint file, export, feed, mirror, blobs, PIN file, pruner, view | holds |
| `DistillBridgeSpill` | the same without faults | Does the release of one workspace leave the others in quarantine (cass_reader.py:117)? | violated |
| `SessionsRestore` | 2 session files, 3 nights, 3 edits | Can the sessions of a published backup be restored (RESTORE-cass.md)? | violated |
| `VaultDeferred` | 2 manifests, a doctor that reads 1 | Can a sound backup be restored past the doctor's limit (backup-cass.sh:199)? | violated |
| `VaultUnread` | 2 manifests, 1 fault, a doctor that reads some of them | Are the blobs of an accepted backup whole (restore_verify.py:71)? | violated |
| `MirrorLost` | 2 captures, 1 unusable | Does the marker refuse when a path was lost (restore-from-mirror.py:58)? | violated |

`Server`, `ArchiveNights` and `Files` each check several parts that share no state in
one run: a variable `part`, chosen at the start, says whose steps are taken and the
others stay in one initial state, so the state spaces add up instead of multiplying.

What these runs ask of each part:

- ledger: `EveryCallReturns`. scorer: `RowIsOfOneStart`, `RequestEnds`, with one card,
  since neither asks for the vectors. gate: `HeededNoticeLifts`, `EveryCallLeaves`,
  `DownServerComesUp`. The fairness of a part is the one its module states, of the steps
  taken while it is the part that moves.
- chain: `WholeBackupsAreKept`, `NamesTellTheTruth`, `TailHasNoGap`, `ChainHeals` (a
  chain that any sequence of interrupted runs leaves verifies again after enough
  undisturbed ones).
- gate: `PublishedContinues`, `PublishedIsABaseline`.
- vault: `PublishedRestores`, `QuietWeekRestores`, `RestoreIsTrue`. The publication
  checks, the weekly run and the restore look at different things. What is published is
  what was staged, with its blobs whole, but for the two sums nothing reads back; the
  restore and the weekly run refuse exactly those. A quiet week means that every backup
  is what was backed up, and that the restore takes it exactly if its doctor reads
  everything. And what the restore accepts, told whatever by its doctor, is the database
  and the manifests of that night; that the blobs are whole is not claimed, since
  nothing in the restore reads them (`VaultUnread`).
- sessions: `PublishedIsContinued`, `PoolHoldsNoMixture`, `TableFollowsPool`.
- checkpoint: `NothingIsTakenBack`, with a clock that may be set back, two review
  commands and a kill.
- corpus: `NothingIsPassedOver`, `NoFileChangesHands` with 2 conversations, 2 turns,
  2 times, 2 runs, a failure and a rebuilt index; `CutKeepsAnError` over all outputs of
  three lines from four lengths with errors at five places.
- everos: `FedOnceAsClaimed`, `CompletedIsWhole` with 3 messages, 2 claims, a mishap.
- mirror: `StagingIsWhole` with 3 captures, 2 of which may go bad, 2 restores. Of
  sources.toml it claims only that the entries of a list are moved (`EntriesAreRewritten`, below).
- blobs: `NameIsWhole` with 2 puts, 2 contents, 3 faults.
- pin: `PinIsCurrent` with 2 requests, 2 versions, 3 PIN files.
- view: `ViewTellsWhatHappened` with 2 queries and 3 scored rows.

Why the bounds are enough. Two requests share the streams of the ledger: one
whose row is late and one whose receipt overtakes it is all the interference the
protocol has, since handlers share nothing else. Two requests fill a queue of one
(the hit and the manual call), which is the full queue; a threshold of two tells
a count from a flag. The hit is one: with two, settlement is beyond TLC in minutes, so
that a sweep which ends early leaves other orphans behind is not checked (the safety
properties are proved for any number). Two sets of weights and two restarts give drift and
roll-back, and a third start between them. In `Checkpoint` the unit of time is the grace period: `Server` makes
DueAfter two of them, so that the grace period can run out before and after the
review is overdue; in `Files`, where the clock may be set back by one, both are
one, and two review commands compete with the server for the flock. In
`DistillBridge` one fault is enough for each of its losses: a kill after the entry
and before the journal, an answer that never comes followed by a replay; three
messages exceed the entry budget twice, and a span of cost 3 exceeds a token budget
of 2. Five runs with keep 2 rotate twice, so a reset rotates out, and two faults
interrupt a run and the one that should have cleaned up after it. Two manifests against a
doctor that reads one by default give both sides of its limit in one run, and two faults
a part and its neighbour changed to fit each other; a landing has one bad copy at most. Session files
of one or two equal blocks tell a continued file from a rewritten one of the same,
a smaller or a larger size. Two PIN files after the first give a file replaced
between stat and read and one more for another thread's look at the cache.

Deadlock checking is off but in `DistillBridge`: the system may rightly stop
(every request answered, every bound used up), whereas a batch can always be
started again.

### What the violated runs show

1. `ScorePinsPoisoned`: vectors are cached before the second marker reading; an
   attempt that is then discarded leaves vectors of the new weights under the old
   fingerprint; when the old weights come back they are used.
2. `SessionsRestore`: the pool is shared by all backups and grows; a published
   sessions.tsv says the size of its own night. As soon as a later night appends to
   one listed file, also in a run that is then refused, the restore of the older
   backup's sessions is refused for a wrong size.
3. `VaultDeferred`: the nightly backup tells the doctor to read every manifest, the
   restore does not; past the limit its doctor answers `verification_deferred` and
   the restore refuses a sound backup.
4. `VaultUnread`: the restore copies the pool as it is and then believes the doctor; its
   check asks for a positive count, which a doctor that left some of the reading out
   has as well.
5. `DistillBridgeSpill`: the sessions without a workspace are released as the pair (agent,
   ''), and '' is the filter for every workspace of the agent.
6. `MirrorLost`: `lost_paths` is 0 from its assignment to its use, so the marker
   is given although a path whose only manifest is unusable was never staged.

### What was met while modelling and has no run

Stated in a module but true only with a qualification:

- `ReturnedStatusIsRecorded` (`SearchLedger`): server.py:25 says the terminal row
  records the status about to be returned. When aborts.log cannot be written either,
  the failure is swallowed (server.py:638, 644, 662, 668), and the late
  terminal row may say hit for a call answered with an error.
- `FailedRowStaysOut` (`SearchLedger`): ledger.py:8-9 says a row whose write failed is
  not written any more. A row whose flush failed stays in the buffer and the next
  row's flush writes it; mark_abort makes this harmless, which is why
  `AnsweredErrorIsRecorded` holds.
- `ReviewFollowsDue` (`Checkpoint`): checkpoint.py:24-26 says a review from before the
  due moment does not count. The watchdog's `now` is older than the count it is
  judged with, so due_since may precede that moment and a voluntary review between
  the two counts.
- `DamageIsSeen` (`CassSessions`): a file that rsync transferred this night is recorded
  anew before the gate compares it, so damage to its older part becomes the record.
- `PublishedIsVerified` (`CassVault`): backup-cass.sh:747 has COMPLETE follow from the
  verification of all of a backup. The database, the manifests, their listing and the
  blobs are read back on the NAS, db.sha256 and census.tsv (370-371) are not. What a bad
  copy of them costs is in `PublishedRestores`, which holds.
- `TailHasNoGap` under `FlakySpec` (`CassBackup`): step 14c reads the published digests
  with the tolerance of the rotation (cass_common.py:117), where the gate reads them
  strictly; the newest one, unreadable for that moment, is passed over and its
  generation is given a second time. Five runs that keep two, with one such reading,
  are enough.
- `EntriesAreRewritten` (`MirrorRestore`): restore-from-mirror.py:31-33 says every entry
  is rewritten. A `paths` that is not a list is left as it is with a warning
  (229-231), an entry that is the home itself is not found by its prefix (234-239), and the
  marker is given. `StagingIsWhole` claims it of the entries that lie under the home.

Observed, not modelled or outside what a property states:

- `state()` writes `due_since = now` unchecked (checkpoint.py:292); with a clock that
  went back behind the launch every later load is `CheckpointCorrupt`
  (checkpoint.py:174).
- A torn append to aborts.log is never sealed: the next abort is glued to it and
  neither is read.
- A manual_rescore whose item close() drops, or that is put after the sentinel, waits
  for ever.
- The blob store acknowledges a name whose directory entry another put has not
  fsync'ed yet, when it finds the content there.
- A rotation that removed digest.json and stopped before COMPLETE leaves a member
  that the strict scan refuses on every later night; backup-cass.sh:936 calls this
  self-healing.
- A new session file whose run was killed between rsync and update-state has no
  record, and the gate refuses it until it is adopted by hand.
- The weekly run follows a symlinked manifest that the restore refuses.
- The date in a transcript's name falls back to the newest message when a
  conversation has no start, so it may get a second transcript; messages taken in late
  with old times stay behind the cursor; a rebuilt archive renumbers the ids in the
  cursor; a conversation that always fails keeps the cursor before it; of two exports
  of one conversation at once the older text may be left.
- The PIN is written when an upgrade has passed its tests, which need not be when
  the new EverOS starts: a row names what the file said, not what ran.

### Fairness

- Ledger writers get none in `SearchLedger`: the code expects them to hang (receipts
  have a timeout of 5 s for this reason). Handlers are fair: they are threads
  that run, and their waits end by receipt or by time-out.
- `ScoreQueue`: the worker, the writer and the sweep are threads of the process
  and weakly fair; the service manager restarts a process that ended. Faults are
  limited by a bound, so that from some moment on writes succeed; a hit whose
  writes fail for ever is not settled and no fairness is assumed to hide it.
- `ScorePins`: the worker's steps are weakly fair, the container's restarts are not.
- `Checkpoint`: threads and processes that run go on; entering a lock is strongly
  fair, as competitors hold it for milliseconds and come back after a period
  (60 s for the watchdog); a server that is down is started again. Searches,
  passes, reviews and the clock owe nothing.

- `DistillBridge`: each process goes on with its batch and, when it has none and the
  lease is free, begins one (the timer). Messages, operators, late entries and
  faults owe nothing; faults are bounded, so settlement is claimed for a gbrain
  that answers from some moment on.

## 4. Proofs

Every theorem holds for all values of the constants that meet the named assumptions:
any number of requests, threads, messages, nights, files, conversations, faults.
The assumptions say what the code's types say (positive limits, markers that are no
data, `Snapshots` with finite row numbers, `Outputs` within SQLite's limit), and TLC
evaluates each on a run. Three theorems need a hypothesis beyond them, named below
(`ErrorIsRecorded`, `Refinement`, `HeedingLifts`).
None of the properties is inductive, so each part has an invariant that is; TLC
checked every one of them on the instance of its run before it was proved.

`SearchLedgerProofs`: `TypeCorrect`, `InvHolds`, `ResultIsRecorded`,
`HitsHaveEvidence`, `TracesHaveStarted`, `QueueHoldsHits`; and, where aborts.log can be
written (`AbortMayFail = FALSE`), `ErrorIsRecorded` and `Refinement`; without it both
are false (section 3). "A result told is on file" needs to know what is on file at
each stage of the handler, and what may still be in a queue. `Inv` in
`SearchLedgerInv` says, per request, which rows exist and how far they have
got for each program counter, that a request has at most one row of each kind, and
that a terminal row of a result follows a synced accepted row. `Refinement` maps a
step to an answer of `SearchOutcome` or to a stutter.

`CheckpointProofs`: `TypeCorrect` and `FileIsKept` from `FileInv` (types, and whoever
is inside the flock has read the file as it is: this is what the flock is for, and
what makes the write of a decision taken earlier safe), for any handlers and review
commands, also when the clock is set back. `HeedingLifts` needs that it is not
(`ClockSteps = FALSE`): then no time in use is ahead of the clock (`NotAhead`), a notice
means due_since is on file (`NoticedIsDue`), so a review begun after it carries a time
that counts (`SawIsAfter`).

`ScorePinsProofs`: `OneStart`, for any number of container starts and any weights. The
invariant says what each variable in hand is of at each program counter: if the
marker read last is still the container's, then everything asked of it since the
first reading is of this start (`InHand`), and the bundle describes the start it
names (`Describes`). The two marker readings around the work are exactly what it needs.

`ScoreQueueProofs`: `NumbersOfARequestGrow` and `NobodyGivenUpEarly`, for any queue,
threshold and number of requests. `NumbersGrow` puts the writer's counters above every
number in the log, also across a restart that reads them back; `GivenUpWithReason`
follows the reason of a permanent failure from the sweep's reading through its wait
to the row: the failed attempts were before it in the file when it was decided.

`DistillBridgeProofs`: `NoMessageSkipped`, `JournalAndPagesAgree`, `SpansWereReleased`,
`NothingForgotten`. `SpansWereReleased` holds for sessions with and without a
workspace, because `ReadAsReleased` says what a release of either lets through. The
invariant has a reading part (every released message before a cursor is in a span,
and what a batch holds while its cursor moves) and a writing part, an account per
fact: the entries on the page and under way are bounded by the writes that
found nothing plus one, and a journal entry stands for one of them.

`StoreProofs`, one part per module:
- `NamesAreWhole` (`BlobStore`): what is on disk under an undamaged name is its content
  or nothing; a writer between rename and the directory's fsync has it in place.
- `RequestsSeeTheFile` (`PinFile`): a text that any thread may still put into the cache
  was in the file while every reader that could take it was reading. The proof needs
  the pair of mtime and text, which is why the code keeps both.
- `MarkedStagingIsWhole` (`MirrorRestore`): captures of a path grow with time, so the
  winner by `winner_sort_key` is the newest usable one, and each step of the copy keeps
  "staged, or still to be staged". The sources.toml may be anything.
- `NoneIsPassedOver`, `FilesStay` (`CorpusFeed`): what lies before the cursor is written,
  and what the batch in hand has not written lies behind it. `FilesStay` is about two
  exports that write at once.
- `ViewIsTrue` (`LedgerView`): all that materialize says, against the history of what
  happened. The longest streak is the hard part: `StreaksCountOpen` says that after n
  rows the running counter of a code is the number of its failures since the last
  healthy row, by induction over the rows.
- `FedOnce`, `CompletedAreWhole` (`EverosFeed`), from `FeederInv`: until the first
  completed claim EverOS holds nothing of the session, since only an unclear answer may
  hide a success and such an answer ends the run with the job left running; from then
  on, within a run, what EverOS holds followed by the waiting batches is what the
  rows feed. The lemmas about the role map, the joining of adjacent texts and the
  batching say, by induction over the messages, that each loses none and keeps the order.
- `CutsKeepAnError` (`Pruner`): the window cut out of a long line has at least 20
  characters and the keyword of 9 in its middle (`LineFacts`); the first line to rescue
  fits into the budget; and the clamped text, with its markers, fits the cap
  (`ClampFacts`), for every number of lines by induction over them.

`ArchiveProofs`, one part per module:
- `NamesAreTrue`, `TailsHaveNoGap`, `WholeBackupsStay` (`CassBackup`) from `BackupInv`:
  generations grow with the stamps, each readable backup goes on from a readable one or
  is the oldest, `Standing` says what the run's directory is at each step and what its
  trap will make of it, and victims are the oldest and never the new one.
- `ChainsHeal` says that `verify_chain` accepts what Keep - 1 quiet runs leave, for any
  retention and whatever came before. `HealInv` follows the chain through those runs:
  after q of them no reset is among the q newest, and it is q long, or has its
  beginning, and never longer than Keep. The rest is about the algorithm: on such a
  chain the walk of `verify_chain` passes every member and ends at the oldest
  (`WalkEnds`, by induction over its steps), and the count is the one due.
- `PublicationsContinueTheLast`, `BaselinesServe` (`CassGate`): passing the five legs is
  transitive along the publications, and loses no leg when a part of the baseline is
  lost between two of them (`LossesShow`, `ChainsContinue`).
- `NoFileIsAMixture`, `RecordsAreBacked`, `PublicationsContinue` (`CassSessions`): a
  record of the table is a beginning of the pool's file; a file not sent has kept its
  published beginning. TLC found that an earlier form of the last property, which did
  not look at `sent`, is false with two mishaps: a run killed after rsync and a lost
  record may together publish what the next run does not continue.
- `RestoresAreTrue`, `QuietWeeksRestore`, `PublishedBackupsRestore` (`CassVault`), for any
  limit of the doctor, any number of nights and any damage. `VaultInv` says that what a digest
  anchors is what was staged, whatever has become of the parts since; publication
  copies what it anchors from staging or compares it with what it reads back, so the
  digest is what the restore and the weekly run can hold every part against.

How it is laid out. Each part has lemmas for its operators, one lemma per action,
a theorem that its invariant holds, then each property from it. Induction over data
enters through `NumberFacts`: the least-number principle follows from a theorem of the
library on finite sets, induction (of a set of numbers) and recursion (there is a
function that unfolds as given, up to any number) from it. So a recursive function can
be reasoned about, as in `StreaksCountOpen` and `WalkEnds`; folds with an operator
argument and RECURSIVE operators cannot.

Only model-checked: every liveness property (`EveryCallReturns`, `RequestEnds`,
`ScoringSettles`, `EveryCallLeaves`, `DownServerComesUp`, `EverythingSettles`), which is out of
the provers' reach. Every invariant and every action property of a passing run has a
theorem. `TracesHaveStarted` and `QueueHoldsHits` are proved and have no run of their own.

## 5. Not modelled

- In modelled components: fault injection, permission checks and `close()` of the
  ledger and the worker; the replacement of dead writers by the watchdog (their
  threads catch every exception); torn tails of `aborts.log`; sizes, wording, token
  counts; real time (a timeout may come at any moment, which includes the five
  seconds).
- Weights changed in the volume under a running container: the marker cannot see
  it, and `ScorePins` assumes weights change with a start.
- In the bridge: two agents whose names give the same source id (`source_id_for`
  maps "a/b" and "a-b" to one), who would share a cursor; pages that other clients
  of gbrain write; message ids that the archive issues anew when it is rebuilt.
- In the archive backup: a CASS_BACKUP_KEEP that changes between nights, with which
  verify_chain expects another count; more than one bad copy in one landing; the dump and copy commands themselves (their outcomes are
  choices), the SQL behind the gate's counts, the locks against other programs, the
  rebuild of the index after a restore.
- In the export and the feed: the wording and redaction of texts, the cap on a single
  message, the program that claims sessions (not in this repository).
- Files damaged by other programs, but where a component promises to notice it.
- `cass_mcp`, the session hooks, evaluation, probes, benchmarks and installers have no
  state of their own; each is listed with the reason in `PROJECT.json`.

## 6. Plan

1. The proved invariants of `ScoreQueue` and `SearchLedger` put together: what is
   handed over is what is scored, as a theorem about both.
2. Torn appends to `aborts.log` in `SearchLedger`, and the selection of `cass_mcp`
   (`diversify`) against a reference definition.
