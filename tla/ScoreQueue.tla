---------------------------- MODULE ScoreQueue ----------------------------
(***************************************************************************)
(* How every hit gets scored, or is given up, at last: the bounded queue   *)
(* of the score worker, the reconciliation sweeps (everos_mcp/scorer.py)   *)
(* and the writer of the scored stream (everos_mcp/ledger.py).             *)
(*                                                                         *)
(* The request handlers hand over their hits once and forget them; a full  *)
(* queue drops them.  One worker thread takes items off the queue; a sweep *)
(* thread compares the hits on file with the scored rows on file, puts     *)
(* what has no final row on the same queue, and writes a permanent_failure *)
(* row after FailThreshold failures.  Rows are numbered by the writer      *)
(* thread, which picks up the numbering from the file at start-up.         *)
(*                                                                         *)
(* The stream is split as in SearchLedger; what a score is made of is left *)
(* to ScorePins.                                                           *)
(***************************************************************************)
EXTENDS Naturals, Sequences, FiniteSets

CONSTANTS Rid,            \* requests that count as hits; numbers, since sweeps go
                          \* through them in order
          QueueMax,       \* room in the queue (256)
          FailThreshold,  \* failures before a request is given up (5)
          MaxFaults,      \* bound: failed writes, timeouts and stops of the process
          MaxManual       \* bound: calls of manual_rescore

ASSUME ScoreQueueAssumption ==
  /\ Rid \subseteq Nat /\ QueueMax \in Nat \ {0} /\ FailThreshold \in Nat \ {0}
  /\ MaxFaults \in Nat /\ MaxManual \in Nat

VARIABLES log,      \* the scored rows submitted, in order
          taken, written, synced, syncing,  \* as in SearchLedger
          nextNo,   \* the writer's next attempt_no of each request
          queue,    \* the worker's queue
          worker,   \* what the worker is at
          sweep,    \* what the sweep is at
          handoff,  \* hits whose handler has not called enqueue yet
          caller,   \* the thread in manual_rescore
          up, faults, manuals

streamVars == <<log, taken, written, synced, syncing, nextNo>>
vars == <<streamVars, queue, worker, sweep, handoff, caller, up, faults, manuals>>

Status == {"ok", "retryable_error", "permanent_failure"}
Row    == [rid : Rid, status : Status, attempt_no : Nat]
Item   == [rid : Rid, manual : BOOLEAN]

\* A thread that waits for the receipt of row `at`.
Receipts == {"none", "ok", "failed"}
Resting  == [pc |-> "idle"]
WorkerStates == {Resting} \cup [pc : {"score"}, item : Item]
                  \cup [pc : {"await"}, item : Item, at : Nat, receipt : Receipts]
SweepStates == {Resting} \cup [pc : {"decide"}, spent : SUBSET Rid, orphans : SUBSET Rid]
                 \cup [pc : {"await"}, spent : SUBSET Rid, orphans : SUBSET Rid, at : Nat,
                       receipt : Receipts]

TypeOK ==
  /\ log \in Seq(Row)
  /\ taken \in Nat /\ written \in Nat /\ synced \in Nat /\ syncing \in BOOLEAN
  /\ synced <= written /\ written <= taken /\ taken <= Len(log)
  /\ nextNo \in [Rid -> Nat]
  /\ queue \in Seq(Item) /\ Len(queue) <= QueueMax
  /\ worker \in WorkerStates
  /\ sweep \in SweepStates
  /\ handoff \subseteq Rid
  /\ caller \in {"away", "putting", "waiting"}
  /\ up \in BOOLEAN /\ faults \in 0..MaxFaults /\ manuals \in 0..MaxManual

Init ==
  /\ log = <<>> /\ taken = 0 /\ written = 0 /\ synced = 0 /\ syncing = FALSE
  /\ nextNo = [r \in Rid |-> 0]
  /\ queue = <<>> /\ worker = Resting /\ sweep = Resting
  /\ handoff = Rid /\ caller = "away"
  /\ up = TRUE /\ faults = 0 /\ manuals = 0

Fault == faults < MaxFaults /\ faults' = faults + 1

-----------------------------------------------------------------------------
(* What readers of the file see.                                             *)

RowsOf(r, status) == {i \in 1..written : log[i].rid = r /\ log[i].status = status}

\* fold: a healthy row wins, then a permanent failure, then a retryable one.
fold(r) ==
  IF RowsOf(r, "ok") # {} THEN "ok"
  ELSE IF RowsOf(r, "permanent_failure") # {} THEN "permanent_failure"
  ELSE IF RowsOf(r, "retryable_error") # {} THEN "retryable_error"
  ELSE "none"

Settled(r) == fold(r) \in {"ok", "permanent_failure"}

-----------------------------------------------------------------------------
(* The writer of the scored stream.                                          *)

\* Row i's event is set: whoever waits for it learns the result.
Told(thread, i, result) ==
  IF thread.pc = "await" /\ thread.at = i THEN [thread EXCEPT !.receipt = result] ELSE thread

Signal(i, result) ==
  /\ worker' = IF worker.pc = "await" THEN Told(worker, i, result) ELSE worker
  /\ sweep' = IF sweep.pc = "await" THEN Told(sweep, i, result) ELSE sweep

\* The number is taken before the write is tried, and used up if it fails.
Number ==
  LET row == log[taken + 1] IN
    /\ log' = [log EXCEPT ![taken + 1].attempt_no = nextNo[row.rid]]
    /\ nextNo' = [nextNo EXCEPT ![row.rid] = @ + 1]

CanTake == up /\ ~syncing /\ taken < Len(log)

Flush ==
  /\ CanTake /\ Number
  /\ taken' = taken + 1 /\ written' = taken + 1 /\ syncing' = TRUE
  /\ UNCHANGED <<synced, queue, worker, sweep, handoff, caller, up, faults, manuals>>

\* The row stays in the buffer; older ones there may have got through.
FlushFails ==
  /\ CanTake /\ Number /\ Fault
  /\ taken' = taken + 1
  /\ written' \in written..taken
  /\ Signal(taken + 1, "failed")
  /\ UNCHANGED <<synced, syncing, queue, handoff, caller, up, manuals>>

Fsync ==
  /\ up /\ syncing
  /\ synced' = written /\ syncing' = FALSE
  /\ Signal(taken, "ok")
  /\ UNCHANGED <<log, taken, written, nextNo, queue, handoff, caller, up, faults, manuals>>

FsyncFails ==
  /\ up /\ syncing /\ Fault
  /\ syncing' = FALSE
  /\ Signal(taken, "failed")
  /\ UNCHANGED <<log, taken, written, synced, nextNo, queue, handoff, caller, up, manuals>>

submit_scored(r, status) ==
  /\ log' = Append(log, [rid |-> r, status |-> status, attempt_no |-> 0])
  /\ UNCHANGED <<taken, written, synced, syncing, nextNo>>

-----------------------------------------------------------------------------
(* The queue and the worker.                                                 *)

\* enqueue, enqueue_reconcile: put_nowait, and a full queue drops the item.
PutNowait(r) ==
  queue' = IF Len(queue) < QueueMax THEN Append(queue, [rid |-> r, manual |-> FALSE]) ELSE queue

\* The handler of r, after its terminal row is durable.
Enqueue(r) ==
  /\ up /\ r \in handoff
  /\ PutNowait(r)
  /\ handoff' = handoff \ {r}
  /\ UNCHANGED <<streamVars, worker, sweep, caller, up, faults, manuals>>

\* manual_rescore: waits for room, then for the item to be done with.
Manual ==
  /\ up /\ caller = "away" /\ manuals < MaxManual
  /\ caller' = "putting" /\ manuals' = manuals + 1
  /\ UNCHANGED <<streamVars, queue, worker, sweep, handoff, up, faults>>

ManualPut ==
  /\ up /\ caller = "putting" /\ Len(queue) < QueueMax
  /\ \E r \in Rid : queue' = Append(queue, [rid |-> r, manual |-> TRUE])
  /\ caller' = "waiting"
  /\ UNCHANGED <<streamVars, worker, sweep, handoff, up, faults, manuals>>

Take ==
  /\ up /\ worker.pc = "idle" /\ queue # <<>>
  /\ worker' = [pc |-> "score", item |-> Head(queue)]
  /\ queue' = Tail(queue)
  /\ UNCHANGED <<streamVars, sweep, handoff, caller, up, faults, manuals>>

\* _score_once comes to a result, or to none in three attempts (the validator
\* may also turn its "ok" into a failure), and waits for the receipt.
Score ==
  /\ up /\ worker.pc = "score"
  /\ \E status \in {"ok", "retryable_error"} : submit_scored(worker.item.rid, status)
  /\ worker' = [pc |-> "await", item |-> worker.item, at |-> Len(log) + 1, receipt |-> "none"]
  /\ UNCHANGED <<queue, sweep, handoff, caller, up, faults, manuals>>

\* With any receipt, or with a timeout, the worker goes on; the caller of
\* manual_rescore is released in either case.
Release ==
  /\ worker' = Resting
  /\ caller' = IF worker.item.manual THEN "away" ELSE caller
  /\ UNCHANGED <<streamVars, queue, sweep, handoff, up, manuals>>

\* Or it ends without a row: manual_rescore may name a request that is unknown or
\* has no candidates, and the accepted stream may not be readable.
ScoreNothing ==
  /\ up /\ worker.pc = "score"
  /\ IF worker.item.manual THEN UNCHANGED faults ELSE Fault
  /\ Release

Finish   == up /\ worker.pc = "await" /\ worker.receipt # "none" /\ Release /\ UNCHANGED faults
TimedOut == up /\ worker.pc = "await" /\ worker.receipt = "none" /\ Release /\ Fault

-----------------------------------------------------------------------------
(* reconcile                                                                 *)

\* The streams are read, and what is to be done is decided on what they said then.
Failures(r) == Cardinality(RowsOf(r, "retryable_error"))

Scan_AnyRow ==   \* faulty variant: a request with any row counts as scored
  /\ up /\ sweep.pc = "idle"
  /\ sweep' = [pc |-> "decide", spent |-> {},
               orphans |-> {r \in Rid : fold(r) = "none"}]
  /\ UNCHANGED <<streamVars, queue, worker, handoff, caller, up, faults, manuals>>

Scan_OneLess ==   \* faulty variant: off by one at the threshold
  /\ up /\ sweep.pc = "idle"
  /\ sweep' = [pc |-> "decide",
               spent |-> {r \in Rid : ~Settled(r) /\ Failures(r) + 1 >= FailThreshold},
               orphans |-> {r \in Rid : ~Settled(r) /\ Failures(r) + 1 < FailThreshold}]
  /\ UNCHANGED <<streamVars, queue, worker, handoff, caller, up, faults, manuals>>

Scan ==
  /\ up /\ sweep.pc = "idle"
  /\ sweep' = [pc |-> "decide",
               spent |-> {r \in Rid : ~Settled(r) /\ Failures(r) >= FailThreshold},
               orphans |-> {r \in Rid : ~Settled(r) /\ Failures(r) < FailThreshold}]
  /\ UNCHANGED <<streamVars, queue, worker, handoff, caller, up, faults, manuals>>

First(S) == CHOOSE r \in S : \A q \in S : r <= q

\* A request given up gets its row, and the sweep waits for the receipt.
Condemn ==
  /\ up /\ sweep.pc = "decide" /\ sweep.spent # {}
  /\ submit_scored(First(sweep.spent), "permanent_failure")
  /\ sweep' = [pc |-> "await", spent |-> sweep.spent \ {First(sweep.spent)},
               orphans |-> sweep.orphans, at |-> Len(log) + 1, receipt |-> "none"]
  /\ UNCHANGED <<queue, worker, handoff, caller, up, faults, manuals>>

Condemned ==
  /\ up /\ sweep.pc = "await" /\ sweep.receipt = "ok"
  /\ sweep' = [pc |-> "decide", spent |-> sweep.spent, orphans |-> sweep.orphans]
  /\ UNCHANGED <<streamVars, queue, worker, handoff, caller, up, faults, manuals>>

\* An error receipt or a timeout ends the whole sweep, before it has enqueued anything.
Abandon ==
  /\ up /\ sweep.pc = "await"
  /\ \/ sweep.receipt = "failed" /\ UNCHANGED faults
     \/ sweep.receipt = "none" /\ Fault
  /\ sweep' = Resting
  /\ UNCHANGED <<streamVars, queue, worker, handoff, caller, up, manuals>>

\* The orphans follow one by one.
Requeue ==
  /\ up /\ sweep.pc = "decide" /\ sweep.spent = {} /\ sweep.orphans # {}
  /\ PutNowait(First(sweep.orphans))
  /\ sweep' = [sweep EXCEPT !.orphans = @ \ {First(sweep.orphans)}]
  /\ UNCHANGED <<streamVars, worker, handoff, caller, up, faults, manuals>>

Rest ==
  /\ up /\ sweep.pc = "decide" /\ sweep.spent = {} /\ sweep.orphans = {}
  /\ sweep' = Resting
  /\ UNCHANGED <<streamVars, queue, worker, handoff, caller, up, faults, manuals>>

-----------------------------------------------------------------------------
(* The process stops, keeping the first `keep` rows, and starts again.       *)

Stop(keep) ==
  /\ up' = FALSE
  /\ log' = SubSeq(log, 1, keep)
  /\ taken' = keep /\ written' = keep /\ synced' = keep /\ syncing' = FALSE
  /\ nextNo' = [r \in Rid |-> 0]
  /\ queue' = <<>> /\ worker' = Resting /\ sweep' = Resting
  /\ handoff' = {} /\ caller' = "away"
  /\ UNCHANGED manuals

Kill == up /\ Fault /\ Stop(written)

PowerLoss == up /\ Fault /\ \E keep \in synced..written : Stop(keep)

Restart_FromZero ==   \* faulty variant: the numbering starts over
  /\ ~up
  /\ up' = TRUE
  /\ UNCHANGED <<streamVars, queue, worker, sweep, handoff, caller, faults, manuals>>

\* LedgerWriter.__init__: one more than the greatest number on file.
Restart ==
  /\ ~up
  /\ up' = TRUE
  /\ nextNo' = [r \in Rid |-> LET nos == {log[i].attempt_no : i \in {i \in 1..written : log[i].rid = r}}
                              IN IF nos = {} THEN 0 ELSE 1 + CHOOSE n \in nos : \A m \in nos : m <= n]
  /\ UNCHANGED <<log, taken, written, synced, syncing, queue, worker, sweep, handoff, caller,
                 faults, manuals>>

-----------------------------------------------------------------------------

Writer  == Flush \/ FlushFails \/ Fsync \/ FsyncFails
Working == Take \/ Score \/ ScoreNothing \/ Finish \/ TimedOut
Sweep   == Scan \/ Condemn \/ Condemned \/ Abandon \/ Requeue \/ Rest

Next ==
  \/ Writer \/ Working \/ Sweep
  \/ \E r \in Rid : Enqueue(r)
  \/ Manual \/ ManualPut
  \/ Kill \/ PowerLoss \/ Restart

Spec == Init /\ [][Next]_vars

\* The writer, the worker and the sweep are running threads, and the service
\* manager restarts the process.  A put that waits for room gets it when room
\* keeps coming up.
FairSpec ==
  /\ Spec
  /\ WF_vars(Writer) /\ WF_vars(Working) /\ WF_vars(Sweep) /\ WF_vars(Restart)
  /\ SF_vars(ManualPut)

-----------------------------------------------------------------------------

\* The numbers of a request's rows grow along the file, over failed writes, lost
\* rows and restarts, so that fold's greatest attempt_no is the latest row.
AttemptNosGrow ==
  \A i, j \in 1..written :
    i < j /\ log[i].rid = log[j].rid => log[i].attempt_no < log[j].attempt_no

\* Nobody is given up before FailThreshold failures of his are on file, although
\* sweeps decide on what they read earlier and rows that timed out come late.
PermanentHasFailures ==
  \A i \in 1..written : log[i].status = "permanent_failure" =>
    Cardinality({j \in 1..(i - 1) : log[j].rid = log[i].rid /\ log[j].status = "retryable_error"})
      >= FailThreshold

\* Every hit ends up scored or given up on file for good, although the queue
\* drops hand-overs, sweeps are abandoned half-way and stops lose everything that
\* is queued - as long as the faults come to an end.
EveryHitSettles == \A r \in Rid : <>[]Settled(r)

\* manual_rescore returns, with a result or without.
ManualReturns == caller # "away" ~> caller = "away"

\* Nothing the score worker owes stays undone: neither a hit nor a caller who
\* waits, although both go through one bounded queue and one worker thread.
ScoringSettles == EveryHitSettles /\ ManualReturns
===========================================================================
