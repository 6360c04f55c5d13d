--------------------------- MODULE SearchLedger ---------------------------
(***************************************************************************)
(* The request ledger of everos_mcp: how one `everos_search` call          *)
(* (everos_mcp/server.py, _handle_search) is recorded in the append-only   *)
(* streams `ops` and `accepted` and in aborts.log (everos_mcp/ledger.py).  *)
(*                                                                         *)
(* Handlers run concurrently in the tool thread pool.  Each stream has one *)
(* writer thread behind a FIFO queue; a handler that submits a row waits   *)
(* for a receipt that is issued after fsync, but for 5 s only: when it     *)
(* stops waiting the row STAYS in the queue and is written later.  The     *)
(* process may be killed, exit by itself (86) or lose power at any step.   *)
(*                                                                         *)
(* One sequence per stream, log[s], holds the rows in submission order;    *)
(* synced <= written <= taken <= Len(log[s]) split it into rows that are   *)
(* on disk for good, rows a reader sees, rows still in the file object's   *)
(* buffer after a failed flush, and rows still queued.                     *)
(***************************************************************************)
EXTENDS Naturals, Sequences

CONSTANTS Rid,           \* request ids (uuid4().hex): never used twice
          AbortMayFail   \* may the direct write to aborts.log fail?

ASSUME SearchLedgerAssumption == AbortMayFail \in BOOLEAN

VARIABLES log,       \* log[s]: the rows submitted to stream s, in order
          taken,     \* rows the writer thread of s has taken off its queue
          written,   \* rows of s that have reached the file
          synced,    \* rows of s that have been fsync'ed
          syncing,   \* the writer of s is between flush and fsync
          torn,      \* the file of s ends in half a row
          aborts,    \* the rids in aborts.log
          pc,        \* where the handler of each request stands
          waiting,   \* the index of the row whose receipt it waits for
          receipt,   \* what its receipt says so far
          outcome,   \* the status the handler means to record
          answer,    \* what the client was told
          scoreQueue,\* rids handed to the score worker
          up         \* the server process runs

ledgerVars  == <<log, taken, written, synced, syncing, torn, aborts>>
handlerVars == <<pc, waiting, receipt, outcome, answer, scoreQueue>>
vars        == <<ledgerVars, handlerVars, up>>

Streams  == {"ops", "accepted"}
Statuses == {"hit", "abstain_empty", "error"}
Awaits   == {"await_started", "await_accepted", "await_terminal"}
Phases   == Awaits \cup {"new", "serve", "broken", "lost_accepted", "close_late",
                         "lost_terminal", "done", "dead"}

\* "garbage" is a row glued to the half row before it: readers skip it.
Kinds == {"started", "terminal", "accepted", "response_aborted", "garbage"}
Row   == [rid : Rid, kind : Kinds, status : Statuses]

ops_started(r)          == [rid |-> r, kind |-> "started", status |-> "error"]
ops_terminal(r, st)     == [rid |-> r, kind |-> "terminal", status |-> st]
\* An accepted row keeps, of its stage, what tells a hit from the rest.
accepted_row(r, st)     == [rid |-> r, kind |-> "accepted", status |-> st]
response_aborted_row(r) == [rid |-> r, kind |-> "response_aborted", status |-> "error"]

\* The types, and the order of the positions that split each stream.
TypeOK ==
  /\ log \in [Streams -> Seq(Row)]
  /\ taken \in [Streams -> Nat]
  /\ written \in [Streams -> Nat]
  /\ synced \in [Streams -> Nat]
  /\ syncing \in [Streams -> BOOLEAN]
  /\ torn \in [Streams -> BOOLEAN]
  /\ aborts \subseteq Rid
  /\ pc \in [Rid -> Phases]
  /\ waiting \in [Rid -> Nat]
  /\ receipt \in [Rid -> {"none", "ok", "failed"}]
  /\ outcome \in [Rid -> Statuses]
  /\ answer \in [Rid -> Statuses \cup {"none", "raised"}]
  /\ scoreQueue \subseteq Rid
  /\ up \in BOOLEAN
  /\ \A s \in Streams :
       synced[s] <= written[s] /\ written[s] <= taken[s] /\ taken[s] <= Len(log[s])

Init ==
  /\ log = [s \in Streams |-> <<>>]
  /\ taken = [s \in Streams |-> 0]
  /\ written = [s \in Streams |-> 0]
  /\ synced = [s \in Streams |-> 0]
  /\ syncing = [s \in Streams |-> FALSE]
  /\ torn = [s \in Streams |-> FALSE]
  /\ aborts = {}
  /\ pc = [r \in Rid |-> "new"]
  /\ waiting = [r \in Rid |-> 0]
  /\ receipt = [r \in Rid |-> "none"]
  /\ outcome = [r \in Rid |-> "error"]
  /\ answer = [r \in Rid |-> "none"]
  /\ scoreQueue = {}
  /\ up = TRUE

-----------------------------------------------------------------------------
(* What a reader of the files makes of a request.                          *)

\* iter_rows: the whole rows of stream s about r, of one kind.
Rows(s, r, k) == {i \in 1..written[s] : log[s][i].rid = r /\ log[s][i].kind = k}

Terminals(r) == Rows("ops", r, "terminal")

Aborted(r) == r \in aborts \/ Rows("accepted", r, "response_aborted") # {}

\* effective_status: an abort wins, then a missing or ambiguous record is an
\* error, then the one terminal row speaks.
effective_status(r) ==
  IF \/ Aborted(r)
     \/ Rows("ops", r, "started") = {}
     \/ Terminals(r) = {}
     \/ \E i, j \in Terminals(r) : i # j
  THEN "error"
  ELSE log["ops"][CHOOSE i \in Terminals(r) : TRUE].status

-----------------------------------------------------------------------------
(* The writer thread of a stream.                                          *)

StreamOf(p) == IF p = "await_accepted" THEN "accepted" ELSE "ops"

\* The event of row i of stream s is set, with or without an error.
Signal(s, i, result) ==
  receipt' = [r \in Rid |-> IF pc[r] \in Awaits /\ StreamOf(pc[r]) = s /\ waiting[r] = i
                            THEN result ELSE receipt[r]]

\* A row appended after half a row makes one unreadable line of both.
Glue(s, i) == IF torn[s] THEN [log EXCEPT ![s][i].kind = "garbage"] ELSE log

\* The writer takes a row; write and flush succeed, with everything that an
\* earlier failed flush had left in the buffer.
Flush_EarlyReceipt(s) ==   \* faulty variant: the receipt does not wait for fsync
  /\ up /\ ~syncing[s] /\ taken[s] < Len(log[s])
  /\ taken' = [taken EXCEPT ![s] = @ + 1]
  /\ written' = [written EXCEPT ![s] = taken[s] + 1]
  /\ Signal(s, taken[s] + 1, "ok")
  /\ UNCHANGED <<log, synced, syncing, torn, aborts, pc, waiting, outcome, answer,
                 scoreQueue, up>>

Flush(s) ==
  /\ up /\ ~syncing[s] /\ taken[s] < Len(log[s])
  /\ taken' = [taken EXCEPT ![s] = @ + 1]
  /\ written' = [written EXCEPT ![s] = taken[s] + 1]
  /\ syncing' = [syncing EXCEPT ![s] = TRUE]
  /\ log' = Glue(s, taken[s] + 1)
  /\ torn' = [torn EXCEPT ![s] = FALSE]
  /\ UNCHANGED <<synced, aborts, handlerVars, up>>

\* flush() raises: the submitter gets the error, the row stays in the buffer,
\* of which some older rows may have got through.
FlushFails(s) ==
  /\ up /\ ~syncing[s] /\ taken[s] < Len(log[s])
  /\ taken' = [taken EXCEPT ![s] = @ + 1]
  /\ \E n \in written[s]..taken[s] : written' = [written EXCEPT ![s] = n]
  /\ Signal(s, taken[s] + 1, "failed")
  /\ UNCHANGED <<log, synced, syncing, torn, aborts, pc, waiting, outcome, answer,
                 scoreQueue, up>>

Fsync(s) ==
  /\ up /\ syncing[s]
  /\ synced' = [synced EXCEPT ![s] = written[s]]
  /\ syncing' = [syncing EXCEPT ![s] = FALSE]
  /\ Signal(s, taken[s], "ok")
  /\ UNCHANGED <<log, taken, written, torn, aborts, pc, waiting, outcome, answer,
                 scoreQueue, up>>

\* fsync() raises: an error receipt for a row that every reader already sees.
FsyncFails(s) ==
  /\ up /\ syncing[s]
  /\ syncing' = [syncing EXCEPT ![s] = FALSE]
  /\ Signal(s, taken[s], "failed")
  /\ UNCHANGED <<log, taken, written, synced, torn, aborts, pc, waiting, outcome,
                 answer, scoreQueue, up>>

-----------------------------------------------------------------------------
(* The steps of a handler.                                                 *)

\* submit_nowait: put on the queue of s, no receipt.
submit_nowait(s, row) ==
  /\ log' = [log EXCEPT ![s] = Append(@, row)]
  /\ UNCHANGED <<taken, written, synced, syncing, torn, aborts>>

\* submit: put on the queue of s and wait for the receipt.
submit(r, s, row, phase) ==
  /\ submit_nowait(s, row)
  /\ pc' = [pc EXCEPT ![r] = phase]
  /\ waiting' = [waiting EXCEPT ![r] = Len(log[s]) + 1]
  /\ receipt' = [receipt EXCEPT ![r] = "none"]

\* mark_abort: written straight to aborts.log, past every queue; the callers
\* swallow its failure.
mark_abort(r) ==
  \/ aborts' = aborts \cup {r}
  \/ AbortMayFail /\ UNCHANGED aborts

\* Wait no more and go on to another phase.
Leave(r, phase) ==
  /\ pc' = [pc EXCEPT ![r] = phase]
  /\ waiting' = [waiting EXCEPT ![r] = 0]
  /\ receipt' = [receipt EXCEPT ![r] = "none"]

\* The same, touching neither the queues nor the answer.
Goto(r, phase) ==
  /\ Leave(r, phase)
  /\ UNCHANGED <<taken, written, synced, syncing, torn, answer, scoreQueue, up>>

\* Event.wait(5.0) gives up, or the receipt carries an error.
TimedOut_Never(r) == FALSE   \* faulty variant: wait() without a timeout

TimedOut(r)    == receipt[r] = "none"
WriteFailed(r) == receipt[r] = "failed"

\* The first action of a call: the started row, before any check.
Start(r) ==
  /\ up /\ pc[r] = "new"
  /\ submit(r, "ops", ops_started(r), "await_started")
  /\ UNCHANGED <<outcome, answer, scoreQueue, up>>

Started(r) ==
  /\ up /\ pc[r] = "await_started" /\ receipt[r] = "ok"
  /\ Goto(r, "serve")
  /\ UNCHANGED <<log, aborts, outcome>>

\* The contract gate, the checkpoint gate and the search have been passed or
\* have failed: one accepted row, of a stage with status st.
Accept(r) ==
  /\ up /\ pc[r] = "serve"
  /\ \E st \in Statuses :
       /\ outcome' = [outcome EXCEPT ![r] = st]
       /\ submit(r, "accepted", accepted_row(r, st), "await_accepted")
  /\ UNCHANGED <<answer, scoreQueue, up>>

\* The config fingerprint or the snapshot blobs cannot be had: abort, then an
\* error terminal without an accepted row.
Break(r) ==
  /\ up /\ pc[r] = "serve"
  /\ mark_abort(r)
  /\ Goto(r, "broken")
  /\ UNCHANGED <<log, outcome>>

CloseBroken(r) ==
  /\ up /\ pc[r] = "broken"
  /\ submit(r, "ops", ops_terminal(r, "error"), "await_terminal")
  /\ UNCHANGED <<outcome, answer, scoreQueue, up>>

\* The ops scan or the checkpoint file is unreadable: the exception leaves
\* _handle_search, and no terminal row is ever written.
Raise(r) ==
  /\ up /\ pc[r] = "serve"
  /\ Leave(r, "done")
  /\ answer' = [answer EXCEPT ![r] = "raised"]
  /\ UNCHANGED <<ledgerVars, outcome, scoreQueue, up>>

Accepted_Unacked(r) ==   \* faulty variant: the terminal row does not wait for the receipt
  /\ up /\ pc[r] = "await_accepted"
  /\ submit(r, "ops", ops_terminal(r, outcome[r]), "await_terminal")
  /\ UNCHANGED <<outcome, answer, scoreQueue, up>>

\* _submit_accepted_or_ledger_error, the good case, then the terminal row.
Accepted(r) ==
  /\ up /\ pc[r] = "await_accepted" /\ receipt[r] = "ok"
  /\ submit(r, "ops", ops_terminal(r, outcome[r]), "await_terminal")
  /\ UNCHANGED <<outcome, answer, scoreQueue, up>>

\* The bad cases: after a timeout (only) a response_aborted row follows the
\* late row through the same queue.
AcceptedTimeout(r) ==
  /\ up /\ pc[r] = "await_accepted" /\ TimedOut(r)
  /\ submit_nowait("accepted", response_aborted_row(r))
  /\ Leave(r, "lost_accepted")
  /\ UNCHANGED <<outcome, answer, scoreQueue, up>>

AcceptedUnavailable(r) ==
  /\ up /\ pc[r] = "await_accepted" /\ WriteFailed(r)
  /\ Goto(r, "lost_accepted")
  /\ UNCHANGED <<log, aborts, outcome>>

AbortAccepted(r) ==
  /\ up /\ pc[r] = "lost_accepted"
  /\ mark_abort(r)
  /\ Goto(r, "close_late")
  /\ outcome' = [outcome EXCEPT ![r] = "error"]
  /\ UNCHANGED log

\* _submit_ops_terminal_nowait, then the error response.
CloseLate(r) ==
  /\ up /\ pc[r] = "close_late"
  /\ submit_nowait("ops", ops_terminal(r, "error"))
  /\ Leave(r, "done")
  /\ answer' = [answer EXCEPT ![r] = "error"]
  /\ UNCHANGED <<outcome, scoreQueue, up>>

\* The terminal row is durable: hand a hit to the score worker and answer.
Reply(r) ==
  /\ up /\ pc[r] = "await_terminal" /\ receipt[r] = "ok"
  /\ Leave(r, "done")
  /\ answer' = [answer EXCEPT ![r] = outcome[r]]
  /\ scoreQueue' = IF outcome[r] = "hit" THEN scoreQueue \cup {r} ELSE scoreQueue
  /\ UNCHANGED <<ledgerVars, outcome, up>>

TerminalLost_NoAbort(r) ==   \* faulty variant: a lost terminal row is not aborted
  /\ up /\ pc[r] = "await_terminal" /\ (TimedOut(r) \/ WriteFailed(r))
  /\ Goto(r, "lost_terminal")
  /\ UNCHANGED <<log, aborts, outcome>>

TerminalLost(r) ==
  /\ up /\ pc[r] = "await_terminal" /\ (TimedOut(r) \/ WriteFailed(r))
  /\ mark_abort(r)
  /\ Goto(r, "lost_terminal")
  /\ UNCHANGED <<log, outcome>>

ReplyError(r) ==
  /\ up /\ pc[r] = "lost_terminal"
  /\ Leave(r, "done")
  /\ answer' = [answer EXCEPT ![r] = "error"]
  /\ UNCHANGED <<ledgerVars, outcome, scoreQueue, up>>

-----------------------------------------------------------------------------
(* The process ends: queues and buffers are gone, the files keep `keep`.   *)

Stop(keep) ==
  /\ up' = FALSE
  /\ log' = [s \in Streams |-> SubSeq(log[s], 1, keep[s])]
  /\ taken' = keep /\ written' = keep /\ synced' = keep
  /\ syncing' = [s \in Streams |-> FALSE]
  /\ torn' \in {t \in [Streams -> BOOLEAN] : \A s \in Streams : t[s] => keep[s] < Len(log[s])}
  /\ pc' = [r \in Rid |-> IF pc[r] \in {"new", "done"} THEN pc[r] ELSE "dead"]
  /\ waiting' = [r \in Rid |-> 0]
  /\ receipt' = [r \in Rid |-> "none"]
  /\ scoreQueue' = {}
  /\ UNCHANGED <<aborts, outcome, answer>>

\* _hard_exit(86): any trouble with the started row ends the process.
StartedLost(r) ==
  /\ up /\ pc[r] = "await_started" /\ (TimedOut(r) \/ WriteFailed(r))
  /\ Stop(written)

Kill == up /\ Stop(written)

PowerLoss ==
  /\ up
  /\ \E keep \in [Streams -> UNION {synced[s]..written[s] : s \in Streams}] :
       /\ \A s \in Streams : keep[s] \in synced[s]..written[s]
       /\ Stop(keep)

Restart_NoSeal ==   \* faulty variant: the half row is appended to
  /\ ~up
  /\ up' = TRUE
  /\ UNCHANGED <<ledgerVars, handlerVars>>

\* Ledger.__init__ on the next start: a file that does not end in a newline is
\* renamed away as a sealed segment and a fresh one is opened.
Restart ==
  /\ ~up
  /\ up' = TRUE
  /\ torn' = [s \in Streams |-> FALSE]
  /\ UNCHANGED <<log, taken, written, synced, syncing, aborts, handlerVars>>

-----------------------------------------------------------------------------

Writer(s) == Flush(s) \/ FlushFails(s) \/ Fsync(s) \/ FsyncFails(s)

Handler(r) ==
  \/ Started(r) \/ Accept(r) \/ Break(r) \/ CloseBroken(r) \/ Raise(r)
  \/ Accepted(r) \/ AcceptedTimeout(r) \/ AcceptedUnavailable(r) \/ AbortAccepted(r)
  \/ CloseLate(r) \/ Reply(r) \/ TerminalLost(r) \/ ReplyError(r) \/ StartedLost(r)

Next ==
  \/ \E s \in Streams : Writer(s)
  \/ \E r \in Rid : Start(r) \/ Handler(r)
  \/ Kill \/ PowerLoss \/ Restart

Spec == Init /\ [][Next]_vars

\* A handler is a running thread whose waits are bounded by the 5 s timeout.
\* Nothing is assumed of the writers: they may hang for ever.
FairSpec == Spec /\ \A r \in Rid : WF_vars(Handler(r))

-----------------------------------------------------------------------------
(* What the ledger promises.                                               *)

\* A call that was answered with a hit, or with an empty result, counts as just
\* that in the files for ever after: through late rows of other calls, failed
\* flushes, a kill, a power loss and the sealing of a half row at restart.
AnsweredResultIsRecorded ==
  \A r \in Rid : answer[r] \in {"hit", "abstain_empty"} => effective_status(r) = answer[r]

\* A call that was answered with an error never counts as anything else, even
\* when the rows it stopped waiting for are written later, as long as aborts.log
\* could be written.  This is what mark_abort is for.
AnsweredErrorIsRecorded ==
  \A r \in Rid : answer[r] \in {"error", "raised"} => effective_status(r) = "error"

\* Nothing counts as a hit unless its accepted row, with the candidates to be
\* scored, is readable too: the accepted row is durable before the terminal row
\* is even submitted.  reconcile and materialize rely on it.
HitHasEvidence ==
  \A r \in Rid : effective_status(r) = "hit"
                  => \E i \in Rows("accepted", r, "accepted") : log["accepted"][i].status = "hit"

\* Every trace a call leaves in any file comes after its started row is durable.
\* The query count and every orphan scan enumerate started rows only.
LeavesTrace(r) ==
  \/ r \in aborts
  \/ Rows("ops", r, "terminal") # {}
  \/ Rows("accepted", r, "accepted") # {}
  \/ Rows("accepted", r, "response_aborted") # {}

EvidenceHasStarted == \A r \in Rid : LeavesTrace(r) => Rows("ops", r, "started") # {}

\* The score worker is handed durable hits only.
QueuedIsHit == \A r \in scoreQueue : effective_status(r) = "hit"

\* However long a writer hangs, a call that has begun is answered, or the
\* process ends: no wait in the handler is without a timeout.
EveryCallReturns == \A r \in Rid : pc[r] # "new" ~> pc[r] \in {"done", "dead"}

\* server.py:25 says that the terminal row records the status about to be returned.
\* It does not hold when aborts.log cannot be written: the callers of mark_abort
\* go on, and a late terminal row then says "hit" of a call answered with an error.
ReturnedStatusIsRecorded ==
  \A r \in Rid : answer[r] \in Statuses => effective_status(r) = answer[r]

\* ledger.py:6 says that a row whose write failed is not written any more.  A flush
\* that fails leaves the row in the file object, and the next flush writes it.
FailedRowStaysOut ==
  [][\A r \in Rid : pc[r] \in Awaits /\ WriteFailed(r) /\ up'
       => (written[StreamOf(pc[r])] < waiting[r] => written'[StreamOf(pc[r])] < waiting[r])]_vars

\* What a reader of the ledger may rely on, whatever goes wrong inside.
Outcome == INSTANCE SearchOutcome WITH verdict <- [r \in Rid |-> effective_status(r)]
ImplementsOutcome == Outcome!Spec
===========================================================================
