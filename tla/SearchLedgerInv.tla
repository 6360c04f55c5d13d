-------------------------- MODULE SearchLedgerInv --------------------------
(***************************************************************************)
(* The inductive invariant of SearchLedger: what ties the phase of each    *)
(* handler to the rows it has submitted, wherever these rows are by now -  *)
(* in a queue, in a buffer, in the file or on disk.                        *)
(***************************************************************************)
EXTENDS SearchLedger

\* No row of this kind about r has been submitted to stream s.
No(s, r, k) == \A i \in 1..Len(log[s]) : ~(log[s][i].rid = r /\ log[s][i].kind = k)

OnDisk(s, row) == \E i \in 1..synced[s] : log[s][i] = row

\* A half row is met by a restart, never by a running writer.
TornOnlyDown == \A s \in Streams : torn[s] => ~up

TypeInv == TypeOK /\ TornOnlyDown

\* Between flush and fsync nothing is left in the buffer.
NothingBuffered == \A s \in Streams : syncing[s] => written[s] = taken[s]

AwaitedRow(r) ==
  CASE pc[r] = "await_started"  -> ops_started(r)
    [] pc[r] = "await_accepted" -> accepted_row(r, outcome[r])
    [] pc[r] = "await_terminal" -> ops_terminal(r, outcome[r])

\* A handler waits for a row of its own, and a good receipt means it is on disk.
Awaiting(r) ==
  /\ pc[r] \in {"new", "await_started", "serve", "broken"} => outcome[r] = "error"
  /\ pc[r] \in Awaits =>
       /\ waiting[r] \in 1..Len(log[StreamOf(pc[r])])
       /\ log[StreamOf(pc[r])][waiting[r]] = AwaitedRow(r)
       /\ receipt[r] = "ok" => waiting[r] <= synced[StreamOf(pc[r])]

\* Past its first wait, and before anything else is left anywhere, the started
\* row is on disk.
StartedFirst(r) ==
  (\/ pc[r] \notin {"new", "await_started", "dead"}
   \/ r \in aborts
   \/ ~No("ops", r, "terminal")
   \/ ~No("accepted", r, "accepted")
   \/ ~No("accepted", r, "response_aborted"))
  => OnDisk("ops", ops_started(r))

AtMostOneTerminal(r) ==
  \A i, j \in 1..Len(log["ops"]) :
    /\ log["ops"][i].rid = r /\ log["ops"][i].kind = "terminal"
    /\ log["ops"][j].rid = r /\ log["ops"][j].kind = "terminal"
    => i = j

ErrorTerminalsOnly(r) ==
  \A i \in 1..Len(log["ops"]) :
    log["ops"][i].rid = r /\ log["ops"][i].kind = "terminal" => log["ops"][i].status = "error"

OneTerminal(r) ==
  /\ pc[r] \notin {"await_terminal", "lost_terminal", "done", "dead"} => No("ops", r, "terminal")
  /\ AtMostOneTerminal(r)

\* Nothing that would void the result has been submitted.
Clean(r) ==
  (\/ pc[r] \in {"new", "await_started", "serve", "await_accepted"}
   \/ pc[r] = "await_terminal" /\ outcome[r] # "error"
   \/ answer[r] \in {"hit", "abstain_empty"})
  => r \notin aborts /\ No("accepted", r, "response_aborted")

Answered(r) ==
  /\ answer[r] # "none" => pc[r] = "done"
  /\ answer[r] \in {"hit", "abstain_empty"} => OnDisk("ops", ops_terminal(r, answer[r]))
  /\ r \in scoreQueue => answer[r] = "hit"

\* The terminal row of a hit is submitted when the accepted row is on disk.
Evidence(r) ==
  \A i \in 1..Len(log["ops"]) :
    log["ops"][i] = ops_terminal(r, "hit") => OnDisk("accepted", accepted_row(r, "hit"))

\* With a working aborts.log, what was answered with an error is aborted or has
\* error terminals only.
ErrorKept(r) ==
  AbortMayFail = FALSE =>
    /\ pc[r] = "lost_terminal" => r \in aborts
    /\ answer[r] \in {"error", "raised"} =>
         r \in aborts \/ ErrorTerminalsOnly(r)

RequestInv(r) ==
  /\ Awaiting(r) /\ StartedFirst(r) /\ OneTerminal(r)
  /\ Clean(r) /\ Answered(r) /\ Evidence(r) /\ ErrorKept(r)

\* The inductive invariant.  By itself it says what each phase of a handler knows
\* about rows that no reader has seen yet; the promises of SearchLedger follow.
Inv == TypeInv /\ NothingBuffered /\ \A r \in Rid : RequestInv(r)
===========================================================================
