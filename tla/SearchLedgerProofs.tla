------------------------ MODULE SearchLedgerProofs ------------------------
(***************************************************************************)
(* Proofs about SearchLedger, for any set of requests and whether or not   *)
(* aborts.log can always be written.                                       *)
(***************************************************************************)
EXTENDS SearchLedgerInv, TLAPS

\* Every step of a handler that puts a row on a queue keeps the types.
LEMMA SubmitType ==
  ASSUME TypeInv, NEW s \in Streams, NEW row \in Row, submit_nowait(s, row)
  PROVE  /\ log' \in [Streams -> Seq(Row)]
         /\ \A t \in Streams : Len(log'[t]) >= Len(log[t])
BY DEF TypeInv, TornOnlyDown, TypeOK, submit_nowait, Streams

LEMMA RowsAreRows ==
  ASSUME NEW r \in Rid, NEW st \in Statuses
  PROVE  /\ ops_started(r) \in Row /\ ops_terminal(r, st) \in Row
         /\ accepted_row(r, st) \in Row /\ response_aborted_row(r) \in Row
BY DEF ops_started, ops_terminal, accepted_row, response_aborted_row, Row, Kinds, Statuses

LEMMA SignalType ==
  ASSUME TypeInv, NEW s \in Streams, NEW i, NEW res \in {"ok", "failed"}, Signal(s, i, res)
  PROVE  receipt' \in [Rid -> {"none", "ok", "failed"}]
BY DEF TypeInv, TornOnlyDown, TypeOK, Signal

\* Truncating the streams to what survives keeps the types.
LEMMA StopType ==
  ASSUME TypeInv, NEW keep \in [Streams -> Nat], \A s \in Streams : keep[s] <= written[s],
         Stop(keep)
  PROVE  TypeInv'
<1>1. \A s \in Streams : keep[s] \in 0..Len(log[s])
  BY DEF TypeInv, TornOnlyDown, TypeOK
<1>2. \A s \in Streams : /\ SubSeq(log[s], 1, keep[s]) \in Seq(Row)
                         /\ Len(SubSeq(log[s], 1, keep[s])) = keep[s]
  <2> SUFFICES ASSUME NEW s \in Streams
               PROVE  /\ SubSeq(log[s], 1, keep[s]) \in Seq(Row)
                      /\ Len(SubSeq(log[s], 1, keep[s])) = keep[s]
    OBVIOUS
  <2>1. log[s] \in Seq(Row) /\ keep[s] \in 0..Len(log[s])
    BY <1>1 DEF TypeInv, TornOnlyDown, TypeOK
  <2> QED BY <2>1
<1>3. log' \in [Streams -> Seq(Row)] /\ \A s \in Streams : Len(log'[s]) = keep[s]
  BY <1>2 DEF Stop
<1>4. pc' \in [Rid -> Phases]
  BY DEF Stop, TypeInv, TornOnlyDown, TypeOK, Phases
<1>5. torn' \in [Streams -> BOOLEAN] /\ TornOnlyDown'
  BY DEF Stop, TornOnlyDown
<1>6. \A s \in Streams : /\ synced'[s] <= written'[s] /\ written'[s] <= taken'[s]
                         /\ taken'[s] <= Len(log'[s])
  BY <1>3 DEF Stop
<1>7. /\ taken' \in [Streams -> Nat] /\ written' \in [Streams -> Nat]
      /\ synced' \in [Streams -> Nat] /\ syncing' \in [Streams -> BOOLEAN]
      /\ waiting' \in [Rid -> Nat] /\ receipt' \in [Rid -> {"none", "ok", "failed"}]
      /\ scoreQueue' \subseteq Rid /\ up' \in BOOLEAN
  BY DEF Stop
<1>8. aborts' \subseteq Rid /\ outcome' = outcome /\ answer' = answer
  BY DEF Stop, TypeInv, TornOnlyDown, TypeOK
<1> QED BY <1>3, <1>4, <1>5, <1>6, <1>7, <1>8 DEF TypeOK, TypeInv

LEMMA InitType == Init => TypeInv
BY DEF Init, TypeInv, TornOnlyDown, TypeOK, Phases, Statuses, Streams

LEMMA WriterType ==
  ASSUME TypeInv, NEW s \in Streams, Writer(s)
  PROVE  TypeInv'
<1>1. CASE Flush(s)
  <2>1. log' = log
    BY <1>1 DEF Flush, Glue, TypeInv, TornOnlyDown
  <2> QED BY <1>1, <2>1 DEF Flush, TypeInv, TornOnlyDown, TypeOK, handlerVars
<1>2. CASE FlushFails(s)
  <2>1. PICK n \in written[s]..taken[s] : written' = [written EXCEPT ![s] = n]
    BY <1>2 DEF FlushFails
  <2>2. receipt' \in [Rid -> {"none", "ok", "failed"}]
    BY <1>2, SignalType DEF FlushFails
  <2>3. written' \in [Streams -> Nat]
    BY <2>1 DEF TypeInv, TornOnlyDown, TypeOK
  <2> QED BY <1>2, <2>1, <2>2, <2>3 DEF FlushFails, TypeInv, TornOnlyDown, TypeOK
<1>3. CASE Fsync(s)
  <2>1. receipt' \in [Rid -> {"none", "ok", "failed"}]
    BY <1>3, SignalType DEF Fsync
  <2> QED BY <1>3, <2>1 DEF Fsync, TypeInv, TornOnlyDown, TypeOK
<1>4. CASE FsyncFails(s)
  <2>1. receipt' \in [Rid -> {"none", "ok", "failed"}]
    BY <1>4, SignalType DEF FsyncFails
  <2> QED BY <1>4, <2>1 DEF FsyncFails, TypeInv, TornOnlyDown, TypeOK
<1> QED BY <1>1, <1>2, <1>3, <1>4 DEF Writer

\* What every action that only moves one handler keeps.
LEMMA LeaveType ==
  ASSUME TypeInv, NEW r \in Rid, NEW p \in Phases, Leave(r, p)
  PROVE  /\ pc' \in [Rid -> Phases]
         /\ waiting' \in [Rid -> Nat]
         /\ receipt' \in [Rid -> {"none", "ok", "failed"}]
BY DEF TypeInv, TypeOK, Leave

LEMMA AbortType ==
  ASSUME TypeInv, NEW r \in Rid, mark_abort(r)
  PROVE  aborts' \subseteq Rid
BY DEF TypeInv, TypeOK, mark_abort

\* Putting a row on a queue and waiting for it keeps the types.
LEMMA AwaitType ==
  ASSUME TypeInv, NEW r \in Rid, NEW s \in Streams, NEW row \in Row, NEW p \in Phases,
         submit(r, s, row, p),
         outcome' \in [Rid -> Statuses], UNCHANGED <<answer, scoreQueue, up>>
  PROVE  TypeInv'
<1>1. submit_nowait(s, row)
  BY DEF submit
<1>2. log' \in [Streams -> Seq(Row)] /\ \A t \in Streams : Len(log'[t]) >= Len(log[t])
  BY <1>1, SubmitType
<1>3. /\ pc' \in [Rid -> Phases] /\ waiting' \in [Rid -> Nat]
      /\ receipt' \in [Rid -> {"none", "ok", "failed"}]
  <2>1. Len(log[s]) + 1 \in Nat
    BY DEF TypeInv, TypeOK
  <2> QED BY <2>1 DEF submit, TypeInv, TypeOK
<1>4. \A t \in Streams : /\ synced'[t] <= written'[t] /\ written'[t] <= taken'[t]
                         /\ taken'[t] <= Len(log'[t])
  <2> SUFFICES ASSUME NEW t \in Streams
               PROVE  synced[t] <= written[t] /\ written[t] <= taken[t] /\ taken[t] <= Len(log'[t])
    BY <1>1 DEF submit_nowait
  <2>1. taken[t] \in Nat /\ Len(log[t]) \in Nat /\ Len(log'[t]) \in Nat
    BY <1>2 DEF TypeInv, TypeOK
  <2> QED BY <1>2, <2>1 DEF TypeInv, TypeOK
<1>5. torn' = torn /\ TornOnlyDown'
  BY <1>1 DEF submit_nowait, TypeInv, TornOnlyDown
<1> QED BY <1>1, <1>2, <1>3, <1>4, <1>5 DEF submit_nowait, TypeInv, TypeOK

\* Leaving a wait with no row submitted keeps the types.
LEMMA MoveType ==
  ASSUME TypeInv, NEW r \in Rid, NEW p \in Phases, Leave(r, p),
         UNCHANGED <<log, taken, written, synced, syncing, torn, up>>,
         aborts' \subseteq Rid, outcome' \in [Rid -> Statuses],
         answer' \in [Rid -> Statuses \cup {"none", "raised"}], scoreQueue' \subseteq Rid
  PROVE  TypeInv'
<1>1. TypeOK'
  BY LeaveType DEF TypeInv, TypeOK
<1> QED BY <1>1 DEF TypeInv, TornOnlyDown

\* Leaving a wait while putting a row on a queue keeps the types.
LEMMA MoveSubmitType ==
  ASSUME TypeInv, NEW r \in Rid, NEW p \in Phases, Leave(r, p),
         NEW s \in Streams, NEW row \in Row, submit_nowait(s, row),
         UNCHANGED <<outcome, scoreQueue, up>>,
         answer' \in [Rid -> Statuses \cup {"none", "raised"}]
  PROVE  TypeInv'
<1>1. log' \in [Streams -> Seq(Row)] /\ \A t \in Streams : Len(log'[t]) >= Len(log[t])
  BY SubmitType
<1>2. \A t \in Streams : /\ synced'[t] <= written'[t] /\ written'[t] <= taken'[t]
                         /\ taken'[t] <= Len(log'[t])
  <2> SUFFICES ASSUME NEW t \in Streams
               PROVE  synced[t] <= written[t] /\ written[t] <= taken[t] /\ taken[t] <= Len(log'[t])
    BY DEF submit_nowait
  <2>1. taken[t] \in Nat /\ Len(log[t]) \in Nat /\ Len(log'[t]) \in Nat
    BY <1>1 DEF TypeInv, TypeOK
  <2> QED BY <1>1, <2>1 DEF TypeInv, TypeOK
<1>3. torn' = torn /\ TornOnlyDown'
  BY DEF submit_nowait, TypeInv, TornOnlyDown
<1> QED BY <1>1, <1>2, <1>3, LeaveType DEF submit_nowait, TypeInv, TypeOK

LEMMA HandlerType ==
  ASSUME TypeInv, NEW r \in Rid, Start(r) \/ Handler(r)
  PROVE  TypeInv'
<1> USE DEF Phases, Awaits
<1>a. "ops" \in Streams /\ "accepted" \in Streams /\ "error" \in Statuses
  BY DEF Streams, Statuses
<1>b. outcome[r] \in Statuses /\ answer \in [Rid -> Statuses \cup {"none", "raised"}]
  BY DEF TypeInv, TypeOK
<1>c. outcome \in [Rid -> Statuses] /\ aborts \subseteq Rid /\ scoreQueue \subseteq Rid
  BY DEF TypeInv, TypeOK
<1>1. CASE Start(r)
  BY <1>1, <1>a, <1>c, RowsAreRows, AwaitType DEF Start
<1>2. CASE Started(r)
  BY <1>2, <1>b, <1>c, MoveType DEF Started, Goto
<1>3. CASE Accept(r)
  <2>1. PICK st \in Statuses : /\ outcome' = [outcome EXCEPT ![r] = st]
                               /\ submit(r, "accepted", accepted_row(r, st), "await_accepted")
    BY <1>3 DEF Accept
  <2>2. outcome' \in [Rid -> Statuses]
    BY <2>1, <1>c
  <2> QED BY <1>3, <1>a, <2>1, <2>2, RowsAreRows, AwaitType DEF Accept
<1>4. CASE Break(r)
  BY <1>4, <1>b, <1>c, MoveType, AbortType DEF Break, Goto
<1>5. CASE CloseBroken(r)
  BY <1>5, <1>a, <1>c, RowsAreRows, AwaitType DEF CloseBroken
<1>6. CASE Raise(r)
  BY <1>6, <1>b, <1>c, MoveType DEF Raise, ledgerVars
<1>7. CASE Accepted(r)
  BY <1>7, <1>a, <1>b, <1>c, RowsAreRows, AwaitType DEF Accepted
<1>8. CASE AcceptedTimeout(r)
  BY <1>8, <1>a, <1>b, RowsAreRows, MoveSubmitType DEF AcceptedTimeout
<1>9. CASE AcceptedUnavailable(r)
  BY <1>9, <1>b, <1>c, MoveType DEF AcceptedUnavailable, Goto
<1>10. CASE AbortAccepted(r)
  <2>1. outcome' \in [Rid -> Statuses]
    BY <1>10, <1>a, <1>c DEF AbortAccepted
  <2> QED BY <1>10, <1>b, <1>c, <2>1, MoveType, AbortType DEF AbortAccepted, Goto
<1>11. CASE CloseLate(r)
  <2>1. answer' \in [Rid -> Statuses \cup {"none", "raised"}]
    BY <1>11, <1>a, <1>b DEF CloseLate
  <2> QED BY <1>11, <1>a, <2>1, RowsAreRows, MoveSubmitType DEF CloseLate
<1>12. CASE Reply(r)
  <2>1. /\ answer' \in [Rid -> Statuses \cup {"none", "raised"}]
        /\ scoreQueue' \subseteq Rid
    BY <1>12, <1>b, <1>c DEF Reply
  <2> QED BY <1>12, <1>c, <2>1, MoveType DEF Reply, ledgerVars
<1>13. CASE TerminalLost(r)
  BY <1>13, <1>b, <1>c, MoveType, AbortType DEF TerminalLost, Goto
<1>14. CASE ReplyError(r)
  <2>1. answer' \in [Rid -> Statuses \cup {"none", "raised"}]
    BY <1>14, <1>a, <1>b DEF ReplyError
  <2> QED BY <1>14, <1>c, <2>1, MoveType DEF ReplyError, ledgerVars
<1>15. CASE StartedLost(r)
  <2>1. /\ Stop(written) /\ written \in [Streams -> Nat]
        /\ \A s \in Streams : written[s] <= written[s]
    BY <1>15 DEF StartedLost, TypeInv, TypeOK
  <2> QED BY <2>1, StopType
<1> QED BY <1>1, <1>2, <1>3, <1>4, <1>5, <1>6, <1>7, <1>8, <1>9, <1>10, <1>11, <1>12,
           <1>13, <1>14, <1>15 DEF Handler

LEMMA NextType ==
  ASSUME TypeInv, [Next]_vars
  PROVE  TypeInv'
<1>1. CASE \E s \in Streams : Writer(s)
  BY <1>1, WriterType
<1>2. CASE \E r \in Rid : Start(r) \/ Handler(r)
  BY <1>2, HandlerType
<1>3. CASE Kill
  <2>1. /\ Stop(written) /\ written \in [Streams -> Nat]
        /\ \A s \in Streams : written[s] <= written[s]
    BY <1>3 DEF Kill, TypeInv, TypeOK
  <2> QED BY <2>1, StopType
<1>4. CASE PowerLoss
  <2>1. PICK keep \in [Streams -> UNION {synced[s]..written[s] : s \in Streams}] :
          (\A s \in Streams : keep[s] \in synced[s]..written[s]) /\ Stop(keep)
    BY <1>4 DEF PowerLoss
  <2>2. \A s \in Streams : keep[s] \in Nat /\ keep[s] <= written[s]
    BY <2>1 DEF TypeInv, TypeOK
  <2>3. keep \in [Streams -> Nat]
    BY <2>2
  <2> QED BY <2>1, <2>2, <2>3, StopType
<1>5. CASE Restart
  BY <1>5 DEF Restart, handlerVars, TypeInv, TypeOK, TornOnlyDown
<1>6. CASE UNCHANGED vars
  BY <1>6 DEF vars, ledgerVars, handlerVars, TypeInv, TypeOK, TornOnlyDown
<1> QED BY <1>1, <1>2, <1>3, <1>4, <1>5, <1>6 DEF Next

\* Type correctness, with the order synced <= written <= taken <= submitted that
\* splits every stream, holds whatever the number of requests.
THEOREM TypeCorrect == Spec => []TypeOK
<1>1. Spec => []TypeInv
  BY InitType, NextType, PTL DEF Spec
<1>2. TypeInv => TypeOK
  BY DEF TypeInv
<1> QED BY <1>1, <1>2, PTL

-----------------------------------------------------------------------------
(* The inductive invariant: one step of the system is one handler's own      *)
(* step, or leaves every request alone in the sense of Frame.                *)

\* What a step that is not the handler of r does to what RequestInv(r) reads.
Frame(r) ==
  /\ pc'[r] = pc[r] /\ waiting'[r] = waiting[r]
  /\ outcome'[r] = outcome[r] /\ answer'[r] = answer[r]
  /\ r \in aborts' <=> r \in aborts
  /\ r \in scoreQueue' => r \in scoreQueue
  /\ \A s \in Streams :
       /\ Len(log'[s]) >= Len(log[s])
       /\ \A i \in 1..Len(log[s]) : log'[s][i] = log[s][i]
       /\ \A i \in 1..Len(log'[s]) : i > Len(log[s]) => log'[s][i].rid # r
       /\ synced'[s] >= synced[s]
  /\ pc[r] \in Awaits /\ receipt'[r] = "ok"
       => receipt[r] = "ok" \/ waiting[r] <= synced'[StreamOf(pc[r])]

\* Rows of r appear and disappear in its own steps only.
LEMMA FrameRows ==
  ASSUME TypeInv, TypeInv', NEW r \in Rid, Frame(r)
  PROVE  /\ \A s \in Streams, k \in Kinds : No(s, r, k)' <=> No(s, r, k)
         /\ \A s \in Streams, row \in Row : OnDisk(s, row) => OnDisk(s, row)'
<1>1. ASSUME NEW s \in Streams, NEW k \in Kinds
      PROVE  No(s, r, k)' <=> No(s, r, k)
  <2>1. Len(log[s]) \in Nat /\ Len(log'[s]) \in Nat
    BY DEF TypeInv, TypeOK
  <2>2. \A i \in 1..Len(log[s]) : i \in 1..Len(log'[s]) /\ log'[s][i] = log[s][i]
    BY <2>1 DEF Frame
  <2>3. \A i \in 1..Len(log'[s]) : i \in 1..Len(log[s]) \/ log'[s][i].rid # r
    BY <2>1 DEF Frame
  <2> QED BY <2>2, <2>3 DEF No
<1>2. ASSUME NEW s \in Streams, NEW row \in Row, OnDisk(s, row)
      PROVE  OnDisk(s, row)'
  <2>1. PICK i \in 1..synced[s] : log[s][i] = row
    BY <1>2 DEF OnDisk
  <2>2. i \in 1..Len(log[s]) /\ i \in 1..synced'[s]
    BY DEF TypeInv, TypeOK, Frame
  <2> QED BY <2>1, <2>2 DEF OnDisk, Frame
<1> QED BY <1>1, <1>2

LEMMA FrameKeeps ==
  ASSUME TypeInv, TypeInv', NEW r \in Rid, Frame(r), RequestInv(r)
  PROVE  RequestInv(r)'
<1> USE DEF RequestInv
<1>a. "ops" \in Streams /\ "accepted" \in Streams /\ StreamOf(pc[r]) \in Streams
  BY DEF Streams, StreamOf
<1>b. /\ outcome[r] \in Statuses /\ "terminal" \in Kinds /\ "accepted" \in Kinds
      /\ "response_aborted" \in Kinds /\ "hit" \in Statuses
      /\ answer[r] \in {"hit", "abstain_empty"} => answer[r] \in Statuses
  BY DEF TypeInv, TypeOK, Kinds, Statuses
<1>c. StreamOf(pc'[r]) = StreamOf(pc[r]) /\ AwaitedRow(r)' = AwaitedRow(r)
  BY DEF Frame, AwaitedRow, StreamOf
<1>d. \A s \in Streams : /\ Len(log[s]) \in Nat /\ Len(log'[s]) \in Nat
                         /\ synced[s] \in Nat /\ synced'[s] \in Nat /\ waiting[r] \in Nat
  BY DEF TypeInv, TypeOK
<1>1. Awaiting(r)'
  <2>1. pc'[r] \in Awaits =>
          waiting'[r] \in 1..Len(log'[StreamOf(pc'[r])])
          /\ log'[StreamOf(pc'[r])][waiting'[r]] = AwaitedRow(r)'
    BY <1>a, <1>c, <1>d DEF Frame, Awaiting
  <2>2. pc'[r] \in Awaits /\ receipt'[r] = "ok" => waiting'[r] <= synced'[StreamOf(pc'[r])]
    BY <1>a, <1>c, <1>d DEF Frame, Awaiting
  <2> QED BY <2>1, <2>2 DEF Frame, Awaiting
<1>2. StartedFirst(r)'
  BY <1>a, <1>b, FrameRows, RowsAreRows DEF Frame, StartedFirst
<1>3. OneTerminal(r)'
  <2>1. No("ops", r, "terminal") => No("ops", r, "terminal")'
    BY <1>a, <1>b, FrameRows
  <2>2. \A i \in 1..Len(log'["ops"]) :
          log'["ops"][i].rid = r => i \in 1..Len(log["ops"]) /\ log'["ops"][i] = log["ops"][i]
    BY <1>a, <1>d DEF Frame
  <2> QED BY <2>1, <2>2 DEF OneTerminal, AtMostOneTerminal, Frame
<1>4. Clean(r)'
  BY <1>a, <1>b, FrameRows DEF Frame, Clean
<1>5. Answered(r)'
  <2>1. answer[r] \in {"hit", "abstain_empty"} => ops_terminal(r, answer[r]) \in Row
    BY <1>b, RowsAreRows
  <2>2. OnDisk("ops", ops_terminal(r, answer[r])) /\ ops_terminal(r, answer[r]) \in Row
          => OnDisk("ops", ops_terminal(r, answer[r]))'
    <3> DEFINE row == ops_terminal(r, answer[r])
    <3>1. row' = row
      BY DEF Frame, ops_terminal
    <3>2. row \in Row /\ OnDisk("ops", row) => \E i \in 1..synced'["ops"] : log'["ops"][i] = row
      BY <1>a, FrameRows DEF OnDisk
    <3> QED BY <3>1, <3>2 DEF OnDisk
  <2> QED BY <2>1, <2>2 DEF Answered, Frame
<1>6. Evidence(r)'
  <2>1. \A i \in 1..Len(log'["ops"]) :
          log'["ops"][i].rid = r => i \in 1..Len(log["ops"]) /\ log'["ops"][i] = log["ops"][i]
    BY <1>a, <1>d DEF Frame
  <2>2. OnDisk("accepted", accepted_row(r, "hit")) => OnDisk("accepted", accepted_row(r, "hit"))'
    BY <1>a, <1>b, FrameRows, RowsAreRows
  <2>3. ops_terminal(r, "hit").rid = r
    BY DEF ops_terminal
  <2> QED BY <2>1, <2>2, <2>3 DEF Evidence
<1>7. ErrorKept(r)'
  <2>1. \A i \in 1..Len(log'["ops"]) :
          log'["ops"][i].rid = r => i \in 1..Len(log["ops"]) /\ log'["ops"][i] = log["ops"][i]
    BY <1>a, <1>d DEF Frame
  <2> QED BY <2>1 DEF ErrorKept, ErrorTerminalsOnly, Frame
<1> QED BY <1>1, <1>2, <1>3, <1>4, <1>5, <1>6, <1>7

\* The writers touch no request but through its receipt, and a good receipt is
\* for a row that is on disk.
LEMMA WriterFrame ==
  ASSUME TypeInv, NothingBuffered, NEW s \in Streams, Writer(s)
  PROVE  NothingBuffered' /\ \A r \in Rid : Frame(r)
<1>a. log' = log
  BY DEF Writer, Flush, FlushFails, Fsync, FsyncFails, Glue, TypeInv, TornOnlyDown
<1>b. UNCHANGED <<pc, waiting, outcome, answer, aborts, scoreQueue>>
  BY DEF Writer, Flush, FlushFails, Fsync, FsyncFails, handlerVars
<1>c. \A t \in Streams : /\ Len(log[t]) \in Nat /\ synced[t] \in Nat /\ written[t] \in Nat
                         /\ taken[t] \in Nat /\ synced[t] <= written[t]
  BY DEF TypeInv, TypeOK
<1>d. \A t \in Streams : synced'[t] >= synced[t]
  <2>1. synced' = synced \/ synced' = [synced EXCEPT ![s] = written[s]]
    BY DEF Writer, Flush, FlushFails, Fsync, FsyncFails
  <2>2. synced \in [Streams -> Nat]
    BY DEF TypeInv, TypeOK
  <2>3. ASSUME NEW t \in Streams
        PROVE  synced'[t] = synced[t] \/ (t = s /\ synced'[t] = written[t])
    BY <2>1, <2>2
  <2> QED BY <1>c, <2>3
<1>1. NothingBuffered'
  <2>1. CASE Flush(s)
    BY <2>1, <1>c DEF Flush, NothingBuffered, TypeInv, TypeOK
  <2>2. CASE FlushFails(s)
    BY <2>2 DEF FlushFails, NothingBuffered, TypeInv, TypeOK
  <2>3. CASE Fsync(s)
    BY <2>3 DEF Fsync, NothingBuffered, TypeInv, TypeOK
  <2>4. CASE FsyncFails(s)
    BY <2>4 DEF FsyncFails, NothingBuffered, TypeInv, TypeOK
  <2> QED BY <2>1, <2>2, <2>3, <2>4 DEF Writer
<1>2. ASSUME NEW r \in Rid, pc[r] \in Awaits, receipt'[r] = "ok"
      PROVE  receipt[r] = "ok" \/ waiting[r] <= synced'[StreamOf(pc[r])]
  <2>1. CASE Flush(s)
    BY <2>1, <1>2 DEF Flush, handlerVars
  <2>2. CASE FlushFails(s)
    BY <2>2, <1>2 DEF FlushFails, Signal, TypeInv, TypeOK
  <2>3. CASE Fsync(s)
    <3>1. synced'[s] = taken[s]
      BY <2>3 DEF Fsync, NothingBuffered, TypeInv, TypeOK
    <3> QED BY <2>3, <1>2, <1>c, <3>1 DEF Fsync, Signal
  <2>4. CASE FsyncFails(s)
    BY <2>4, <1>2 DEF FsyncFails, Signal, TypeInv, TypeOK
  <2> QED BY <2>1, <2>2, <2>3, <2>4 DEF Writer
<1>3. ASSUME NEW r \in Rid
      PROVE  Frame(r)
  BY <1>a, <1>b, <1>c, <1>d, <1>2 DEF Frame
<1> QED BY <1>1, <1>3

\* What submitting one row changes: its own stream, by that row at the end.
LEMMA SubmitRows ==
  ASSUME TypeInv, NEW s \in Streams, NEW row \in Row, submit_nowait(s, row)
  PROVE  /\ Len(log'[s]) = Len(log[s]) + 1 /\ log'[s][Len(log[s]) + 1] = row
         /\ \A i \in 1..Len(log[s]) : log'[s][i] = log[s][i]
         /\ \A t \in Streams : t # s => log'[t] = log[t]
         /\ synced' = synced /\ aborts' = aborts
         /\ \A t \in Streams, q \in Rid, k \in Kinds :
              t # s \/ row.rid # q \/ row.kind # k => (No(t, q, k)' <=> No(t, q, k))
         /\ \A t \in Streams, x \in Row : OnDisk(t, x) <=> OnDisk(t, x)'
<1>0. log[s] \in Seq(Row) /\ Len(log[s]) \in Nat /\ log \in [Streams -> Seq(Row)]
  BY DEF TypeInv, TypeOK
<1>1. log' = [log EXCEPT ![s] = Append(@, row)] /\ synced' = synced /\ aborts' = aborts
  BY DEF submit_nowait
<1>2. /\ Len(log'[s]) = Len(log[s]) + 1 /\ log'[s][Len(log[s]) + 1] = row
      /\ \A i \in 1..Len(log[s]) : log'[s][i] = log[s][i]
      /\ \A t \in Streams : t # s => log'[t] = log[t]
  BY <1>0, <1>1
<1>3. ASSUME NEW t \in Streams, NEW q \in Rid, NEW k \in Kinds,
             t # s \/ row.rid # q \/ row.kind # k
      PROVE  No(t, q, k)' <=> No(t, q, k)
  <2>1. CASE t # s
    BY <2>1, <1>2 DEF No
  <2>2. CASE t = s
    <3>1. \A i \in 1..Len(log'[s]) : i \in 1..Len(log[s]) \/ log'[s][i] = row
      BY <1>0, <1>2
    <3>2. \A i \in 1..Len(log[s]) : i \in 1..Len(log'[s])
      BY <1>0, <1>2
    <3> QED BY <1>2, <1>3, <2>2, <3>1, <3>2 DEF No
  <2> QED BY <2>1, <2>2
<1>4. ASSUME NEW t \in Streams, NEW x \in Row
      PROVE  OnDisk(t, x) <=> OnDisk(t, x)'
  <2>1. \A i \in 1..synced[t] : i \in 1..Len(log[t])
    BY DEF TypeInv, TypeOK
  <2> QED BY <1>1, <1>2, <2>1 DEF OnDisk
<1> QED BY <1>1, <1>2, <1>3, <1>4

\* The three shapes of a handler's step leave all other requests alone.
LEMMA AwaitFrame ==
  ASSUME TypeInv, NothingBuffered, NEW r \in Rid, NEW s \in Streams, NEW row \in Row,
         row.rid = r, NEW p \in Phases, submit(r, s, row, p),
         \A q \in Rid \ {r} : outcome'[q] = outcome[q], UNCHANGED <<answer, scoreQueue, up>>
  PROVE  NothingBuffered' /\ \A q \in Rid \ {r} : Frame(q)
<1>1. submit_nowait(s, row)
  BY DEF submit
<1>2. \A t \in Streams : Len(log[t]) \in Nat /\ synced[t] \in Nat
  BY DEF TypeInv, TypeOK
<1>3. \A q \in Rid \ {r} : pc'[q] = pc[q] /\ waiting'[q] = waiting[q] /\ receipt'[q] = receipt[q]
  BY DEF submit, TypeInv, TypeOK
<1>4. NothingBuffered'
  BY <1>1 DEF submit_nowait, NothingBuffered
<1>5. \A t \in Streams : \A i \in 1..Len(log'[t]) : i > Len(log[t]) => log'[t][i].rid = r
  BY <1>1, <1>2, SubmitRows
<1>6. \A t \in Streams : /\ Len(log'[t]) >= Len(log[t]) /\ synced'[t] >= synced[t]
                         /\ \A i \in 1..Len(log[t]) : log'[t][i] = log[t][i]
  BY <1>1, <1>2, SubmitRows
<1> QED BY <1>1, <1>3, <1>4, <1>5, <1>6 DEF Frame, submit_nowait

LEMMA MoveFrame ==
  ASSUME TypeInv, NothingBuffered, NEW r \in Rid, NEW p \in Phases, Leave(r, p),
         UNCHANGED <<log, taken, written, synced, syncing, torn, up>>,
         \A q \in Rid \ {r} : /\ outcome'[q] = outcome[q] /\ answer'[q] = answer[q]
                              /\ q \in aborts' <=> q \in aborts
                              /\ q \in scoreQueue' => q \in scoreQueue
  PROVE  NothingBuffered' /\ \A q \in Rid \ {r} : Frame(q)
<1>1. \A t \in Streams : Len(log[t]) \in Nat /\ synced[t] \in Nat
  BY DEF TypeInv, TypeOK
<1>2. \A q \in Rid \ {r} : pc'[q] = pc[q] /\ waiting'[q] = waiting[q] /\ receipt'[q] = receipt[q]
  BY DEF Leave, TypeInv, TypeOK
<1>3. NothingBuffered'
  BY DEF NothingBuffered
<1> QED BY <1>1, <1>2, <1>3 DEF Frame

LEMMA MoveSubmitFrame ==
  ASSUME TypeInv, NothingBuffered, NEW r \in Rid, NEW p \in Phases, Leave(r, p),
         NEW s \in Streams, NEW row \in Row, row.rid = r, submit_nowait(s, row),
         UNCHANGED <<outcome, scoreQueue, up>>, \A q \in Rid \ {r} : answer'[q] = answer[q]
  PROVE  NothingBuffered' /\ \A q \in Rid \ {r} : Frame(q)
<1>2. \A t \in Streams : Len(log[t]) \in Nat /\ synced[t] \in Nat
  BY DEF TypeInv, TypeOK
<1>3. \A q \in Rid \ {r} : pc'[q] = pc[q] /\ waiting'[q] = waiting[q] /\ receipt'[q] = receipt[q]
  BY DEF Leave, TypeInv, TypeOK
<1>4. NothingBuffered'
  BY DEF submit_nowait, NothingBuffered
<1>5. \A t \in Streams : \A i \in 1..Len(log'[t]) : i > Len(log[t]) => log'[t][i].rid = r
  BY <1>2, SubmitRows
<1>6. \A t \in Streams : /\ Len(log'[t]) >= Len(log[t]) /\ synced'[t] >= synced[t]
                         /\ \A i \in 1..Len(log[t]) : log'[t][i] = log[t][i]
  BY <1>2, SubmitRows
<1> QED BY <1>3, <1>4, <1>5, <1>6 DEF Frame, submit_nowait

LEMMA SameRows ==
  ASSUME UNCHANGED <<log, synced>>
  PROVE  /\ \A s \in Streams, r \in Rid, k \in Kinds : No(s, r, k)' <=> No(s, r, k)
         /\ \A s \in Streams, x \in Row : OnDisk(s, x)' <=> OnDisk(s, x)
BY DEF No, OnDisk

\* A good receipt puts the awaited row on disk.
LEMMA ReceiptOnDisk ==
  ASSUME TypeInv, NEW r \in Rid, Awaiting(r), pc[r] \in Awaits, receipt[r] = "ok"
  PROVE  OnDisk(StreamOf(pc[r]), AwaitedRow(r))
<1>1. waiting[r] \in 1..synced[StreamOf(pc[r])]
  <2>1. StreamOf(pc[r]) \in Streams
    BY DEF StreamOf, Streams
  <2>2. /\ Len(log[StreamOf(pc[r])]) \in Nat /\ synced[StreamOf(pc[r])] \in Nat
        /\ waiting[r] \in Nat
    BY <2>1 DEF TypeInv, TypeOK
  <2> QED BY <2>2 DEF Awaiting
<1> QED BY <1>1 DEF Awaiting, OnDisk

\* The steps of a handler that submit no row.
LEMMA MoveKeeps ==
  ASSUME TypeInv, NEW r \in Rid, RequestInv(r),
         \/ Started(r) \/ Break(r) \/ Raise(r) \/ AcceptedUnavailable(r)
         \/ AbortAccepted(r) \/ Reply(r) \/ TerminalLost(r) \/ ReplyError(r)
  PROVE  RequestInv(r)'
<1> USE DEF RequestInv, Awaits
<1>a. "ops" \in Streams /\ "accepted" \in Streams
  BY DEF Streams
<1>b. "terminal" \in Kinds /\ "accepted" \in Kinds /\ "response_aborted" \in Kinds
  BY DEF Kinds
<1>c. "hit" \in Statuses /\ "abstain_empty" \in Statuses /\ "error" \in Statuses
  BY DEF Statuses
<1>d. UNCHANGED <<log, synced>>
  BY DEF Started, Break, Raise, AcceptedUnavailable, AbortAccepted, Reply, TerminalLost,
         ReplyError, Goto, ledgerVars
<1>e. /\ No("ops", r, "terminal")' <=> No("ops", r, "terminal")
      /\ No("accepted", r, "accepted")' <=> No("accepted", r, "accepted")
      /\ No("accepted", r, "response_aborted")' <=> No("accepted", r, "response_aborted")
      /\ OnDisk("ops", ops_started(r))' <=> OnDisk("ops", ops_started(r))
      /\ OnDisk("accepted", accepted_row(r, "hit"))' <=> OnDisk("accepted", accepted_row(r, "hit"))
      /\ \A st \in Statuses : OnDisk("ops", ops_terminal(r, st))' <=> OnDisk("ops", ops_terminal(r, st))
  BY <1>a, <1>b, <1>c, <1>d, SameRows, RowsAreRows
<1>f. Evidence(r)'
  BY <1>d, <1>e DEF Evidence
<1>g. /\ pc \in [Rid -> Phases] /\ answer \in [Rid -> Statuses \cup {"none", "raised"}]
      /\ outcome \in [Rid -> Statuses]
  BY DEF TypeInv, TypeOK
<1> USE DEF Leave, Goto, ledgerVars
<1>1. CASE Started(r)
  <2>1. OnDisk("ops", ops_started(r))
    BY <1>1, ReceiptOnDisk DEF Started, AwaitedRow, StreamOf
  <2> QED BY <1>1, <1>d, <1>e, <1>f, <1>g, <2>1
          DEF Started, Awaiting, StartedFirst, OneTerminal, AtMostOneTerminal, Clean, Answered, ErrorKept, ErrorTerminalsOnly
<1>2. CASE Break(r)
  BY <1>2, <1>d, <1>e, <1>f, <1>g
  DEF Break, mark_abort, Awaiting, StartedFirst, OneTerminal, AtMostOneTerminal, Clean, Answered, ErrorKept, ErrorTerminalsOnly
<1>3. CASE Raise(r)
  BY <1>3, <1>d, <1>e, <1>f, <1>g
  DEF Raise, No, Awaiting, StartedFirst, OneTerminal, AtMostOneTerminal, Clean, Answered, ErrorKept, ErrorTerminalsOnly
<1>4. CASE AcceptedUnavailable(r)
  BY <1>4, <1>d, <1>e, <1>f, <1>g
  DEF AcceptedUnavailable, Awaiting, StartedFirst, OneTerminal, AtMostOneTerminal, Clean, Answered, ErrorKept, ErrorTerminalsOnly
<1>5. CASE AbortAccepted(r)
  BY <1>5, <1>d, <1>e, <1>f, <1>g
  DEF AbortAccepted, mark_abort, Awaiting, StartedFirst, OneTerminal, AtMostOneTerminal, Clean, Answered, ErrorKept, ErrorTerminalsOnly
<1>6. CASE Reply(r)
  <2>1. OnDisk("ops", ops_terminal(r, outcome[r]))
    BY <1>6, ReceiptOnDisk DEF Reply, AwaitedRow, StreamOf
  <2>2. /\ answer'[r] = outcome[r] /\ pc'[r] = "done" /\ outcome' = outcome /\ aborts' = aborts
        /\ r \in scoreQueue' => r \in scoreQueue \/ outcome[r] = "hit"
    BY <1>6, <1>g DEF Reply
  <2>3. Awaiting(r)' /\ StartedFirst(r)' /\ OneTerminal(r)' /\ Clean(r)'
    BY <1>6, <1>d, <1>e, <2>2, <1>g
    DEF Reply, Awaiting, StartedFirst, OneTerminal, AtMostOneTerminal, Clean
  <2>4. Answered(r)'
    BY <1>6, <1>e, <1>g, <2>1, <2>2 DEF Reply, Answered
  <2>5. ErrorKept(r)'
    <3>1. \A i \in 1..Len(log["ops"]) :
            log["ops"][i].rid = r /\ log["ops"][i].kind = "terminal"
            => log["ops"][i].status = outcome[r]
      <4>1. PICK i \in 1..synced["ops"] : log["ops"][i] = ops_terminal(r, outcome[r])
        BY <2>1 DEF OnDisk
      <4>2. i \in 1..Len(log["ops"])
        BY <1>a DEF TypeInv, TypeOK
      <4> QED BY <4>1, <4>2 DEF OneTerminal, AtMostOneTerminal, ops_terminal
    <3>2. outcome[r] # "raised"
      BY <1>g DEF Statuses
    <3> QED BY <1>d, <2>2, <3>1, <3>2 DEF ErrorKept, ErrorTerminalsOnly
  <2> QED BY <1>f, <2>3, <2>4, <2>5
<1>7. CASE TerminalLost(r)
  BY <1>7, <1>d, <1>e, <1>f, <1>g
  DEF TerminalLost, mark_abort, Awaiting, StartedFirst, OneTerminal, AtMostOneTerminal, Clean, Answered, ErrorKept, ErrorTerminalsOnly
<1>8. CASE ReplyError(r)
  BY <1>8, <1>d, <1>e, <1>f, <1>g
  DEF ReplyError, Awaiting, StartedFirst, OneTerminal, AtMostOneTerminal, Clean, Answered, ErrorKept, ErrorTerminalsOnly
<1> QED BY <1>1, <1>2, <1>3, <1>4, <1>5, <1>6, <1>7, <1>8

\* What a new row of r does to what is known of its terminal rows.
LEMMA SubmitTerminals ==
  ASSUME TypeInv, NEW r \in Rid, NEW s \in Streams, NEW row \in Row, row.rid = r,
         submit_nowait(s, row)
  PROVE  /\ s = "accepted" \/ row.kind # "terminal" =>
              /\ AtMostOneTerminal(r) => AtMostOneTerminal(r)'
              /\ ErrorTerminalsOnly(r) => ErrorTerminalsOnly(r)'
              /\ Evidence(r) => Evidence(r)'
         /\ No("ops", r, "terminal") =>
              /\ AtMostOneTerminal(r)'
              /\ row.status = "error" => ErrorTerminalsOnly(r)'
         /\ row.status # "hit" \/ OnDisk("accepted", accepted_row(r, "hit")) =>
              (Evidence(r) => Evidence(r)')
<1>a. "ops" \in Streams /\ "accepted" \in Streams /\ Len(log["ops"]) \in Nat
  BY DEF Streams, TypeInv, TypeOK
<1>b. accepted_row(r, "hit") \in Row
  BY RowsAreRows DEF Statuses
<1>c. OnDisk("accepted", accepted_row(r, "hit"))' <=> OnDisk("accepted", accepted_row(r, "hit"))
  BY <1>a, <1>b, SubmitRows
<1>d. ops_terminal(r, "hit").kind = "terminal" /\ ops_terminal(r, "hit").status = "hit"
  BY DEF ops_terminal
<1>1. CASE s = "accepted"
  <2>1. log'["ops"] = log["ops"]
    BY <1>1, <1>a, SubmitRows
  <2> QED BY <1>1, <1>c, <2>1 DEF AtMostOneTerminal, ErrorTerminalsOnly, Evidence, No
<1>2. CASE s = "ops"
  <2>1. \A i \in 1..Len(log'["ops"]) :
          \/ i \in 1..Len(log["ops"]) /\ log'["ops"][i] = log["ops"][i]
          \/ i = Len(log["ops"]) + 1 /\ log'["ops"][i] = row
    BY <1>2, <1>a, SubmitRows
  <2> QED BY <1>2, <1>c, <1>d, <2>1 DEF AtMostOneTerminal, ErrorTerminalsOnly, Evidence, No
<1> QED BY <1>1, <1>2 DEF Streams

\* The row a handler is about to wait for, and the rows it leaves alone.
LEMMA SubmitAwaited ==
  ASSUME TypeInv, NEW r \in Rid, NEW s \in Streams, NEW row \in Row, NEW p \in Awaits,
         submit(r, s, row, p), StreamOf(p) = s
  PROVE  /\ pc'[r] = p /\ receipt'[r] = "none"
         /\ waiting'[r] \in 1..Len(log'[s]) /\ log'[s][waiting'[r]] = row
<1>1. submit_nowait(s, row) /\ Len(log[s]) \in Nat
  BY DEF submit, TypeInv, TypeOK
<1>2. pc'[r] = p /\ receipt'[r] = "none" /\ waiting'[r] = Len(log[s]) + 1
  BY DEF submit, TypeInv, TypeOK
<1> QED BY <1>1, <1>2, SubmitRows

\* The steps of a handler that submit a row.
LEMMA SubmitKeeps ==
  ASSUME TypeInv, TypeInv', NEW r \in Rid, RequestInv(r),
         \/ Start(r) \/ Accept(r) \/ CloseBroken(r) \/ Accepted(r)
         \/ AcceptedTimeout(r) \/ CloseLate(r)
  PROVE  RequestInv(r)'
<1> USE DEF RequestInv, Awaits
<1>a. /\ "ops" \in Streams /\ "accepted" \in Streams /\ "ops" # "accepted"
      /\ "terminal" \in Kinds /\ "accepted" \in Kinds /\ "response_aborted" \in Kinds
      /\ "hit" \in Statuses /\ "abstain_empty" \in Statuses /\ "error" \in Statuses
  BY DEF Streams, Kinds, Statuses
<1>b. /\ pc \in [Rid -> Phases] /\ answer \in [Rid -> Statuses \cup {"none", "raised"}]
      /\ outcome \in [Rid -> Statuses]
  BY DEF TypeInv, TypeOK
<1>c. \A st \in Statuses :
        /\ ops_terminal(r, st).rid = r /\ ops_terminal(r, st).kind = "terminal"
        /\ ops_terminal(r, st).status = st
        /\ accepted_row(r, st).rid = r /\ accepted_row(r, st).kind = "accepted"
        /\ ops_started(r).rid = r /\ ops_started(r).kind = "started"
        /\ response_aborted_row(r).rid = r /\ response_aborted_row(r).kind = "response_aborted"
  BY DEF ops_terminal, accepted_row, ops_started, response_aborted_row
<1>d. /\ ops_started(r) \in Row /\ response_aborted_row(r) \in Row
      /\ \A st \in Statuses : ops_terminal(r, st) \in Row /\ accepted_row(r, st) \in Row
  BY <1>a, RowsAreRows
<1>1. CASE Start(r)
  <2>1. submit_nowait("ops", ops_started(r)) /\ pc[r] = "new"
        /\ submit(r, "ops", ops_started(r), "await_started")
        /\ UNCHANGED <<outcome, answer, scoreQueue>>
    BY <1>1 DEF Start, submit
  <2>2. /\ pc'[r] = "await_started" /\ receipt'[r] = "none"
        /\ waiting'[r] \in 1..Len(log'["ops"]) /\ log'["ops"][waiting'[r]] = ops_started(r)
    BY <1>a, <1>d, <2>1, SubmitAwaited DEF StreamOf
  <2>3. /\ No("ops", r, "terminal")' <=> No("ops", r, "terminal")
        /\ No("accepted", r, "accepted")' <=> No("accepted", r, "accepted")
        /\ No("accepted", r, "response_aborted")' <=> No("accepted", r, "response_aborted")
        /\ OnDisk("ops", ops_started(r))' <=> OnDisk("ops", ops_started(r))
        /\ aborts' = aborts
    BY <1>a, <1>c, <1>d, <2>1, SubmitRows
  <2>4. Evidence(r)' /\ AtMostOneTerminal(r)'
    BY <1>a, <1>c, <1>d, <2>1, SubmitTerminals DEF OneTerminal
  <2>5. Awaiting(r)'
    BY <2>1, <2>2 DEF Awaiting, AwaitedRow, StreamOf, ops_started
  <2> QED BY <2>1, <2>2, <2>3, <2>4, <2>5
          DEF StartedFirst, OneTerminal, Clean, Answered, ErrorKept
<1>2. CASE Accept(r)
  <2>1. PICK st \in Statuses :
          /\ outcome' = [outcome EXCEPT ![r] = st]
          /\ submit(r, "accepted", accepted_row(r, st), "await_accepted")
    BY <1>2 DEF Accept
  <2>2. /\ submit_nowait("accepted", accepted_row(r, st)) /\ pc[r] = "serve"
        /\ UNCHANGED <<answer, scoreQueue>> /\ outcome'[r] = st
    BY <1>2, <1>b, <2>1 DEF Accept, submit
  <2>3. /\ pc'[r] = "await_accepted" /\ receipt'[r] = "none"
        /\ waiting'[r] \in 1..Len(log'["accepted"])
        /\ log'["accepted"][waiting'[r]] = accepted_row(r, st)
    BY <1>a, <1>d, <2>1, SubmitAwaited DEF StreamOf
  <2>4. /\ No("ops", r, "terminal")' <=> No("ops", r, "terminal")
        /\ No("accepted", r, "response_aborted")' <=> No("accepted", r, "response_aborted")
        /\ OnDisk("ops", ops_started(r))' <=> OnDisk("ops", ops_started(r))
        /\ aborts' = aborts
    BY <1>a, <1>c, <1>d, <2>2, SubmitRows
  <2>5. Evidence(r)' /\ AtMostOneTerminal(r)'
    BY <1>a, <1>c, <1>d, <2>2, SubmitTerminals DEF OneTerminal
  <2>6. Awaiting(r)'
    BY <2>2, <2>3 DEF Awaiting, AwaitedRow, StreamOf, accepted_row
  <2> QED BY <2>2, <2>3, <2>4, <2>5, <2>6
          DEF StartedFirst, OneTerminal, Clean, Answered, ErrorKept
<1>3. CASE CloseBroken(r) \/ Accepted(r)
  <2>1. /\ submit(r, "ops", ops_terminal(r, outcome[r]), "await_terminal")
        /\ UNCHANGED <<outcome, answer, scoreQueue>>
        /\ submit_nowait("ops", ops_terminal(r, outcome[r]))
        /\ outcome[r] \in Statuses
    BY <1>3, <1>b DEF CloseBroken, Accepted, Awaiting, submit
  <2>2. (pc[r] = "broken" /\ outcome[r] = "error") \/ pc[r] = "await_accepted"
    BY <1>3 DEF CloseBroken, Accepted, Awaiting
  <2>3. /\ pc'[r] = "await_terminal" /\ receipt'[r] = "none"
        /\ waiting'[r] \in 1..Len(log'["ops"])
        /\ log'["ops"][waiting'[r]] = ops_terminal(r, outcome[r])
    BY <1>a, <1>d, <2>1, SubmitAwaited DEF StreamOf
  <2>4. /\ No("accepted", r, "response_aborted")' <=> No("accepted", r, "response_aborted")
        /\ OnDisk("ops", ops_started(r))' <=> OnDisk("ops", ops_started(r))
        /\ aborts' = aborts
    BY <1>a, <1>c, <1>d, <2>1, SubmitRows
  <2>5. outcome[r] = "hit" => OnDisk("accepted", accepted_row(r, "hit"))
    BY <1>3, <2>2, ReceiptOnDisk DEF CloseBroken, Accepted, AwaitedRow, StreamOf
  <2>6. No("ops", r, "terminal")
    BY <2>2 DEF OneTerminal
  <2>7. Evidence(r)' /\ AtMostOneTerminal(r)'
    BY <1>a, <1>c, <1>d, <2>1, <2>5, <2>6, SubmitTerminals
  <2>8. Awaiting(r)'
    BY <2>1, <2>3 DEF Awaiting, AwaitedRow, StreamOf, ops_terminal
  <2> QED BY <2>1, <2>2, <2>3, <2>4, <2>7, <2>8
          DEF StartedFirst, OneTerminal, Clean, Answered, ErrorKept
<1>4. CASE AcceptedTimeout(r)
  <2>1. /\ submit_nowait("accepted", response_aborted_row(r)) /\ pc[r] = "await_accepted"
        /\ UNCHANGED <<outcome, answer, scoreQueue>> /\ pc'[r] = "lost_accepted"
    BY <1>4, <1>b DEF AcceptedTimeout, Leave
  <2>2. /\ No("ops", r, "terminal")' <=> No("ops", r, "terminal")
        /\ OnDisk("ops", ops_started(r))' <=> OnDisk("ops", ops_started(r))
        /\ aborts' = aborts
    BY <1>a, <1>c, <1>d, <2>1, SubmitRows
  <2>3. Evidence(r)' /\ AtMostOneTerminal(r)'
    BY <1>a, <1>c, <1>d, <2>1, SubmitTerminals DEF OneTerminal
  <2> QED BY <2>1, <2>2, <2>3
          DEF Awaiting, StartedFirst, OneTerminal, Clean, Answered, ErrorKept
<1>5. CASE CloseLate(r)
  <2>1. /\ submit_nowait("ops", ops_terminal(r, "error")) /\ pc[r] = "close_late"
        /\ UNCHANGED <<outcome, scoreQueue>> /\ pc'[r] = "done" /\ answer'[r] = "error"
    BY <1>5, <1>b DEF CloseLate, Leave
  <2>2. OnDisk("ops", ops_started(r))'
    BY <1>a, <1>c, <1>d, <2>1, SubmitRows DEF StartedFirst
  <2>3. Evidence(r)' /\ AtMostOneTerminal(r)' /\ ErrorTerminalsOnly(r)'
    BY <1>a, <1>c, <1>d, <2>1, SubmitTerminals DEF OneTerminal
  <2>4. r \notin scoreQueue
    BY <2>1 DEF Answered
  <2> QED BY <2>1, <2>2, <2>3, <2>4
          DEF Awaiting, StartedFirst, OneTerminal, Clean, Answered, ErrorKept
<1> QED BY <1>1, <1>2, <1>3, <1>4, <1>5

\* The process stops: what is submitted shrinks to what is readable, what is on
\* disk stays, and every handler under way is dead.
LEMMA StopKeeps ==
  ASSUME TypeInv, NEW keep \in [Streams -> Nat],
         \A s \in Streams : synced[s] <= keep[s] /\ keep[s] <= written[s],
         Stop(keep), NEW r \in Rid, RequestInv(r)
  PROVE  RequestInv(r)'
<1> USE DEF RequestInv
<1>a. "ops" \in Streams /\ "accepted" \in Streams
  BY DEF Streams
<1>1. ASSUME NEW s \in Streams
      PROVE  /\ Len(log'[s]) = keep[s] /\ keep[s] <= Len(log[s]) /\ Len(log[s]) \in Nat
             /\ \A i \in 1..keep[s] : log'[s][i] = log[s][i]
             /\ synced[s] <= synced'[s] /\ synced[s] \in Nat /\ synced'[s] = keep[s]
  <2>1. log[s] \in Seq(Row) /\ keep[s] \in 0..Len(log[s]) /\ log'[s] = SubSeq(log[s], 1, keep[s])
    BY DEF Stop, TypeInv, TypeOK
  <2>2. synced'[s] = keep[s] /\ synced[s] \in Nat
    BY DEF Stop, TypeInv, TypeOK
  <2> QED BY <2>1, <2>2
<1>2. ASSUME NEW s \in Streams
      PROVE  \A i \in 1..Len(log'[s]) : i \in 1..Len(log[s]) /\ log'[s][i] = log[s][i]
  BY <1>1
<1>3. ASSUME NEW s \in Streams, NEW x, OnDisk(s, x)
      PROVE  \E i \in 1..synced'[s] : log'[s][i] = x
  BY <1>1, <1>3 DEF OnDisk
<1>4. /\ OnDisk("ops", ops_started(r)) => OnDisk("ops", ops_started(r))'
      /\ OnDisk("accepted", accepted_row(r, "hit")) => OnDisk("accepted", accepted_row(r, "hit"))'
  <2>1. ops_started(r)' = ops_started(r) /\ accepted_row(r, "hit")' = accepted_row(r, "hit")
    BY DEF ops_started, accepted_row
  <2> QED BY <1>a, <1>3, <2>1 DEF OnDisk
<1>5. /\ No("ops", r, "terminal") => No("ops", r, "terminal")'
      /\ No("accepted", r, "accepted") => No("accepted", r, "accepted")'
      /\ No("accepted", r, "response_aborted") => No("accepted", r, "response_aborted")'
  BY <1>a, <1>2 DEF No
<1>6. /\ UNCHANGED <<aborts, outcome, answer>> /\ r \notin scoreQueue'
      /\ pc'[r] \in {"new", "done"} => pc'[r] = pc[r]
      /\ pc'[r] \in {"new", "done", "dead"} /\ (pc[r] \in {"new", "done"} => pc'[r] = pc[r])
  BY DEF Stop
<1>7. Awaiting(r)'
  BY <1>6 DEF Awaiting, Awaits
<1>8. StartedFirst(r)'
  BY <1>4, <1>5, <1>6 DEF StartedFirst
<1>9. OneTerminal(r)' /\ (ErrorTerminalsOnly(r) => ErrorTerminalsOnly(r)')
  <2>1. \A i \in 1..Len(log'["ops"]) : i \in 1..Len(log["ops"]) /\ log'["ops"][i] = log["ops"][i]
    BY <1>a, <1>2
  <2>2. AtMostOneTerminal(r) => AtMostOneTerminal(r)'
    BY <2>1 DEF AtMostOneTerminal
  <2>3. ErrorTerminalsOnly(r) => ErrorTerminalsOnly(r)'
    BY <2>1 DEF ErrorTerminalsOnly
  <2> QED BY <1>5, <1>6, <2>2, <2>3 DEF OneTerminal
<1>10. Clean(r)'
  BY <1>5, <1>6 DEF Clean
<1>11. Answered(r)'
  <2>1. ASSUME answer[r] \in {"hit", "abstain_empty"}
        PROVE  OnDisk("ops", ops_terminal(r, answer[r]))'
    <3>1. OnDisk("ops", ops_terminal(r, answer[r]))
      BY <2>1 DEF Answered
    <3>2. \E i \in 1..synced'["ops"] : log'["ops"][i] = ops_terminal(r, answer[r])
      BY <1>a, <1>3, <3>1
    <3>3. ops_terminal(r, answer[r])' = ops_terminal(r, answer[r])
      BY <1>6 DEF ops_terminal
    <3> QED BY <3>2, <3>3 DEF OnDisk
  <2> QED BY <1>6, <2>1 DEF Answered
<1>12. Evidence(r)'
  BY <1>a, <1>2, <1>4 DEF Evidence, ops_terminal
<1>13. ErrorKept(r)'
  BY <1>6, <1>9 DEF ErrorKept
<1> QED BY <1>7, <1>8, <1>9, <1>10, <1>11, <1>12, <1>13

LEMMA StopBuffers ==
  ASSUME NEW keep, Stop(keep)
  PROVE  NothingBuffered'
BY DEF Stop, NothingBuffered

LEMMA InitInv == Init => Inv
<1> SUFFICES ASSUME Init PROVE Inv
  OBVIOUS
<1>1. TypeInv
  BY InitType
<1>2. NothingBuffered
  BY DEF Init, NothingBuffered
<1>3. ASSUME NEW r \in Rid
      PROVE  RequestInv(r)
  <2>1. /\ log["ops"] = <<>> /\ log["accepted"] = <<>> /\ pc[r] = "new" /\ outcome[r] = "error"
        /\ answer[r] = "none" /\ aborts = {} /\ scoreQueue = {}
    BY DEF Init, Streams
  <2>2. 1..Len(log["ops"]) = {} /\ 1..Len(log["accepted"]) = {}
    BY <2>1
  <2> QED BY <2>1, <2>2
          DEF RequestInv, Awaits, Awaiting, StartedFirst, OneTerminal, AtMostOneTerminal, Clean,
              Answered, Evidence, ErrorKept, No
<1> QED BY <1>1, <1>2, <1>3 DEF Inv

\* A handler's step that is not the exit of the process leaves the others alone.
LEMMA HandlerFrame ==
  ASSUME TypeInv, NothingBuffered, NEW r \in Rid, RequestInv(r),
         Start(r) \/ Handler(r), ~StartedLost(r)
  PROVE  NothingBuffered' /\ \A q \in Rid \ {r} : Frame(q)
<1> USE DEF Phases, Awaits
<1>a. "ops" \in Streams /\ "accepted" \in Streams /\ "error" \in Statuses
  BY DEF Streams, Statuses
<1>b. /\ outcome \in [Rid -> Statuses] /\ outcome[r] \in Statuses
      /\ answer \in [Rid -> Statuses \cup {"none", "raised"}]
  BY DEF TypeInv, TypeOK
<1>c. \A st \in Statuses : /\ ops_started(r).rid = r /\ ops_started(r) \in Row
                           /\ ops_terminal(r, st).rid = r /\ ops_terminal(r, st) \in Row
                           /\ accepted_row(r, st).rid = r /\ accepted_row(r, st) \in Row
                           /\ response_aborted_row(r).rid = r /\ response_aborted_row(r) \in Row
  BY RowsAreRows DEF ops_started, ops_terminal, accepted_row, response_aborted_row
<1>1. CASE Start(r)
  BY <1>1, <1>a, <1>c, AwaitFrame DEF Start
<1>2. CASE Started(r)
  BY <1>2, MoveFrame DEF Started, Goto
<1>3. CASE Accept(r)
  <2>1. PICK st \in Statuses : /\ outcome' = [outcome EXCEPT ![r] = st]
                               /\ submit(r, "accepted", accepted_row(r, st), "await_accepted")
    BY <1>3 DEF Accept
  <2>2. \A q \in Rid \ {r} : outcome'[q] = outcome[q]
    BY <2>1, <1>b
  <2> QED BY <1>3, <1>a, <1>c, <2>1, <2>2, AwaitFrame DEF Accept
<1>4. CASE Break(r)
  BY <1>4, MoveFrame DEF Break, Goto, mark_abort
<1>5. CASE CloseBroken(r) \/ Accepted(r)
  <2>1. submit(r, "ops", ops_terminal(r, outcome[r]), "await_terminal")
        /\ UNCHANGED <<outcome, answer, scoreQueue, up>>
    BY <1>5 DEF CloseBroken, Accepted, RequestInv, Awaiting
  <2> QED BY <1>a, <1>b, <1>c, <2>1, AwaitFrame
<1>6. CASE Raise(r)
  <2>1. \A q \in Rid \ {r} : answer'[q] = answer[q]
    BY <1>6, <1>b DEF Raise
  <2> QED BY <1>6, <2>1, MoveFrame DEF Raise, ledgerVars
<1>7. CASE AcceptedTimeout(r)
  BY <1>7, <1>a, <1>c, MoveSubmitFrame DEF AcceptedTimeout
<1>8. CASE AcceptedUnavailable(r)
  BY <1>8, MoveFrame DEF AcceptedUnavailable, Goto
<1>9. CASE AbortAccepted(r)
  <2>1. \A q \in Rid \ {r} : outcome'[q] = outcome[q]
    BY <1>9, <1>b DEF AbortAccepted
  <2> QED BY <1>9, <2>1, MoveFrame DEF AbortAccepted, Goto, mark_abort
<1>10. CASE CloseLate(r)
  <2>1. \A q \in Rid \ {r} : answer'[q] = answer[q]
    BY <1>10, <1>b DEF CloseLate
  <2> QED BY <1>10, <1>a, <1>c, <2>1, MoveSubmitFrame DEF CloseLate
<1>11. CASE Reply(r)
  <2>1. \A q \in Rid \ {r} : answer'[q] = answer[q] /\ (q \in scoreQueue' => q \in scoreQueue)
    BY <1>11, <1>b DEF Reply
  <2> QED BY <1>11, <2>1, MoveFrame DEF Reply, ledgerVars
<1>12. CASE TerminalLost(r)
  BY <1>12, MoveFrame DEF TerminalLost, Goto, mark_abort
<1>13. CASE ReplyError(r)
  <2>1. \A q \in Rid \ {r} : answer'[q] = answer[q]
    BY <1>13, <1>b DEF ReplyError
  <2> QED BY <1>13, <2>1, MoveFrame DEF ReplyError, ledgerVars
<1> QED BY <1>1, <1>2, <1>3, <1>4, <1>5, <1>6, <1>7, <1>8, <1>9, <1>10, <1>11, <1>12, <1>13
        DEF Handler

\* The process stops, in each of the three ways.
LEMMA StopInv ==
  ASSUME Inv, NEW keep \in [Streams -> Nat],
         \A s \in Streams : synced[s] <= keep[s] /\ keep[s] <= written[s], Stop(keep)
  PROVE  Inv'
<1>1. TypeInv /\ TypeInv'
  BY StopType DEF Inv
<1>2. NothingBuffered'
  BY StopBuffers
<1>3. \A r \in Rid : RequestInv(r)'
  BY <1>1, StopKeeps DEF Inv
<1> QED BY <1>1, <1>2, <1>3 DEF Inv

LEMMA NextInv ==
  ASSUME Inv, [Next]_vars
  PROVE  Inv'
<1>1. TypeInv /\ NothingBuffered /\ TypeInv' /\ \A r \in Rid : RequestInv(r)
  BY NextType DEF Inv
<1>2. /\ written \in [Streams -> Nat]
      /\ \A s \in Streams : synced[s] <= written[s] /\ written[s] <= written[s]
  BY <1>1 DEF TypeInv, TypeOK
<1>3. CASE \E s \in Streams : Writer(s)
  <2>1. NothingBuffered' /\ \A r \in Rid : Frame(r)
    BY <1>1, <1>3, WriterFrame
  <2>2. \A r \in Rid : RequestInv(r)'
    BY <1>1, <2>1, FrameKeeps
  <2> QED BY <1>1, <2>1, <2>2 DEF Inv
<1>4. CASE \E r \in Rid : Start(r) \/ Handler(r)
  <2>1. PICK r \in Rid : Start(r) \/ Handler(r)
    BY <1>4
  <2>2. CASE StartedLost(r)
    BY <1>2, <2>2, StopInv DEF StartedLost
  <2>3. CASE ~StartedLost(r)
    <3>1. NothingBuffered' /\ \A q \in Rid \ {r} : Frame(q)
      BY <1>1, <2>1, <2>3, HandlerFrame
    <3>2. \A q \in Rid \ {r} : RequestInv(q)'
      BY <1>1, <3>1, FrameKeeps
    <3>3. RequestInv(r)'
      BY <1>1, <2>1, <2>3, MoveKeeps, SubmitKeeps DEF Handler
    <3> QED BY <1>1, <3>1, <3>2, <3>3 DEF Inv
  <2> QED BY <2>2, <2>3
<1>5. CASE Kill
  BY <1>2, <1>5, StopInv DEF Kill
<1>6. CASE PowerLoss
  <2>1. PICK keep \in [Streams -> UNION {synced[s]..written[s] : s \in Streams}] :
          (\A s \in Streams : keep[s] \in synced[s]..written[s]) /\ Stop(keep)
    BY <1>6 DEF PowerLoss
  <2>2. \A s \in Streams : keep[s] \in Nat /\ synced[s] <= keep[s] /\ keep[s] <= written[s]
    BY <1>1, <2>1 DEF TypeInv, TypeOK
  <2>3. keep \in [Streams -> Nat]
    BY <2>2
  <2> QED BY <2>1, <2>2, <2>3, StopInv
<1>7. CASE Restart
  <2>1. UNCHANGED <<log, taken, written, synced, syncing, aborts>> /\ UNCHANGED handlerVars
    BY <1>7 DEF Restart
  <2>2. \A r \in Rid : Frame(r)
    BY <1>1, <2>1 DEF Frame, handlerVars, TypeInv, TypeOK
  <2>3. NothingBuffered'
    BY <1>1, <2>1 DEF NothingBuffered
  <2> QED BY <1>1, <2>2, <2>3, FrameKeeps DEF Inv
<1>8. CASE UNCHANGED vars
  <2>1. UNCHANGED ledgerVars /\ UNCHANGED handlerVars
    BY <1>8 DEF vars
  <2>2. \A r \in Rid : Frame(r)
    BY <1>1, <2>1 DEF Frame, ledgerVars, handlerVars, TypeInv, TypeOK
  <2>3. NothingBuffered'
    BY <1>1, <2>1 DEF NothingBuffered, ledgerVars
  <2> QED BY <1>1, <2>2, <2>3, FrameKeeps DEF Inv
<1> QED BY <1>3, <1>4, <1>5, <1>6, <1>7, <1>8 DEF Next

\* Inv is inductive.
THEOREM InvHolds == Spec => []Inv
BY InitInv, NextInv, PTL DEF Spec

-----------------------------------------------------------------------------
(* What a reader of the files sees, from the invariant.                      *)

LEMMA ReaderRows ==
  ASSUME TypeInv, NEW s \in Streams, NEW r, NEW k
  PROVE  /\ Rows(s, r, k) \subseteq 1..Len(log[s])
         /\ No(s, r, k) => Rows(s, r, k) = {}
         /\ \A row : OnDisk(s, row) /\ row.rid = r /\ row.kind = k
              => \E i \in Rows(s, r, k) : log[s][i] = row
<1>1. \A i \in 1..written[s] : i \in 1..Len(log[s])
  BY DEF TypeInv, TypeOK
<1>2. \A i \in 1..synced[s] : i \in 1..written[s]
  BY DEF TypeInv, TypeOK
<1> QED BY <1>1, <1>2 DEF Rows, No, OnDisk

\* A status other than error is that of the one terminal row.
LEMMA StatusIsTerminal ==
  ASSUME NEW r \in Rid, effective_status(r) # "error"
  PROVE  /\ \E i \in Terminals(r) : log["ops"][i].status = effective_status(r)
         /\ ~Aborted(r)
BY DEF effective_status

LEMMA ResultRecorded ==
  ASSUME Inv, NEW r \in Rid, answer[r] \in {"hit", "abstain_empty"}
  PROVE  effective_status(r) = answer[r]
<1>a. TypeInv /\ RequestInv(r) /\ "ops" \in Streams /\ "accepted" \in Streams
  BY DEF Inv, Streams
<1>1. ~Aborted(r)
  BY <1>a, ReaderRows DEF RequestInv, Clean, Aborted
<1>2. Rows("ops", r, "started") # {}
  <2>1. OnDisk("ops", ops_started(r))
    BY <1>a DEF RequestInv, StartedFirst, Answered
  <2>2. ops_started(r).rid = r /\ ops_started(r).kind = "started"
    BY DEF ops_started
  <2> QED BY <1>a, <2>1, <2>2, ReaderRows
<1>3. PICK i \in Terminals(r) : log["ops"][i] = ops_terminal(r, answer[r])
  <2>1. OnDisk("ops", ops_terminal(r, answer[r]))
    BY <1>a DEF RequestInv, Answered
  <2>2. ops_terminal(r, answer[r]).rid = r /\ ops_terminal(r, answer[r]).kind = "terminal"
    BY DEF ops_terminal
  <2> QED BY <1>a, <2>1, <2>2, ReaderRows DEF Terminals
<1>4. \A j, k \in Terminals(r) : j = k
  <2>1. Terminals(r) \subseteq 1..Len(log["ops"])
    BY <1>a, ReaderRows DEF Terminals
  <2>2. \A j \in Terminals(r) : log["ops"][j].rid = r /\ log["ops"][j].kind = "terminal"
    BY DEF Terminals, Rows
  <2> QED BY <1>a, <2>1, <2>2 DEF RequestInv, OneTerminal, AtMostOneTerminal
<1>5. (CHOOSE j \in Terminals(r) : TRUE) = i
  BY <1>3, <1>4
<1>6. effective_status(r) = log["ops"][i].status
  BY <1>1, <1>2, <1>3, <1>4, <1>5 DEF effective_status
<1> QED BY <1>3, <1>6 DEF ops_terminal

\* A result once answered stays recorded, for any number of calls: through late
\* rows, failed flushes and fsyncs, kills, power losses and restarts.
THEOREM ResultIsRecorded == Spec => []AnsweredResultIsRecorded
<1>1. Inv => AnsweredResultIsRecorded
  BY ResultRecorded DEF AnsweredResultIsRecorded
<1> QED BY <1>1, InvHolds, PTL

LEMMA HitEvidence == Inv => HitHasEvidence
<1> SUFFICES ASSUME Inv, NEW r \in Rid, effective_status(r) = "hit"
             PROVE  \E i \in Rows("accepted", r, "accepted") : log["accepted"][i].status = "hit"
  BY DEF HitHasEvidence
<1>a. TypeInv /\ RequestInv(r) /\ "ops" \in Streams /\ "accepted" \in Streams
  BY DEF Inv, Streams
<1>1. PICK i \in Terminals(r) : log["ops"][i].status = "hit"
  BY StatusIsTerminal
<1>2. i \in 1..Len(log["ops"]) /\ log["ops"][i] \in Row
  <2>1. i \in 1..Len(log["ops"])
    BY <1>a, ReaderRows DEF Terminals
  <2>2. log["ops"] \in Seq(Row)
    BY <1>a DEF TypeInv, TypeOK
  <2> QED BY <2>1, <2>2
<1>3. log["ops"][i] = ops_terminal(r, "hit")
  <2>1. log["ops"][i].rid = r /\ log["ops"][i].kind = "terminal"
    BY DEF Terminals, Rows
  <2> QED BY <1>1, <1>2, <2>1 DEF Row, ops_terminal
<1>4. OnDisk("accepted", accepted_row(r, "hit"))
  BY <1>a, <1>2, <1>3 DEF RequestInv, Evidence
<1>5. /\ accepted_row(r, "hit").rid = r /\ accepted_row(r, "hit").kind = "accepted"
      /\ accepted_row(r, "hit").status = "hit"
  BY DEF accepted_row
<1>6. \E j \in Rows("accepted", r, "accepted") : log["accepted"][j] = accepted_row(r, "hit")
  BY <1>a, <1>4, <1>5, ReaderRows
<1> QED BY <1>5, <1>6

\* Whatever counts as a hit has its candidates on record.
THEOREM HitsHaveEvidence == Spec => []HitHasEvidence
BY HitEvidence, InvHolds, PTL

LEMMA TraceHasStarted == Inv => EvidenceHasStarted
<1> SUFFICES ASSUME Inv, NEW r \in Rid, LeavesTrace(r)
             PROVE  Rows("ops", r, "started") # {}
  BY DEF EvidenceHasStarted
<1>a. TypeInv /\ RequestInv(r) /\ "ops" \in Streams /\ "accepted" \in Streams
  BY DEF Inv, Streams
<1>1. \/ r \in aborts \/ ~No("ops", r, "terminal") \/ ~No("accepted", r, "accepted")
      \/ ~No("accepted", r, "response_aborted")
  BY <1>a, ReaderRows DEF LeavesTrace
<1>2. OnDisk("ops", ops_started(r))
  BY <1>a, <1>1 DEF RequestInv, StartedFirst
<1>3. ops_started(r).rid = r /\ ops_started(r).kind = "started"
  BY DEF ops_started
<1> QED BY <1>a, <1>2, <1>3, ReaderRows

\* No request leaves anything in any file before its started row is on disk.
THEOREM TracesHaveStarted == Spec => []EvidenceHasStarted
BY TraceHasStarted, InvHolds, PTL

LEMMA QueuedHit == Inv => QueuedIsHit
<1> SUFFICES ASSUME Inv, NEW r \in scoreQueue
             PROVE  effective_status(r) = "hit"
  BY DEF QueuedIsHit
<1>1. r \in Rid
  BY DEF Inv, TypeInv, TypeOK
<1>2. answer[r] = "hit"
  BY <1>1 DEF Inv, RequestInv, Answered
<1> QED BY <1>1, <1>2, ResultRecorded

\* The score worker is handed hits only.
THEOREM QueueHoldsHits == Spec => []QueuedIsHit
BY QueuedHit, InvHolds, PTL

\* With a working aborts.log an error once answered stays an error: whatever is
\* still on its way to the files says error too, or is voided by the abort.
LEMMA ErrorRecorded ==
  ASSUME AbortMayFail = FALSE, Inv, NEW r \in Rid, answer[r] \in {"error", "raised"}
  PROVE  effective_status(r) = "error"
<1>a. TypeInv /\ RequestInv(r) /\ "ops" \in Streams
  BY DEF Inv, Streams
<1> SUFFICES ASSUME effective_status(r) # "error" PROVE FALSE
  OBVIOUS
<1>1. PICK i \in Terminals(r) : log["ops"][i].status # "error" /\ ~Aborted(r)
  BY StatusIsTerminal
<1>2. r \notin aborts
  BY <1>1 DEF Aborted
<1>3. ErrorTerminalsOnly(r)
  BY <1>a, <1>2 DEF RequestInv, ErrorKept
<1>4. i \in 1..Len(log["ops"]) /\ log["ops"][i].rid = r /\ log["ops"][i].kind = "terminal"
  BY <1>a, ReaderRows DEF Terminals, Rows
<1> QED BY <1>1, <1>3, <1>4 DEF ErrorTerminalsOnly

\* With a working aborts.log the answered errors stay errors in every reachable
\* state, through crashes and late rows (abort before the answer, server.py).
THEOREM ErrorIsRecorded ==
  ASSUME AbortMayFail = FALSE
  PROVE  Spec => []AnsweredErrorIsRecorded
<1>1. Inv => AnsweredErrorIsRecorded
  BY ErrorRecorded DEF AnsweredErrorIsRecorded
<1> QED BY <1>1, InvHolds, PTL

-----------------------------------------------------------------------------
(* The ledger implements SearchOutcome.                                      *)

LEMMA StatusType ==
  ASSUME TypeInv, NEW r \in Rid
  PROVE  effective_status(r) \in Statuses
<1>1. CASE effective_status(r) = "error"
  BY <1>1 DEF Statuses
<1>2. CASE effective_status(r) # "error"
  <2>1. PICK i \in Terminals(r) : log["ops"][i].status = effective_status(r)
    BY <1>2, StatusIsTerminal
  <2>2. i \in 1..Len(log["ops"]) /\ log["ops"] \in Seq(Row)
    BY ReaderRows DEF Terminals, Streams, TypeInv, TypeOK
  <2>3. log["ops"][i] \in Row
    BY <2>2
  <2> QED BY <2>1, <2>3 DEF Row
<1> QED BY <1>1, <1>2

\* Rows that are only queued do not count.
LEMMA SameReading ==
  ASSUME TypeInv, UNCHANGED <<written, aborts>>,
         \A s \in Streams : \A i \in 1..Len(log[s]) : log'[s][i] = log[s][i]
  PROVE  \A r \in Rid : effective_status(r)' = effective_status(r)
<1> SUFFICES ASSUME NEW r \in Rid PROVE effective_status(r)' = effective_status(r)
  OBVIOUS
<1>a. "ops" \in Streams /\ "accepted" \in Streams
  BY DEF Streams
<1>1. \A s \in Streams : \A i \in 1..written[s] : log'[s][i] = log[s][i]
  <2>1. \A s \in Streams : \A i \in 1..written[s] : i \in 1..Len(log[s])
    BY DEF TypeInv, TypeOK
  <2> QED BY <2>1
<1>2. /\ Rows("ops", r, "started")' = Rows("ops", r, "started")
      /\ Rows("ops", r, "terminal")' = Rows("ops", r, "terminal")
      /\ Rows("accepted", r, "response_aborted")' = Rows("accepted", r, "response_aborted")
  BY <1>a, <1>1 DEF Rows
<1>3. Terminals(r)' = Terminals(r) /\ (Aborted(r)' <=> Aborted(r))
  BY <1>2 DEF Terminals, Aborted
<1>4. \A i \in Terminals(r) : log'["ops"][i] = log["ops"][i]
  BY <1>a, <1>1 DEF Terminals, Rows
<1>5. Terminals(r) # {} => (CHOOSE i \in Terminals(r) : TRUE) \in Terminals(r)
  OBVIOUS
<1> QED BY <1>2, <1>3, <1>4, <1>5 DEF effective_status

\* An answer is given in one step, to a call that had none, and changes nothing
\* that a reader sees.
LEMMA AnswerStep ==
  ASSUME Inv, [Next]_vars, answer' # answer
  PROVE  \E r \in Rid : /\ answer[r] = "none" /\ answer' = [answer EXCEPT ![r] = answer'[r]]
                        /\ answer'[r] # "none"
                        /\ \A q \in Rid : effective_status(q)' = effective_status(q)
<1>a. TypeInv /\ answer \in [Rid -> Statuses \cup {"none", "raised"}]
      /\ outcome \in [Rid -> Statuses]
  BY DEF Inv, TypeInv, TypeOK
<1>1. PICK r \in Rid : Raise(r) \/ CloseLate(r) \/ Reply(r) \/ ReplyError(r)
  <2>1. \A s \in Streams : Writer(s) => answer' = answer
    BY DEF Writer, Flush, FlushFails, Fsync, FsyncFails, handlerVars
  <2>2. Kill \/ PowerLoss \/ Restart \/ UNCHANGED vars => answer' = answer
    BY DEF Kill, PowerLoss, Restart, Stop, vars, handlerVars
  <2>3. \A r \in Rid :
          Start(r) \/ Handler(r) =>
            answer' = answer \/ Raise(r) \/ CloseLate(r) \/ Reply(r) \/ ReplyError(r)
    BY DEF Handler, Start, Started, Accept, Break, CloseBroken, Accepted, AcceptedTimeout,
           AcceptedUnavailable, AbortAccepted, TerminalLost, StartedLost, Stop, Goto
  <2> QED BY <2>1, <2>2, <2>3 DEF Next
<1>2. answer[r] = "none"
  <2>1. pc[r] # "done"
    BY <1>1 DEF Raise, CloseLate, Reply, ReplyError
  <2> QED BY <2>1 DEF Inv, RequestInv, Answered
<1>3. \E a \in Statuses \cup {"raised"} : answer' = [answer EXCEPT ![r] = a]
  BY <1>1, <1>a DEF Raise, CloseLate, Reply, ReplyError, Statuses
<1>4. answer' = [answer EXCEPT ![r] = answer'[r]] /\ answer'[r] # "none"
  BY <1>3, <1>a DEF Statuses
<1>5. UNCHANGED <<written, aborts>>
  BY <1>1 DEF Raise, CloseLate, Reply, ReplyError, ledgerVars, submit_nowait
<1>6. \A s \in Streams : \A i \in 1..Len(log[s]) : log'[s][i] = log[s][i]
  <2>1. CASE Raise(r) \/ Reply(r) \/ ReplyError(r)
    BY <2>1 DEF Raise, Reply, ReplyError, ledgerVars
  <2>2. CASE CloseLate(r)
    <3>1. ops_terminal(r, "error") \in Row /\ "ops" \in Streams
      BY RowsAreRows DEF Statuses, Streams
    <3>2. submit_nowait("ops", ops_terminal(r, "error"))
      BY <2>2 DEF CloseLate
    <3> QED BY <1>a, <3>1, <3>2, SubmitRows
  <2> QED BY <1>1, <2>1, <2>2
<1> QED BY <1>a, <1>2, <1>4, <1>5, <1>6, SameReading

\* What an answer implies of the files, in every state.
LEMMA AnswerIsVerdict ==
  ASSUME AbortMayFail = FALSE, Inv, NEW r \in Rid, answer[r] # "none"
  PROVE  effective_status(r) = IF answer[r] = "raised" THEN "error" ELSE answer[r]
<1>1. answer[r] \in {"hit", "abstain_empty", "error", "raised"}
  BY DEF Inv, TypeInv, TypeOK, Statuses
<1> QED BY <1>1, ResultRecorded, ErrorRecorded

\* The same of the state after a step.
AnswersAreVerdicts ==
  /\ \A r \in Rid : effective_status(r) \in Statuses
  /\ AbortMayFail = FALSE =>
       \A r \in Rid : answer[r] # "none" =>
         effective_status(r) = IF answer[r] = "raised" THEN "error" ELSE answer[r]

LEMMA Reading == Inv => AnswersAreVerdicts
BY StatusType, AnswerIsVerdict DEF Inv, AnswersAreVerdicts

LEMMA NextReading == Inv' => AnswersAreVerdicts'
BY Reading, PTL

LEMMA StepRefines ==
  ASSUME AbortMayFail = FALSE, Inv, [Next]_vars
  PROVE  [Outcome!Next]_(Outcome!vars)
<1>1. AnswersAreVerdicts /\ AnswersAreVerdicts'
  BY NextInv, Reading, NextReading
<1>2. [r \in Rid |-> effective_status(r)]' \in [Rid -> Statuses]
  BY <1>1 DEF AnswersAreVerdicts
<1>3. CASE answer' = answer
  <2>1. \A r \in Rid : answer[r] # "none" => effective_status(r)' = effective_status(r)
    BY <1>1, <1>3 DEF AnswersAreVerdicts
  <2>2. Outcome!Settle
    BY <1>2, <1>3, <2>1 DEF Outcome!Settle, Outcome!Open, Outcome!Verdicts, Statuses
  <2> QED BY <2>2 DEF Outcome!Next
<1>4. CASE answer' # answer
  <2>1. PICK r \in Rid : /\ answer[r] = "none" /\ answer' = [answer EXCEPT ![r] = answer'[r]]
                         /\ answer'[r] # "none"
                         /\ \A q \in Rid : effective_status(q)' = effective_status(q)
    BY <1>4, AnswerStep
  <2>2. effective_status(r)' = IF answer'[r] = "raised" THEN "error" ELSE answer'[r]
    BY <1>1, <2>1 DEF AnswersAreVerdicts
  <2>3. Outcome!Reply(r)
    BY <2>1, <2>2 DEF Outcome!Reply, Outcome!Open
  <2> QED BY <2>3 DEF Outcome!Next
<1> QED BY <1>3, <1>4

LEMMA InitRefines == Init => Outcome!Init
<1> SUFFICES ASSUME Init PROVE Outcome!Init
  OBVIOUS
<1>1. \A r \in Rid : effective_status(r) = "error"
  <2>1. written["ops"] = 0
    BY DEF Init, Streams
  <2>2. \A r \in Rid : Rows("ops", r, "started") = {}
    BY <2>1 DEF Rows
  <2> QED BY <2>2 DEF effective_status
<1> QED BY <1>1 DEF Outcome!Init, Init

\* The whole machinery of streams, receipts and crashes implements the two
\* variables of SearchOutcome.
THEOREM Refinement ==
  ASSUME AbortMayFail = FALSE
  PROVE  Spec => ImplementsOutcome
<1>1. Inv /\ [Next]_vars => [Outcome!Next]_(Outcome!vars)
  BY StepRefines
<1> QED BY <1>1, InitRefines, InvHolds, PTL DEF Spec, ImplementsOutcome, Outcome!Spec
===========================================================================
