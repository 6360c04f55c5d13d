------------------------- MODULE ScoreQueueProofs -------------------------
(***************************************************************************)
(* Proofs about ScoreQueue, for any set of requests, any room in the queue *)
(* and any threshold: the numbers of a request's rows grow along the file, *)
(* and nobody is given up without the failures for it on file.             *)
(*                                                                         *)
(* Neither holds by itself. The numbers grow only because the writer's     *)
(* next number is above every row it has taken, also after it has picked   *)
(* the numbering up from the file; and a sweep condemns on what it read    *)
(* some steps ago, so the invariant has to say that what it read is still  *)
(* there, and in front of the row it is about to add.                      *)
(***************************************************************************)
EXTENDS ScoreQueue, NumberFacts, SequenceTheorems

\* The failures of r among the first n of some rows.
FailedIn(rows, r, n) == {j \in 1..n : rows[j].rid = r /\ rows[j].status = "retryable_error"}

Spent(rows, r, n) == Cardinality(FailedIn(rows, r, n)) >= FailThreshold

\* A request's numbers grow over all rows taken, those not yet on file included,
\* and the next one is above them all.
NumbersGrow ==
  /\ \A i, j \in 1..taken :
       i < j /\ log[i].rid = log[j].rid => log[i].attempt_no < log[j].attempt_no
  /\ up => \A i \in 1..taken : log[i].attempt_no < nextNo[log[i].rid]

\* Whoever is given up in a row, on file or not, or is about to be, has failed
\* often enough in the rows before.
GivenUpWithReason ==
  /\ \A i \in 1..Len(log) : log[i].status = "permanent_failure" => Spent(log, log[i].rid, i - 1)
  /\ sweep.pc # "idle" => \A r \in sweep.spent : Spent(log, r, Len(log))

QueueInv ==
  /\ TypeOK
  /\ ~up => written = Len(log) /\ taken = Len(log)
  /\ NumbersGrow
  /\ GivenUpWithReason

-----------------------------------------------------------------------------
(* What the writer and those who submit do to the rows.                      *)

LEMMA RowsTyped ==
  ASSUME TypeOK
  PROVE  /\ log \in Seq(Row) /\ Len(log) \in Nat
         /\ taken \in Nat /\ written \in Nat /\ written <= taken /\ taken <= Len(log)
         /\ \A i \in 1..Len(log) : log[i].rid \in Rid /\ log[i].attempt_no \in Nat
<1>1. log \in Seq(Row) /\ Len(log) \in Nat
  BY DEF TypeOK
<1>2. \A i \in 1..Len(log) : log[i] \in Row
  BY <1>1, ElementOfSeq
<1> QED BY <1>1, <1>2 DEF TypeOK, Row

LEMMA AppendedRow ==
  ASSUME TypeOK, NEW r \in Rid, NEW status \in Status, submit_scored(r, status)
  PROVE  /\ log' \in Seq(Row) /\ Len(log') = Len(log) + 1
         /\ \A i \in 1..Len(log) : log'[i] = log[i]
         /\ log'[Len(log) + 1] = [rid |-> r, status |-> status, attempt_no |-> 0]
         /\ UNCHANGED <<taken, written, synced, syncing, nextNo>>
<1>1. [rid |-> r, status |-> status, attempt_no |-> 0] \in Row
  BY DEF Row
<1>2. log \in Seq(Row)
  BY DEF TypeOK
<1> QED BY <1>1, <1>2, AppendProperties DEF submit_scored

LEMMA NumberedRow ==
  ASSUME TypeOK, CanTake, Number
  PROVE  /\ log' \in Seq(Row) /\ Len(log') = Len(log) /\ taken + 1 \in 1..Len(log)
         /\ \A i \in 1..Len(log) : log'[i].rid = log[i].rid /\ log'[i].status = log[i].status
         /\ \A i \in 1..taken : log'[i] = log[i]
         /\ log'[taken + 1].attempt_no = nextNo[log[taken + 1].rid]
         /\ nextNo' \in [Rid -> Nat]
         /\ nextNo'[log[taken + 1].rid] = nextNo[log[taken + 1].rid] + 1
         /\ \A r \in Rid : nextNo'[r] >= nextNo[r]
<1> DEFINE row == log[taken + 1]
           new == [row EXCEPT !.attempt_no = nextNo[row.rid]]
<1>1. log \in Seq(Row) /\ taken + 1 \in 1..Len(log) /\ taken \in Nat /\ row \in Row
  BY DEF TypeOK, CanTake
<1>2. nextNo \in [Rid -> Nat] /\ row.rid \in Rid /\ nextNo[row.rid] \in Nat
  BY <1>1 DEF TypeOK, Row
<1>3. new \in Row /\ new.rid = row.rid /\ new.status = row.status
      /\ new.attempt_no = nextNo[row.rid]
  BY <1>1, <1>2 DEF Row
<1>4. log' = [log EXCEPT ![taken + 1] = new]
  BY DEF Number
<1>5. /\ log' \in Seq(Row) /\ Len(log') = Len(log)
      /\ \A i \in 1..Len(log) : log'[i] = IF i = taken + 1 THEN new ELSE log[i]
  <2> HIDE DEF new
  <2> QED BY <1>1, <1>3, <1>4, ExceptSeq
<1>6. nextNo' = [nextNo EXCEPT ![row.rid] = @ + 1]
  BY DEF Number
<1>7. /\ nextNo' \in [Rid -> Nat] /\ nextNo'[row.rid] = nextNo[row.rid] + 1
      /\ \A r \in Rid : nextNo'[r] >= nextNo[r]
  BY <1>2, <1>6
<1> HIDE DEF new
<1> QED BY <1>1, <1>3, <1>5, <1>7

LEMMA KeptRows ==
  ASSUME TypeOK, NEW keep \in 0..written, Stop(keep)
  PROVE  /\ log' \in Seq(Row) /\ Len(log') = keep
         /\ \A i \in 1..keep : log'[i] = log[i]
<1>1. log \in Seq(Row) /\ keep \in Nat /\ \A i \in 1..keep : log[i] \in Row
  BY DEF TypeOK
<1>2. /\ SubSeq(log, 1, keep) \in Seq(Row)
      /\ Len(SubSeq(log, 1, keep)) = IF 1 <= keep THEN keep - 1 + 1 ELSE 0
      /\ \A i \in 1..(keep - 1 + 1) : SubSeq(log, 1, keep)[i] = log[1 + i - 1]
  BY <1>1, SubSeqProperties
<1> QED BY <1>1, <1>2 DEF Stop

-----------------------------------------------------------------------------
(* Counting failures.                                                        *)

LEMMA FailedMore ==
  ASSUME NEW rows, NEW r, NEW n \in Nat, NEW m \in Nat, n <= m, Spent(rows, r, n)
  PROVE  Spent(rows, r, m)
<1>1. IsFiniteSet(1..m)
  BY FS_Interval
<1>2. /\ FailedIn(rows, r, m) \in SUBSET (1..m)
      /\ FailedIn(rows, r, n) \in SUBSET FailedIn(rows, r, m)
  BY DEF FailedIn
<1>3. IsFiniteSet(FailedIn(rows, r, m)) /\ IsFiniteSet(FailedIn(rows, r, n))
  BY <1>1, <1>2, FS_Subset
<1>4. Cardinality(FailedIn(rows, r, n)) <= Cardinality(FailedIn(rows, r, m))
  BY <1>2, <1>3, FS_Subset
<1>5. /\ Cardinality(FailedIn(rows, r, n)) \in Nat
      /\ Cardinality(FailedIn(rows, r, m)) \in Nat /\ FailThreshold \in Nat
  BY <1>3, FS_CardinalityType, ScoreQueueAssumption
<1> QED BY <1>4, <1>5 DEF Spent

\* Rows that keep their requests and outcomes keep the count, whatever their numbers.
LEMMA FailedSame ==
  ASSUME NEW rows, NEW others, NEW r, NEW n \in Nat,
         \A j \in 1..n : others[j].rid = rows[j].rid /\ others[j].status = rows[j].status
  PROVE  Spent(others, r, n) <=> Spent(rows, r, n)
<1>1. FailedIn(others, r, n) = FailedIn(rows, r, n)
  BY DEF FailedIn
<1> QED BY <1>1 DEF Spent

-----------------------------------------------------------------------------
(* Types.                                                                    *)

LEMMA PutTyped ==
  ASSUME TypeOK, NEW r \in Rid, PutNowait(r)
  PROVE  queue' \in Seq(Item) /\ Len(queue') <= QueueMax
<1>1. queue \in Seq(Item) /\ Len(queue) <= QueueMax /\ QueueMax \in Nat
  BY ScoreQueueAssumption DEF TypeOK
<1>2. [rid |-> r, manual |-> FALSE] \in Item
  BY DEF Item
<1> QED BY <1>1, <1>2, AppendProperties DEF PutNowait

LEMMA SignalTyped ==
  ASSUME TypeOK, NEW i, NEW result \in Receipts, Signal(i, result)
  PROVE  /\ worker' \in WorkerStates
         /\ sweep' \in SweepStates
         /\ sweep'.pc = sweep.pc
         /\ sweep.pc # "idle" => sweep'.spent = sweep.spent
<1>1. worker \in WorkerStates /\ sweep \in SweepStates
  BY DEF TypeOK
<1>2. worker' \in WorkerStates
  <2>1. CASE worker.pc = "await"
    <3>1. worker \in [pc : {"await"}, item : Item, at : Nat, receipt : Receipts]
      BY <1>1, <2>1 DEF WorkerStates, Resting
    <3>2. [worker EXCEPT !.receipt = result]
            \in [pc : {"await"}, item : Item, at : Nat, receipt : Receipts]
      BY <3>1
    <3> QED BY <2>1, <3>1, <3>2 DEF Signal, Told, WorkerStates
  <2>2. CASE worker.pc # "await"
    BY <1>1, <2>2 DEF Signal
  <2> QED BY <2>1, <2>2
<1>3. CASE sweep.pc = "await"
  <2>1. sweep \in [pc : {"await"}, spent : SUBSET Rid, orphans : SUBSET Rid, at : Nat,
                   receipt : Receipts]
    BY <1>1, <1>3 DEF SweepStates, Resting
  <2>2. /\ [sweep EXCEPT !.receipt = result]
             \in [pc : {"await"}, spent : SUBSET Rid, orphans : SUBSET Rid, at : Nat,
                  receipt : Receipts]
        /\ [sweep EXCEPT !.receipt = result].pc = sweep.pc
        /\ [sweep EXCEPT !.receipt = result].spent = sweep.spent
    BY <2>1
  <2> QED BY <1>2, <1>3, <2>1, <2>2 DEF Signal, Told, SweepStates
<1>4. CASE sweep.pc # "await"
  BY <1>1, <1>2, <1>4 DEF Signal
<1> QED BY <1>3, <1>4

\* What the worker and the sweep hold when they are not at rest.
LEMMA Held ==
  ASSUME TypeOK
  PROVE  /\ worker.pc # "idle" => worker.item \in Item
         /\ sweep.pc # "idle" => sweep.spent \subseteq Rid /\ sweep.orphans \subseteq Rid
         /\ sweep.pc = "decide" => sweep \in [pc : {"decide"}, spent : SUBSET Rid,
                                              orphans : SUBSET Rid]
BY DEF TypeOK, WorkerStates, SweepStates, Resting

LEMMA FirstIsOne ==
  ASSUME NEW S \in SUBSET Rid, S # {}
  PROVE  First(S) \in S
<1>1. S \in SUBSET Nat
  BY ScoreQueueAssumption
<1> QED BY <1>1, ChosenLeast DEF First

-----------------------------------------------------------------------------
(* The initial state.                                                        *)

LEMMA QueueInit == Init => QueueInv
<1> SUFFICES ASSUME Init PROVE QueueInv
  OBVIOUS
<1>1. worker \in WorkerStates /\ sweep \in SweepStates
  BY DEF Init, WorkerStates, SweepStates
<1>2. log = <<>> /\ Len(log) = 0 /\ log \in Seq(Row) /\ queue \in Seq(Item) /\ Len(queue) = 0
  BY DEF Init
<1>3. TypeOK
  <2>1. nextNo \in [Rid -> Nat] /\ handoff \subseteq Rid /\ up \in BOOLEAN /\ syncing \in BOOLEAN
    BY DEF Init
  <2>2. Len(queue) <= QueueMax /\ faults \in 0..MaxFaults /\ manuals \in 0..MaxManual
        /\ caller = "away" /\ taken = 0 /\ written = 0 /\ synced = 0
    BY <1>2, ScoreQueueAssumption DEF Init
  <2> QED BY <1>1, <1>2, <2>1, <2>2 DEF TypeOK
<1> QED
  BY <1>2, <1>3 DEF Init, QueueInv, NumbersGrow, GivenUpWithReason, Resting

-----------------------------------------------------------------------------
(* Steps by what they do to the rows.                                        *)

\* A step that leaves the rows alone, and a sweep that does not learn of others
\* to be given up.
LEMMA RowsAlone ==
  ASSUME QueueInv, TypeOK', UNCHANGED <<log, taken, written, nextNo>>, up' = up,
         sweep'.pc # "idle" => \A r \in sweep'.spent : Spent(log, r, Len(log))
  PROVE  QueueInv'
BY DEF QueueInv, NumbersGrow, GivenUpWithReason

\* A row is submitted: a sweep's spent have failed as often in front of it.
LEMMA RowSubmitted ==
  ASSUME QueueInv, TypeOK', NEW r \in Rid, NEW status \in Status,
         submit_scored(r, status), up, up' = up,
         status = "permanent_failure" => Spent(log, r, Len(log)),
         sweep'.pc # "idle" => sweep.pc # "idle" /\ sweep'.spent \subseteq sweep.spent
  PROVE  QueueInv'
<1>1. /\ log' \in Seq(Row) /\ Len(log') = Len(log) + 1
      /\ \A i \in 1..Len(log) : log'[i] = log[i]
      /\ log'[Len(log) + 1] = [rid |-> r, status |-> status, attempt_no |-> 0]
      /\ UNCHANGED <<taken, written, synced, syncing, nextNo>>
  BY AppendedRow DEF QueueInv
<1>2. log \in Seq(Row) /\ Len(log) \in Nat /\ taken \in Nat /\ taken <= Len(log)
  BY DEF QueueInv, TypeOK
<1>3. ASSUME NEW q, NEW n \in 0..Len(log) PROVE Spent(log', q, n) <=> Spent(log, q, n)
  <2>1. n \in Nat /\ \A j \in 1..n : log'[j].rid = log[j].rid /\ log'[j].status = log[j].status
    BY <1>1, <1>2
  <2> QED BY <2>1, FailedSame
<1>4. NumbersGrow'
  <2>1. \A i \in 1..taken : log'[i] = log[i]
    BY <1>1, <1>2
  <2> QED BY <1>1, <1>2, <2>1, SMTT(30) DEF QueueInv, NumbersGrow
<1>5. ASSUME NEW i \in 1..Len(log'), log'[i].status = "permanent_failure"
      PROVE  Spent(log', log'[i].rid, i - 1)
  <2>1. CASE i \in 1..Len(log)
    <3>1. log'[i] = log[i] /\ i - 1 \in 0..Len(log)
      BY <1>1, <1>2, <2>1
    <3>2. Spent(log, log[i].rid, i - 1)
      BY <1>5, <2>1, <3>1 DEF QueueInv, GivenUpWithReason
    <3> QED BY <1>3, <3>1, <3>2
  <2>2. CASE i = Len(log) + 1
    <3>1. log'[i].rid = r /\ i - 1 = Len(log) /\ i - 1 \in 0..Len(log)
          /\ status = "permanent_failure"
      BY <1>1, <1>2, <1>5, <2>2
    <3>2. Spent(log, r, i - 1)
      BY <3>1
    <3> QED BY <1>3, <3>1, <3>2
  <2> QED BY <1>1, <1>2, <2>1, <2>2
<1>6. ASSUME sweep'.pc # "idle", NEW q \in sweep'.spent
      PROVE  Spent(log', q, Len(log'))
  <2>1. Spent(log, q, Len(log)) /\ Len(log) \in 0..Len(log)
    BY <1>2, <1>6 DEF QueueInv, GivenUpWithReason
  <2>2. Spent(log', q, Len(log))
    BY <1>3, <2>1
  <2>3. Len(log') \in Nat /\ Len(log) <= Len(log')
    BY <1>1, <1>2
  <2> QED BY <1>2, <2>2, <2>3, FailedMore
<1>7. GivenUpWithReason'
  BY <1>5, <1>6 DEF GivenUpWithReason
<1> QED BY <1>4, <1>7 DEF QueueInv

\* The writer takes the next row and numbers it above those taken before.
LEMMA RowTaken ==
  ASSUME QueueInv, TypeOK', CanTake, Number, taken' = taken + 1, up' = up,
         sweep'.pc = sweep.pc, sweep.pc # "idle" => sweep'.spent = sweep.spent
  PROVE  QueueInv'
<1>1. /\ log' \in Seq(Row) /\ Len(log') = Len(log) /\ taken + 1 \in 1..Len(log)
      /\ \A i \in 1..Len(log) : log'[i].rid = log[i].rid /\ log'[i].status = log[i].status
      /\ \A i \in 1..taken : log'[i] = log[i]
      /\ log'[taken + 1].attempt_no = nextNo[log[taken + 1].rid]
      /\ nextNo' \in [Rid -> Nat]
      /\ nextNo'[log[taken + 1].rid] = nextNo[log[taken + 1].rid] + 1
      /\ \A r \in Rid : nextNo'[r] >= nextNo[r]
  BY NumberedRow DEF QueueInv
<1>2. log \in Seq(Row) /\ Len(log) \in Nat /\ taken \in Nat /\ up
      /\ nextNo \in [Rid -> Nat] /\ nextNo' \in [Rid -> Nat]
      /\ \A i \in 1..Len(log) : log[i].rid \in Rid /\ log[i].attempt_no \in Nat
  <2>1. up /\ nextNo \in [Rid -> Nat] /\ nextNo' \in [Rid -> Nat]
    BY <1>1 DEF QueueInv, TypeOK, CanTake
  <2> QED BY <2>1, RowsTyped DEF QueueInv
<1>3. \A i \in 1..taken : log[i].attempt_no < nextNo[log[i].rid]
  BY <1>2 DEF QueueInv, NumbersGrow
<1>4. ASSUME NEW i \in 1..taken', NEW j \in 1..taken', i < j, log'[i].rid = log'[j].rid
      PROVE  log'[i].attempt_no < log'[j].attempt_no
  <2>1. i \in 1..taken /\ i \in 1..Len(log) /\ j \in 1..Len(log) /\ log'[i] = log[i]
    BY <1>1, <1>2, <1>4
  <2>2. CASE j \in 1..taken
    BY <1>1, <1>4, <2>1, <2>2 DEF QueueInv, NumbersGrow
  <2>3. CASE j = taken + 1
    <3>1. log[i].rid = log[taken + 1].rid
      BY <1>1, <1>4, <2>1, <2>3
    <3> QED BY <1>1, <1>3, <2>1, <2>3, <3>1
  <2> QED BY <1>2, <2>2, <2>3
<1>5. ASSUME NEW i \in 1..taken' PROVE log'[i].attempt_no < nextNo'[log'[i].rid]
  <2>1. i \in 1..Len(log) /\ log'[i].rid = log[i].rid /\ log[i].rid \in Rid
    BY <1>1, <1>2
  <2>2. nextNo[log[i].rid] \in Nat /\ nextNo'[log[i].rid] \in Nat
        /\ nextNo'[log[i].rid] >= nextNo[log[i].rid]
    BY <1>1, <1>2, <2>1
  <2>3. CASE i \in 1..taken
    <3>1. log'[i].attempt_no = log[i].attempt_no /\ log[i].attempt_no \in Nat
      BY <1>1, <1>2, <2>1, <2>3
    <3> QED BY <1>3, <2>1, <2>2, <2>3, <3>1
  <2>4. CASE i = taken + 1
    BY <1>1, <2>1, <2>2, <2>4
  <2> QED BY <1>2, <2>3, <2>4
<1>6. NumbersGrow'
  BY <1>4, <1>5 DEF NumbersGrow
<1>7. ASSUME NEW r, NEW n \in 0..Len(log) PROVE Spent(log', r, n) <=> Spent(log, r, n)
  <2>1. n \in Nat /\ \A j \in 1..n : log'[j].rid = log[j].rid /\ log'[j].status = log[j].status
    BY <1>1, <1>2
  <2> QED BY <2>1, FailedSame
<1>8. ASSUME NEW i \in 1..Len(log'), log'[i].status = "permanent_failure"
      PROVE  Spent(log', log'[i].rid, i - 1)
  <2>1. i \in 1..Len(log) /\ i - 1 \in 0..Len(log) /\ log'[i].rid = log[i].rid
        /\ log[i].status = "permanent_failure"
    BY <1>1, <1>2, <1>8
  <2>2. Spent(log, log[i].rid, i - 1)
    BY <2>1 DEF QueueInv, GivenUpWithReason
  <2> QED BY <1>7, <2>1, <2>2
<1>9. ASSUME sweep'.pc # "idle", NEW q \in sweep'.spent
      PROVE  Spent(log', q, Len(log'))
  <2>1. Spent(log, q, Len(log)) /\ Len(log) \in 0..Len(log)
    BY <1>2, <1>9 DEF QueueInv, GivenUpWithReason
  <2> QED BY <1>1, <1>7, <2>1
<1>10. GivenUpWithReason'
  BY <1>8, <1>9 DEF GivenUpWithReason
<1> QED BY <1>2, <1>6, <1>10 DEF QueueInv

\* The first rows are what a stop leaves.
LEMMA RowsKept ==
  ASSUME QueueInv, NEW keep \in 0..written, Stop(keep), faults' \in 0..MaxFaults
  PROVE  QueueInv'
<1>1. /\ log' \in Seq(Row) /\ Len(log') = keep /\ keep \in Nat
      /\ \A i \in 1..keep : log'[i] = log[i]
  BY KeptRows DEF QueueInv, TypeOK
<1>2. log \in Seq(Row) /\ Len(log) \in Nat /\ taken \in Nat /\ written \in Nat
      /\ keep <= taken /\ keep <= Len(log)
  BY <1>1 DEF QueueInv, TypeOK
<1>3. TypeOK'
  <2>1. queue' \in Seq(Item) /\ Len(queue') <= QueueMax
    BY ScoreQueueAssumption DEF Stop
  <2>2. worker' \in WorkerStates /\ sweep' \in SweepStates
    BY DEF Stop, WorkerStates, SweepStates
  <2>3. /\ taken' = keep /\ written' = keep /\ synced' = keep
        /\ nextNo' \in [Rid -> Nat] /\ handoff' \subseteq Rid /\ caller' = "away"
        /\ manuals' \in 0..MaxManual
    BY DEF QueueInv, TypeOK, Stop
  <2>4. syncing' \in BOOLEAN /\ up' \in BOOLEAN
    BY DEF Stop
  <2> QED BY <1>1, <2>1, <2>2, <2>3, <2>4 DEF TypeOK
<1>4. NumbersGrow'
  <2>1. ~up' /\ taken' = keep /\ \A i \in 1..keep : i \in 1..taken
    BY <1>1, <1>2 DEF Stop
  <2> QED BY <1>1, <2>1 DEF QueueInv, NumbersGrow
<1>5. ASSUME NEW i \in 1..Len(log'), log'[i].status = "permanent_failure"
      PROVE  Spent(log', log'[i].rid, i - 1)
  <2>1. i \in 1..Len(log) /\ log'[i] = log[i] /\ i - 1 \in Nat
        /\ \A j \in 1..(i - 1) : log'[j] = log[j]
    BY <1>1, <1>2
  <2>2. Spent(log, log[i].rid, i - 1)
    BY <1>5, <2>1 DEF QueueInv, GivenUpWithReason
  <2> QED BY <2>1, <2>2, FailedSame
<1>6. GivenUpWithReason'
  BY <1>5 DEF GivenUpWithReason, Stop, Resting
<1> QED BY <1>1, <1>3, <1>4, <1>6 DEF QueueInv, Stop

\* The numbering is picked up from the file: the greatest number of a request is
\* that of its last row.
LEMMA RowsPickedUp ==
  ASSUME QueueInv, Restart
  PROVE  QueueInv'
<1> DEFINE mine(r) == {i \in 1..written : log[i].rid = r}
           nos(r)  == {log[i].attempt_no : i \in mine(r)}
<1>1. log \in Seq(Row) /\ written = Len(log) /\ taken = written /\ written \in Nat
      /\ \A i \in 1..written : log[i].attempt_no \in Nat /\ log[i].rid \in Rid
  BY RowsTyped DEF QueueInv, Restart
<1>2. ASSUME NEW r \in Rid, mine(r) # {}
      PROVE  \E b \in Nat : \A n \in nos(r) : n <= b
  <2>1. mine(r) \in SUBSET Nat /\ \A i \in mine(r) : i <= written
    BY <1>1
  <2>2. PICK last \in mine(r) : \A i \in mine(r) : i <= last
    BY <1>1, <1>2, <2>1, GreatestNumber
  <2>3. \A i \in mine(r) : i = last \/ log[i].attempt_no < log[last].attempt_no
    BY <1>1, <2>2 DEF QueueInv, NumbersGrow
  <2>4. \A i \in mine(r) : log[i].attempt_no <= log[last].attempt_no
    BY <1>1, <2>3
  <2> QED BY <1>1, <2>4
<1> DEFINE top(r) == CHOOSE n \in nos(r) : \A m \in nos(r) : m <= n
<1>3. ASSUME NEW r \in Rid, mine(r) # {}
      PROVE  top(r) \in Nat /\ \A n \in nos(r) : n <= top(r)
  <2>1. nos(r) \in SUBSET Nat /\ nos(r) # {}
    BY <1>1, <1>3
  <2>2. PICK b \in Nat : \A n \in nos(r) : n <= b
    BY <1>2, <1>3
  <2> HIDE DEF nos
  <2>3. top(r) \in nos(r) /\ \A n \in nos(r) : n <= top(r)
    BY <2>1, <2>2, ChosenGreatest
  <2> QED BY <2>1, <2>3
<1>4. nextNo' = [r \in Rid |-> IF nos(r) = {} THEN 0 ELSE 1 + top(r)]
  BY DEF Restart
<1>5. \A r \in Rid : nos(r) = {} <=> mine(r) = {}
  OBVIOUS
<1>6. ASSUME NEW i \in 1..written PROVE log[i].attempt_no < nextNo'[log[i].rid]
  <2> DEFINE r == log[i].rid
  <2>1. r \in Rid /\ i \in mine(r) /\ log[i].attempt_no \in nos(r) /\ log[i].attempt_no \in Nat
    BY <1>1
  <2> HIDE DEF r, top, nos, mine
  <2>2. top(r) \in Nat /\ log[i].attempt_no <= top(r) /\ nos(r) # {}
    BY <1>3, <2>1
  <2>3. nextNo'[r] = 1 + top(r)
    BY <1>4, <2>1, <2>2
  <2>4. log[i].attempt_no < nextNo'[r]
    BY <2>1, <2>2, <2>3
  <2> QED BY <2>4 DEF r
<1>7. nextNo' \in [Rid -> Nat]
  <2> HIDE DEF top, nos, mine
  <2>1. \A r \in Rid : nos(r) # {} => 1 + top(r) \in Nat
    BY <1>3, <1>5
  <2> QED BY <1>4, <2>1
<1>8. UNCHANGED <<log, taken, written, synced, syncing, queue, worker, sweep, handoff, caller,
                 faults, manuals>> /\ up'
  BY DEF Restart
<1>9. TypeOK'
  BY <1>7, <1>8 DEF QueueInv, TypeOK, Restart
<1>10. NumbersGrow'
  BY <1>1, <1>6, <1>8 DEF QueueInv, NumbersGrow
<1>11. GivenUpWithReason'
  BY <1>8 DEF QueueInv, GivenUpWithReason
<1> QED BY <1>8, <1>9, <1>10, <1>11 DEF QueueInv

-----------------------------------------------------------------------------
(* The actions.                                                              *)

\* What the rest of the type invariant says, for the actions that touch little.
LEMMA Typed ==
  ASSUME TypeOK,
         log' \in Seq(Row), taken' \in Nat, written' \in Nat, synced' \in Nat,
         syncing' \in BOOLEAN, synced' <= written', written' <= taken', taken' <= Len(log'),
         nextNo' \in [Rid -> Nat], worker' \in WorkerStates, sweep' \in SweepStates,
         faults' \in 0..MaxFaults,
         UNCHANGED <<queue, handoff, caller, up, manuals>>
  PROVE  TypeOK'
BY DEF TypeOK

LEMMA FaultTyped ==
  ASSUME TypeOK, Fault
  PROVE  faults' \in 0..MaxFaults
BY ScoreQueueAssumption DEF TypeOK, Fault

LEMMA WriterStep ==
  ASSUME QueueInv, Writer
  PROVE  QueueInv'
<1>1. TypeOK
  BY DEF QueueInv
<1>2. /\ log \in Seq(Row) /\ Len(log) \in Nat /\ taken \in Nat /\ written \in Nat
      /\ synced \in Nat /\ synced <= written /\ written <= taken /\ taken <= Len(log)
      /\ nextNo \in [Rid -> Nat] /\ syncing \in BOOLEAN
      /\ worker \in WorkerStates /\ sweep \in SweepStates /\ faults \in 0..MaxFaults
  BY <1>1, RowsTyped DEF TypeOK
<1>3. CASE Flush
  <2>1. /\ CanTake /\ Number /\ taken' = taken + 1 /\ written' = taken + 1
        /\ UNCHANGED <<synced, queue, worker, sweep, handoff, caller, up, faults, manuals>>
    BY <1>3 DEF Flush
  <2>2. /\ log' \in Seq(Row) /\ Len(log') = Len(log) /\ taken + 1 \in 1..Len(log)
        /\ nextNo' \in [Rid -> Nat]
    BY <1>1, <2>1, NumberedRow
  <2>3. syncing' \in BOOLEAN
    BY <1>3 DEF Flush
  <2>4. taken' \in Nat /\ written' \in Nat /\ synced' \in Nat /\ synced' <= written'
        /\ written' <= taken' /\ taken' <= Len(log')
    BY <1>2, <2>1, <2>2
  <2>5. TypeOK'
    BY <1>1, <1>2, <2>1, <2>2, <2>3, <2>4, Typed
  <2> QED BY <2>1, <2>5, RowTaken
<1>4. CASE FlushFails
  <2>1. /\ CanTake /\ Number /\ taken' = taken + 1 /\ written' \in written..taken
        /\ Signal(taken + 1, "failed") /\ Fault
        /\ UNCHANGED <<synced, syncing, queue, handoff, caller, up, manuals>>
    BY <1>4 DEF FlushFails
  <2>2. /\ log' \in Seq(Row) /\ Len(log') = Len(log) /\ taken + 1 \in 1..Len(log)
        /\ nextNo' \in [Rid -> Nat]
    BY <1>1, <2>1, NumberedRow
  <2>3. /\ worker' \in WorkerStates /\ sweep' \in SweepStates /\ sweep'.pc = sweep.pc
        /\ sweep.pc # "idle" => sweep'.spent = sweep.spent
    <3>1. "failed" \in Receipts
      BY DEF Receipts
    <3> QED BY <1>1, <2>1, <3>1, SignalTyped
  <2>4. taken' \in Nat /\ written' \in Nat /\ synced' \in Nat /\ synced' <= written'
        /\ written' <= taken' /\ taken' <= Len(log')
    BY <1>2, <2>1, <2>2
  <2>5. TypeOK'
    BY <1>1, <1>2, <2>1, <2>2, <2>3, <2>4, FaultTyped, Typed
  <2> QED BY <2>1, <2>3, <2>5, RowTaken
<1>5. CASE Fsync \/ FsyncFails
  <2>1. /\ UNCHANGED <<log, taken, written, nextNo, queue, handoff, caller, up, manuals>>
        /\ synced' \in {synced, written} /\ syncing' = FALSE
        /\ \E res \in {"ok", "failed"} : Signal(taken, res)
        /\ faults' = faults \/ Fault
    BY <1>5 DEF Fsync, FsyncFails
  <2>2. /\ worker' \in WorkerStates /\ sweep' \in SweepStates /\ sweep'.pc = sweep.pc
        /\ sweep.pc # "idle" => sweep'.spent = sweep.spent
    <3>1. {"ok", "failed"} \subseteq Receipts
      BY DEF Receipts
    <3> QED BY <1>1, <2>1, <3>1, SignalTyped
  <2>3. syncing' \in BOOLEAN /\ faults' \in 0..MaxFaults
    BY <1>1, <1>2, <2>1, FaultTyped
  <2>4. synced' \in Nat /\ synced' <= written'
    BY <1>2, <2>1
  <2>5. TypeOK'
    BY <1>1, <1>2, <2>1, <2>2, <2>3, <2>4, Typed
  <2>6. sweep'.pc # "idle" => \A r \in sweep'.spent : Spent(log, r, Len(log))
    BY <2>2 DEF QueueInv, GivenUpWithReason
  <2> QED BY <2>1, <2>5, <2>6, RowsAlone
<1> QED BY <1>3, <1>4, <1>5 DEF Writer

\* Hand-overs, callers and the worker at everything but submitting.
LEMMA QuietStep ==
  ASSUME QueueInv, (\E r \in Rid : Enqueue(r)) \/ Manual \/ ManualPut \/ Take
                   \/ ScoreNothing \/ Finish \/ TimedOut
  PROVE  QueueInv'
<1>1. TypeOK /\ queue \in Seq(Item) /\ worker \in WorkerStates
  BY DEF QueueInv, TypeOK
<1>2. UNCHANGED <<streamVars, sweep, up>>
  BY DEF Enqueue, Manual, ManualPut, Take, ScoreNothing, Finish, TimedOut, Release
<1>3. TypeOK'
  <2>1. CASE \E r \in Rid : Enqueue(r)
    BY <1>1, <2>1, PutTyped DEF Enqueue, TypeOK, streamVars
  <2>2. CASE Manual
    BY <1>1, <2>2, ScoreQueueAssumption DEF Manual, TypeOK, streamVars
  <2>3. CASE ManualPut
    <3>1. PICK r \in Rid : queue' = Append(queue, [rid |-> r, manual |-> TRUE])
      BY <2>3 DEF ManualPut
    <3>2. [rid |-> r, manual |-> TRUE] \in Item
      BY DEF Item
    <3>3. queue' \in Seq(Item) /\ Len(queue') = Len(queue) + 1
      BY <1>1, <3>1, <3>2, AppendProperties
    <3>4. Len(queue') <= QueueMax
      BY <1>1, <2>3, <3>3, ScoreQueueAssumption DEF ManualPut
    <3> QED BY <1>1, <2>3, <3>3, <3>4 DEF ManualPut, TypeOK, streamVars
  <2>4. CASE Take
    <3>1. Head(queue) \in Item /\ queue' \in Seq(Item) /\ Len(queue') = Len(queue) - 1
      BY <1>1, <2>4, HeadTailProperties DEF Take
    <3>2. worker' \in WorkerStates
      BY <2>4, <3>1 DEF Take, WorkerStates
    <3>3. Len(queue') <= QueueMax
      BY <1>1, <3>1, ScoreQueueAssumption DEF TypeOK
    <3> QED BY <1>1, <2>4, <3>1, <3>2, <3>3 DEF Take, TypeOK, streamVars
  <2>5. CASE ScoreNothing \/ Finish \/ TimedOut
    <3>1. worker' \in WorkerStates /\ caller' \in {"away", "putting", "waiting"}
          /\ UNCHANGED <<streamVars, queue, sweep, handoff, up, manuals>>
      BY <1>1, <2>5 DEF ScoreNothing, Finish, TimedOut, Release, WorkerStates, TypeOK
    <3>2. faults' \in 0..MaxFaults
      BY <1>1, <2>5, FaultTyped DEF ScoreNothing, Finish, TimedOut, TypeOK
    <3> QED BY <1>1, <3>1, <3>2 DEF TypeOK, streamVars
  <2> QED BY <2>1, <2>2, <2>3, <2>4, <2>5
<1>4. sweep'.pc # "idle" => \A r \in sweep'.spent : Spent(log, r, Len(log))
  BY <1>2 DEF QueueInv, GivenUpWithReason
<1> QED BY <1>2, <1>3, <1>4, RowsAlone DEF streamVars

LEMMA ScoreStep ==
  ASSUME QueueInv, Score
  PROVE  QueueInv'
<1>1. TypeOK /\ Len(log) \in Nat
  BY RowsTyped DEF QueueInv
<1>2. PICK status \in {"ok", "retryable_error"} : submit_scored(worker.item.rid, status)
  BY DEF Score
<1>3. worker.item \in Item /\ worker.item.rid \in Rid /\ status \in Status
  BY <1>1, Held DEF Score, Item, Status
<1>4. /\ log' \in Seq(Row) /\ Len(log') = Len(log) + 1
      /\ UNCHANGED <<taken, written, synced, syncing, nextNo>>
  BY <1>1, <1>2, <1>3, AppendedRow
<1>5. worker' \in WorkerStates /\ UNCHANGED <<queue, sweep, handoff, caller, up, faults, manuals>>
  <2>1. worker' \in [pc : {"await"}, item : Item, at : Nat, receipt : Receipts]
    BY <1>1, <1>3 DEF Score, Receipts
  <2> QED BY <2>1 DEF Score, WorkerStates
<1>6. TypeOK'
  BY <1>1, <1>4, <1>5 DEF TypeOK
<1>7. up /\ status # "permanent_failure"
  BY <1>2 DEF Score
<1> QED BY <1>2, <1>3, <1>5, <1>6, <1>7, RowSubmitted

\* The sweep: what it learns is on file, and what it condemns it has learnt.
LEMMA SweepStep ==
  ASSUME QueueInv, Sweep
  PROVE  QueueInv'
<1>1. TypeOK /\ sweep \in SweepStates /\ Len(log) \in Nat /\ written \in Nat /\ written <= Len(log)
  BY RowsTyped DEF QueueInv, TypeOK
<1>2. CASE Scan
  <2>1. TypeOK'
    <3>1. sweep' \in [pc : {"decide"}, spent : SUBSET Rid, orphans : SUBSET Rid]
      BY <1>2 DEF Scan
    <3>2. sweep' \in SweepStates
      BY <3>1 DEF SweepStates
    <3> QED BY <1>1, <1>2, <3>2 DEF Scan, TypeOK, streamVars
  <2>2. ASSUME NEW r \in sweep'.spent PROVE Spent(log, r, Len(log))
    <3>1. Failures(r) >= FailThreshold
      BY <1>2 DEF Scan
    <3>2. RowsOf(r, "retryable_error") = FailedIn(log, r, written)
      BY DEF RowsOf, FailedIn
    <3> QED BY <1>1, <3>1, <3>2, FailedMore DEF Failures, Spent
  <2> QED BY <1>2, <2>1, <2>2, RowsAlone DEF Scan, streamVars
<1>3. CASE Condemn
  <2> DEFINE r == First(sweep.spent)
  <2>1. sweep.pc = "decide" /\ sweep.spent # {} /\ sweep.spent \subseteq Rid /\ up
        /\ sweep.orphans \subseteq Rid
    BY <1>1, <1>3, Held DEF Condemn
  <2>2. r \in sweep.spent /\ r \in Rid
    BY <2>1, FirstIsOne
  <2>3. submit_scored(r, "permanent_failure") /\ "permanent_failure" \in Status
    BY <1>3 DEF Condemn, Status
  <2> HIDE DEF r
  <2>4. /\ log' \in Seq(Row) /\ Len(log') = Len(log) + 1
        /\ UNCHANGED <<taken, written, synced, syncing, nextNo>>
    BY <1>1, <2>2, <2>3, AppendedRow
  <2>5. sweep' = [pc |-> "await", spent |-> sweep.spent \ {r}, orphans |-> sweep.orphans,
                  at |-> Len(log) + 1, receipt |-> "none"]
    BY <1>3 DEF Condemn, r
  <2>6. sweep' \in SweepStates
    <3>1. sweep' \in [pc : {"await"}, spent : SUBSET Rid, orphans : SUBSET Rid, at : Nat,
                      receipt : Receipts]
      BY <1>1, <2>1, <2>5 DEF Receipts
    <3> QED BY <3>1 DEF SweepStates
  <2>7. UNCHANGED <<queue, worker, handoff, caller, up, faults, manuals>>
    BY <1>3 DEF Condemn
  <2>8. TypeOK'
    BY <1>1, <2>4, <2>6, <2>7 DEF TypeOK
  <2>9. Spent(log, r, Len(log))
    BY <2>1, <2>2 DEF QueueInv, GivenUpWithReason
  <2>10. sweep'.spent \subseteq sweep.spent
    BY <2>5
  <2> QED BY <2>1, <2>2, <2>3, <2>7, <2>8, <2>9, <2>10, RowSubmitted
<1>4. CASE Condemned \/ Abandon \/ Requeue \/ Rest
  <2>1. UNCHANGED <<streamVars, worker, handoff, caller, up, manuals>>
    BY <1>4 DEF Condemned, Abandon, Requeue, Rest
  <2>2. sweep' \in SweepStates /\ (sweep'.pc # "idle" => sweep.pc # "idle" /\ sweep'.spent = sweep.spent)
    <3>1. CASE Condemned
      <4>1. sweep.pc = "await" /\ sweep.spent \subseteq Rid /\ sweep.orphans \subseteq Rid
        BY <1>1, <3>1, Held DEF Condemned
      <4>2. sweep' \in [pc : {"decide"}, spent : SUBSET Rid, orphans : SUBSET Rid]
            /\ sweep'.spent = sweep.spent
        BY <3>1, <4>1 DEF Condemned
      <4> QED BY <4>1, <4>2 DEF SweepStates
    <3>2. CASE Requeue
      <4>1. sweep.pc = "decide" /\ sweep \in [pc : {"decide"}, spent : SUBSET Rid,
                                              orphans : SUBSET Rid]
        BY <1>1, <3>2, Held DEF Requeue
      <4>2. sweep' \in [pc : {"decide"}, spent : SUBSET Rid, orphans : SUBSET Rid]
            /\ sweep'.spent = sweep.spent
        BY <3>2, <4>1 DEF Requeue
      <4> QED BY <4>1, <4>2 DEF SweepStates
    <3>3. CASE Abandon \/ Rest
      BY <3>3 DEF Abandon, Rest, Resting, SweepStates
    <3> QED BY <1>4, <3>1, <3>2, <3>3
  <2>3. queue' \in Seq(Item) /\ Len(queue') <= QueueMax
    <3>1. CASE Requeue
      <4>1. sweep.orphans \subseteq Rid /\ sweep.orphans # {}
        BY <1>1, <3>1, Held DEF Requeue
      <4>2. First(sweep.orphans) \in Rid /\ PutNowait(First(sweep.orphans))
        BY <3>1, <4>1, FirstIsOne DEF Requeue
      <4> QED BY <1>1, <4>2, PutTyped
    <3>2. CASE queue' = queue
      BY <3>2 DEF QueueInv, TypeOK
    <3> QED BY <1>4, <3>1, <3>2 DEF Condemned, Abandon, Rest
  <2>4. faults' \in 0..MaxFaults
    BY <1>1, <1>4, FaultTyped DEF Condemned, Abandon, Requeue, Rest, TypeOK
  <2>5. TypeOK'
    BY <1>1, <2>1, <2>2, <2>3, <2>4 DEF TypeOK, streamVars
  <2>6. sweep'.pc # "idle" => \A r \in sweep'.spent : Spent(log, r, Len(log))
    BY <2>2 DEF QueueInv, GivenUpWithReason
  <2> QED BY <2>1, <2>5, <2>6, RowsAlone DEF streamVars
<1> QED BY <1>2, <1>3, <1>4 DEF Sweep

LEMMA StopStep ==
  ASSUME QueueInv, Kill \/ PowerLoss
  PROVE  QueueInv'
<1>1. TypeOK /\ synced \in Nat /\ written \in Nat
  BY DEF QueueInv, TypeOK
<1>2. PICK keep \in 0..written : Stop(keep)
  BY <1>1 DEF Kill, PowerLoss
<1>3. faults' \in 0..MaxFaults
  BY <1>1, FaultTyped DEF Kill, PowerLoss
<1> QED BY <1>2, <1>3, RowsKept

LEMMA QueueStep == QueueInv /\ [Next]_vars => QueueInv'
<1> SUFFICES ASSUME QueueInv, [Next]_vars PROVE QueueInv'
  OBVIOUS
<1>1. CASE UNCHANGED vars
  <2>1. TypeOK'
    BY <1>1 DEF vars, streamVars, QueueInv, TypeOK
  <2>2. sweep'.pc # "idle" => \A r \in sweep'.spent : Spent(log, r, Len(log))
    BY <1>1 DEF vars, QueueInv, GivenUpWithReason
  <2> QED BY <1>1, <2>1, <2>2, RowsAlone DEF vars, streamVars
<1>2. CASE Next
  BY <1>2, WriterStep, QuietStep, ScoreStep, SweepStep, StopStep, RowsPickedUp DEF Next, Working
<1> QED BY <1>1, <1>2

-----------------------------------------------------------------------------

\* The inductive invariant, of every reachable state.
THEOREM InvHolds == Spec => []QueueInv
<1>1. Init => QueueInv
  BY QueueInit
<1>2. QueueInv /\ [Next]_vars => QueueInv'
  BY QueueStep
<1> QED BY <1>1, <1>2, PTL DEF Spec

\* The numbers of a request's rows grow along the file, over failed writes, rows
\* lost in a stop and any number of restarts.
THEOREM NumbersOfARequestGrow == Spec => []AttemptNosGrow
<1>1. QueueInv => AttemptNosGrow
  <2> SUFFICES ASSUME QueueInv PROVE AttemptNosGrow
    OBVIOUS
  <2>1. \A i \in 1..written : i \in 1..taken
    BY RowsTyped DEF QueueInv
  <2> QED BY <2>1 DEF QueueInv, NumbersGrow, AttemptNosGrow
<1> QED BY <1>1, InvHolds, PTL

\* Nobody is given up before FailThreshold failures of his are on file in front of
\* the row that says so.
THEOREM NobodyGivenUpEarly == Spec => []PermanentHasFailures
<1>1. QueueInv => PermanentHasFailures
  <2> SUFFICES ASSUME QueueInv PROVE PermanentHasFailures
    OBVIOUS
  <2>1. \A i \in 1..written : i \in 1..Len(log)
    BY RowsTyped DEF QueueInv
  <2> QED BY <2>1 DEF QueueInv, GivenUpWithReason, PermanentHasFailures, Spent, FailedIn
<1> QED BY <1>1, InvHolds, PTL
=============================================================================
