------------------------ MODULE DistillBridgeProofs ------------------------
(***************************************************************************)
(* Proofs about DistillBridge, for any archive, any number of processes,   *)
(* any budgets and any number of faults: nothing a cursor has passed is    *)
(* lost, the journal and the pages agree, what is on file stays on file,   *)
(* and what a quarantine keeps out.                                        *)
(*                                                                         *)
(* That no entry is written twice rests on the lease: between the look for *)
(* the entry and its writing nobody else writes, so the batch that is      *)
(* about to write has one chance more than there are entries.  The         *)
(* invariant says so at each step from the one to the other.               *)
(***************************************************************************)
EXTENDS DistillBridge, NumberFacts

Writes == {"probe", "put", "add"}

Batch == [pc : Stages, todo : SUBSET (Source \cup Span \cup Msg), used : Nat,
          row : Msg \cup {None}]

FiltersLetThrough ==
  \A b \in Bridge : batch[b].pc = "read" =>
    \A f \in batch[b].todo : f \in Source /\ LetThrough(f)

\* What a batch is about to distil is on file.
TodoOnFile ==
  \A b \in Bridge : batch[b].pc = "distill" =>
    \A s \in batch[b].todo : s \in Span /\ raw[s] # "none"

\* The entry a batch is about to write is not there and not under way more often
\* than the bridge has missed it; one it has written is there.
OneChanceMore ==
  \A b \in Bridge :
    /\ batch[b].pc \in Writes =>
         timeline[batch[b].row] + late[batch[b].row] <= blind[batch[b].row]
    /\ batch[b].pc = "mark" => timeline[batch[b].row] > 0

Typed     == TypeOK /\ batch \in [Bridge -> Batch]
ReadPart  == /\ NothingSkipped /\ ReadAsReleased
             /\ FiltersLetThrough /\ TodoOnFile
WritePart == WrittenAsRecorded /\ OneChanceMore

Inv == Typed /\ ReadPart /\ WritePart

-----------------------------------------------------------------------------
(* Reading.                                                                  *)

LEMMA MsgTyped ==
  /\ N \in Nat /\ Msg \subseteq Nat /\ \A m \in Msg : m <= N
  /\ \A m \in Msg : From[m] \in Source
BY DistillAssumption DEF Msg

LEMMA MinMax ==
  ASSUME NEW S \in SUBSET Msg, S # {}
  PROVE  /\ Max(S) \in S /\ \A n \in S : n <= Max(S)
         /\ Min(S) \in S /\ \A n \in S : Min(S) <= n
<1>1. S \in SUBSET Nat /\ \A n \in S : n <= N
  BY MsgTyped
<1>2. \E x \in S : \A y \in S : x >= y
  <2>1. PICK x \in S : \A y \in S : y <= x
    BY <1>1, MsgTyped, GreatestNumber
  <2> QED BY <1>1, <2>1
<1>3. Max(S) \in S /\ \A y \in S : Max(S) >= y
  BY <1>2, Zenon DEF Max
<1>4. \E x \in S : \A y \in S : x <= y
  BY <1>1, LeastNumber
<1>5. Min(S) \in S /\ \A y \in S : Min(S) <= y
  BY <1>4, Zenon DEF Min
<1> QED BY <1>1, <1>3, <1>5

\* The spans of some messages are spans, cover them, and are of their conversations.
LEMMA SpansCover ==
  ASSUME NEW ms \in SUBSET Msg
  PROVE  /\ SpansOf(ms) \subseteq Span
         /\ \A m \in ms : \E s \in SpansOf(ms) : m \in MessagesOf(s)
         /\ \A s \in SpansOf(ms) : \E m \in ms : s.conv = From[m]
<1> DEFINE of(c) == {m \in ms : From[m] = c}
           span(c) == [conv |-> c, lo |-> Min(of(c)), hi |-> Max(of(c))]
<1>1. SpansOf(ms) = {span(c) : c \in {From[m] : m \in ms}}
  BY DEF SpansOf
<1>2. ASSUME NEW m \in ms
      PROVE  /\ span(From[m]) \in Span /\ span(From[m]) \in SpansOf(ms)
             /\ m \in MessagesOf(span(From[m]))
  <2> DEFINE c == From[m]
  <2>1. of(c) \in SUBSET Msg /\ m \in of(c) /\ of(c) # {} /\ \A n \in of(c) : From[n] = c
    OBVIOUS
  <2> HIDE DEF of
  <2>2. /\ Max(of(c)) \in of(c) /\ \A n \in of(c) : n <= Max(of(c))
        /\ Min(of(c)) \in of(c) /\ \A n \in of(c) : Min(of(c)) <= n
    BY <2>1, MinMax
  <2>3. Max(of(c)) \in Msg /\ Min(of(c)) \in Msg /\ m \in Msg /\ c \in Source
        /\ From[Max(of(c))] = c /\ From[Min(of(c))] = c
        /\ Min(of(c)) <= m /\ m <= Max(of(c))
    BY <2>1, <2>2, MsgTyped
  <2>4. m \in Nat /\ Min(of(c)) \in Nat /\ Max(of(c)) \in Nat /\ Min(of(c)) <= Max(of(c))
    <3>1. m \in Nat /\ Min(of(c)) \in Nat /\ Max(of(c)) \in Nat
      BY <2>3, MsgTyped
    <3>2. \A i, j, k \in Nat : i <= j /\ j <= k => i <= k
      OBVIOUS
    <3> QED BY <2>3, <3>1, <3>2
  <2>5. span(c) \in Span
    BY <2>3, <2>4 DEF Span
  <2>6. m \in MessagesOf(span(c))
    BY <2>3, <2>4 DEF MessagesOf
  <2>7. span(c) \in SpansOf(ms)
    BY <1>1
  <2> QED BY <2>5, <2>6, <2>7
<1> HIDE DEF span
<1>3. \A c : span(c).conv = c
  BY DEF span
<1> QED BY <1>1, <1>2, <1>3

\* The messages read next: nothing that matches is left out below the last of them.
LEMMA NextInOrder ==
  ASSUME TypeOK, NEW f \in Source, NEW ms, ms = Next_messages(f)
  PROVE  /\ ms \in SUBSET Msg /\ \A m \in ms : Matches(m, f)
         /\ ms # {} => /\ Max(ms) \in Msg
                       /\ \A m \in Msg : m <= Max(ms) /\ m > cursor[f] /\ Matches(m, f) => m \in ms
<1> DEFINE new == {m \in 1..arrived : m > cursor[f] /\ Matches(m, f)}
           below(m) == {n \in new : n < m}
<1>1. ms = {m \in new : Cardinality(below(m)) < Limit}
  BY DEF Next_messages
<1>2. arrived \in Nat /\ arrived <= N /\ new \in SUBSET Msg /\ new \in SUBSET (1..arrived)
  BY MsgTyped DEF TypeOK, Msg
<1>3. ms \in SUBSET Msg /\ \A m \in ms : Matches(m, f)
  BY <1>1, <1>2
<1>4. ASSUME ms # {}, NEW m \in Msg, m <= Max(ms), m > cursor[f], Matches(m, f)
      PROVE  m \in ms
  <2>1. Max(ms) \in ms /\ Max(ms) \in new /\ Cardinality(below(Max(ms))) < Limit
    BY <1>1, <1>3, <1>4, MinMax
  <2>2. m \in new
    BY <1>2, <1>4, <2>1, MsgTyped DEF Msg
  <2>3. below(m) \in SUBSET below(Max(ms)) /\ below(Max(ms)) \in SUBSET (1..arrived)
    BY <1>2, <1>4, <2>1, MsgTyped
  <2>4. IsFiniteSet(1..arrived)
    BY <1>2, FS_Interval
  <2> HIDE DEF below, new
  <2>5. IsFiniteSet(below(Max(ms))) /\ IsFiniteSet(below(m))
        /\ Cardinality(below(m)) <= Cardinality(below(Max(ms)))
    BY <2>3, <2>4, FS_Subset
  <2>6. Cardinality(below(m)) \in Nat /\ Cardinality(below(Max(ms))) \in Nat /\ Limit \in Nat
    BY <2>5, FS_CardinalityType, DistillAssumption
  <2>7. Cardinality(below(m)) < Limit
    BY <2>1, <2>5, <2>6
  <2> QED BY <1>1, <2>2, <2>7
<1>5. ms # {} => Max(ms) \in Msg
  BY <1>3, MinMax
<1> QED BY <1>3, <1>4, <1>5

-----------------------------------------------------------------------------
(* Types.                                                                    *)

\* Stages at which a batch has a journal row in hand.
OnRow == {"probe", "put", "add", "mark"}

\* A process that holds the lease, or takes it, goes to e: the others are idle.
LEMMA Moved ==
  ASSUME Typed, NEW b \in Bridge, lease \in {b, None}, NEW e \in Batch,
         batch' = [batch EXCEPT ![b] = e], e.pc \in OnRow <=> e.row \in Msg,
         lease' = IF e.pc = "idle" THEN None ELSE b
  PROVE  /\ batch' \in [Bridge -> Batch] /\ lease' \in Bridge \cup {None}
         /\ \A c \in Bridge :
              /\ batch'[c].pc \in Stages /\ (batch'[c].pc # "idle" <=> lease' = c)
              /\ batch'[c].pc \in OnRow <=> batch'[c].row \in Msg
         /\ batch'[b] = e
         /\ \A c \in Bridge : c # b => batch'[c] = batch[c] /\ batch[c].pc = "idle"
<1>1. batch \in [Bridge -> Batch] /\ None \notin Bridge
  BY DistillAssumption DEF Typed
<1>2. batch' \in [Bridge -> Batch] /\ batch'[b] = e
      /\ \A c \in Bridge : c # b => batch'[c] = batch[c]
  BY <1>1
<1>3. \A c \in Bridge : c # b => batch[c].pc = "idle" /\ lease # c /\ lease' # c
  BY <1>1 DEF Typed, TypeOK
<1>4. e.pc \in Stages
  BY DEF Batch
<1> HIDE DEF Batch
<1>5. ASSUME NEW c \in Bridge
      PROVE  /\ batch'[c].pc \in Stages /\ (batch'[c].pc # "idle" <=> lease' = c)
             /\ batch'[c].pc \in OnRow <=> batch'[c].row \in Msg
  <2>1. CASE c = b
    BY <1>1, <1>2, <1>4, <2>1
  <2>2. CASE c # b
    BY <1>2, <1>3, <2>2 DEF Typed, TypeOK, OnRow
  <2> QED BY <2>1, <2>2
<1> QED BY <1>1, <1>2, <1>3, <1>5

\* The type of a process at each stage.
LEMMA Staged ==
  ASSUME Typed, NEW b \in Bridge
  PROVE  /\ batch[b] \in Batch
         /\ batch[b].pc \in OnRow => batch[b].row \in Msg
         /\ batch[b].pc \notin OnRow => batch[b].row = None
         /\ batch[b].pc # "idle" => lease = b
         /\ batch[b] = [pc |-> batch[b].pc, todo |-> batch[b].todo, used |-> batch[b].used,
                        row |-> batch[b].row]
         /\ batch[b].todo \subseteq Source \cup Span \cup Msg /\ batch[b].used \in Nat
<1>1. batch[b] \in Batch
  BY DEF Typed
<1> QED BY <1>1 DEF Typed, TypeOK, Batch, OnRow

LEMMA FaultTyped ==
  ASSUME TypeOK, Fault
  PROVE  faults' \in 0..MaxFaults
BY DistillAssumption DEF TypeOK, Fault

\* What the steps leave of the type invariant, apart from the processes.
LEMMA BatchTyped ==
  ASSUME Typed, arrived' \in 0..N,
         sources' \in [Source -> {"unseen", "quarantined", "released"}],
         cursor' \in [Source -> 0..N],
         raw' \in [Span -> {"none", "new", "raw_deferred", "raw_quarantined", "distilled"}],
         journal' \in [Msg -> {"none", "pending", "deferred", "quarantined", "done"}],
         pages' \subseteq Page, timeline' \in [Msg -> Nat], late' \in [Msg -> Nat],
         blind' \in [Msg -> Nat], faults' \in 0..MaxFaults, replays' \in 0..MaxReplays,
         batch' \in [Bridge -> Batch], lease' \in Bridge \cup {None},
         \A c \in Bridge :
              /\ batch'[c].pc \in Stages /\ (batch'[c].pc # "idle" <=> lease' = c)
              /\ batch'[c].pc \in OnRow <=> batch'[c].row \in Msg
  PROVE  Typed'
BY DEF Typed, TypeOK, OnRow

-----------------------------------------------------------------------------
(* The parts of the invariant that a step leaves alone.                      *)

\* A step that moves no cursor, puts no span on file and gives nobody a filter or
\* a span to distil.
LEMMA ReadAlone ==
  ASSUME ReadPart, UNCHANGED <<sources, cursor>>,
         \A s \in Span : raw'[s] # "none" <=> raw[s] # "none",
         \A c \in Bridge : batch'[c].pc \in {"read", "distill"} =>
            batch[c].pc = batch'[c].pc /\ batch'[c].todo \subseteq batch[c].todo
  PROVE  ReadPart'
<1>1. \A m \in Msg : Covered(m) => Covered(m)'
  BY DEF Covered
<1>2. NothingSkipped'
  BY <1>1 DEF ReadPart, NothingSkipped
<1>3. \A f : LetThrough(f)' <=> LetThrough(f)
  BY DEF LetThrough
<1>4. ReadAsReleased'
  BY <1>3 DEF ReadPart, ReadAsReleased
<1>5. FiltersLetThrough'
  BY <1>3 DEF ReadPart, FiltersLetThrough
<1>6. TodoOnFile'
  BY DEF ReadPart, TodoOnFile
<1> QED BY <1>2, <1>4, <1>5, <1>6 DEF ReadPart

\* A step that sends no entry, and calls done only what is written.
LEMMA WriteAlone ==
  ASSUME WritePart, UNCHANGED <<timeline, late, blind>>,
         \A k \in Msg : journal'[k] = "done" => journal[k] = "done" \/ timeline[k] > 0,
         \A c \in Bridge :
            /\ batch'[c].pc \in Writes => batch[c].pc \in Writes /\ batch'[c].row = batch[c].row
            /\ batch'[c].pc = "mark" => batch[c].pc = "mark" /\ batch'[c].row = batch[c].row
  PROVE  WritePart'
BY DEF WritePart, WrittenAsRecorded, DoneIsWritten, WrittenOnce, OneChanceMore

-----------------------------------------------------------------------------
(* The world, and the start and the end of a batch.                          *)

LEMMA BatchAlone ==
  ASSUME Typed, UNCHANGED <<batch, lease>>
  PROVE  /\ batch' \in [Bridge -> Batch] /\ lease' \in Bridge \cup {None}
         /\ \A c \in Bridge :
              /\ batch'[c].pc \in Stages /\ (batch'[c].pc # "idle" <=> lease' = c)
              /\ batch'[c].pc \in OnRow <=> batch'[c].row \in Msg
BY DEF Typed, TypeOK, OnRow

LEMMA ArriveStep ==
  ASSUME Inv, Arrive
  PROVE  Inv'
<1>1. Typed /\ ReadPart /\ WritePart
  BY DEF Inv
<1>2. UNCHANGED <<sources, cursor, raw, journal, lease, batch, pages, timeline, late, blind,
                  faults, replays>>
  BY DEF Arrive, remote, bounds
<1>3. arrived' \in 0..N
  BY <1>1, MsgTyped DEF Typed, TypeOK, Arrive
<1>4. Typed'
  BY <1>1, <1>2, <1>3, BatchAlone, BatchTyped DEF Typed, TypeOK
<1>5. ReadPart'
  BY <1>1, <1>2, ReadAlone
<1>6. WritePart'
  BY <1>1, <1>2, WriteAlone
<1> QED BY <1>4, <1>5, <1>6 DEF Inv

LEMMA LandStep ==
  ASSUME Inv, NEW k \in Msg, Land(k)
  PROVE  Inv'
<1>1. Typed /\ ReadPart /\ WritePart
  BY DEF Inv
<1>2. UNCHANGED <<arrived, sources, cursor, raw, journal, lease, batch, pages, faults, replays, blind>>
  BY DEF Land, bounds
<1>3. timeline \in [Msg -> Nat] /\ late \in [Msg -> Nat] /\ blind \in [Msg -> Nat] /\ late[k] > 0
  BY <1>1 DEF Land, Typed, TypeOK
<1>4. /\ timeline' = [timeline EXCEPT ![k] = @ + 1] /\ late' = [late EXCEPT ![k] = @ - 1]
      /\ timeline' \in [Msg -> Nat] /\ late' \in [Msg -> Nat]
  BY <1>3 DEF Land
<1>5. \A m \in Msg : /\ timeline'[m] + late'[m] = timeline[m] + late[m]
                     /\ timeline[m] > 0 => timeline'[m] > 0
  BY <1>3, <1>4
<1>6. Typed'
  BY <1>1, <1>2, <1>4, BatchAlone, BatchTyped DEF Typed, TypeOK
<1>7. ReadPart'
  BY <1>1, <1>2, ReadAlone
<1>8. WritePart'
  <2>1. \A b \in Bridge : batch[b].pc \in Writes \cup {"mark"} => batch[b].row \in Msg
    BY <1>1, Staged DEF Writes, OnRow
  <2>2. WrittenAsRecorded'
    BY <1>1, <1>2, <1>5 DEF WritePart, WrittenAsRecorded, DoneIsWritten, WrittenOnce
  <2>3. OneChanceMore'
    BY <1>1, <1>2, <1>5, <2>1 DEF WritePart, OneChanceMore
  <2> QED BY <2>2, <2>3 DEF WritePart
<1> QED BY <1>6, <1>7, <1>8 DEF Inv

LEMMA OperatorStep ==
  ASSUME Inv, Operator
  PROVE  Inv'
<1>1. Typed /\ ReadPart /\ WritePart
  BY DEF Inv
<1>2. UNCHANGED <<arrived, cursor, lease, batch, pages, timeline, late, blind, faults>>
  BY DEF Operator, Release, replay_raw, replay_journal, remote, bounds
<1>3. CASE \E c \in Source : Release(c)
  <2>1. PICK c \in Source : Release(c)
    BY <1>3
  <2>2. /\ sources[c] = "quarantined" /\ sources' = [sources EXCEPT ![c] = "released"]
        /\ UNCHANGED <<raw, journal, replays>>
    BY <2>1 DEF Release, bounds
  <2>3. /\ sources \in [Source -> {"unseen", "quarantined", "released"}]
        /\ sources' \in [Source -> {"unseen", "quarantined", "released"}]
        /\ \A d \in Source : /\ sources[d] = "released" => sources'[d] = "released"
                             /\ sources'[d] # "unseen" => sources[d] # "unseen"
    BY <1>1, <2>2 DEF Typed, TypeOK
  <2>4. Typed'
    BY <1>1, <1>2, <2>2, <2>3, BatchAlone, BatchTyped DEF Typed, TypeOK
  <2>5. ReadPart'
    <3>1. \A d \in Source : LetThrough(d) => LetThrough(d)'
      BY <2>3 DEF LetThrough
    <3>2. \A s \in Span : s.conv \in Source /\ AllOf(s.conv) \in Source
      BY DEF Span, AllOf, Source
    <3>3. ReadAsReleased' /\ FiltersLetThrough' /\ TodoOnFile'
      BY <1>1, <1>2, <2>2, <2>3, <3>1, <3>2
         DEF ReadPart, ReadAsReleased, FiltersLetThrough, TodoOnFile
    <3>4. NothingSkipped'
      BY <1>1, <1>2, <2>2 DEF ReadPart, NothingSkipped, Covered
    <3> QED BY <3>3, <3>4 DEF ReadPart
  <2>6. WritePart'
    BY <1>1, <1>2, <2>2, WriteAlone
  <2> QED BY <2>4, <2>5, <2>6 DEF Inv
<1>4. CASE \E s \in Span : replay_raw(s)
  <2>1. PICK s \in Span : replay_raw(s)
    BY <1>4
  <2>2. /\ raw[s] = "raw_quarantined" /\ raw' = [raw EXCEPT ![s] = "new"]
        /\ replays < MaxReplays /\ replays' = replays + 1 /\ UNCHANGED <<sources, journal>>
    BY <2>1 DEF replay_raw
  <2>3. /\ raw' \in [Span -> {"none", "new", "raw_deferred", "raw_quarantined", "distilled"}]
        /\ \A t \in Span : raw'[t] # "none" <=> raw[t] # "none"
        /\ replays' \in 0..MaxReplays
    BY <1>1, <2>2, DistillAssumption DEF Typed, TypeOK
  <2>4. Typed'
    BY <1>1, <1>2, <2>2, <2>3, BatchAlone, BatchTyped DEF Typed, TypeOK
  <2>5. ReadPart' /\ WritePart'
    BY <1>1, <1>2, <2>2, <2>3, ReadAlone, WriteAlone
  <2> QED BY <2>4, <2>5 DEF Inv
<1>5. CASE \E k \in Msg : replay_journal(k)
  <2>1. PICK k \in Msg : replay_journal(k)
    BY <1>5
  <2>2. /\ journal' = [journal EXCEPT ![k] = "pending"]
        /\ replays < MaxReplays /\ replays' = replays + 1 /\ UNCHANGED <<sources, raw>>
    BY <2>1 DEF replay_journal
  <2>3. /\ journal' \in [Msg -> {"none", "pending", "deferred", "quarantined", "done"}]
        /\ \A m \in Msg : journal'[m] = "done" => journal[m] = "done"
        /\ replays' \in 0..MaxReplays
    BY <1>1, <2>2, DistillAssumption DEF Typed, TypeOK
  <2>4. Typed'
    BY <1>1, <1>2, <2>2, <2>3, BatchAlone, BatchTyped DEF Typed, TypeOK
  <2>5. ReadPart' /\ WritePart'
    BY <1>1, <1>2, <2>2, <2>3, ReadAlone, WriteAlone
  <2> QED BY <2>4, <2>5 DEF Inv
<1> QED BY <1>3, <1>4, <1>5 DEF Operator

\* A step of b leaves the other processes idle, so what holds of it holds of all.
LEMMA BeginStep ==
  ASSUME Inv, NEW b \in Bridge, Begin(b)
  PROVE  Inv'
<1>1. Typed /\ ReadPart /\ WritePart
  BY DEF Inv
<1>2. UNCHANGED <<arrived, sources, cursor, raw, journal, pages, timeline, late, blind,
                  faults, replays>>
  BY DEF Begin, remote, bounds
<1>3. At("reset", {}) \in Batch /\ At("reset", {}).pc = "reset" /\ At("reset", {}).row = None
  BY DEF At, Batch, Stages
<1>4. /\ batch' \in [Bridge -> Batch] /\ lease' \in Bridge \cup {None}
      /\ \A c \in Bridge :
              /\ batch'[c].pc \in Stages /\ (batch'[c].pc # "idle" <=> lease' = c)
              /\ batch'[c].pc \in OnRow <=> batch'[c].row \in Msg
      /\ batch'[b] = At("reset", {})
      /\ \A c \in Bridge : c # b => batch'[c] = batch[c] /\ batch[c].pc = "idle"
  BY <1>1, <1>3, Moved, DistillAssumption DEF Begin, OnRow
<1>5. Typed'
  BY <1>1, <1>2, <1>4, BatchTyped DEF Typed, TypeOK
<1>6. \A c \in Bridge : batch'[c].pc \in {"reset", "idle"}
  BY <1>3, <1>4
<1>7. ReadPart' /\ WritePart'
  BY <1>1, <1>2, <1>6, ReadAlone, WriteAlone DEF Writes
<1> QED BY <1>5, <1>7 DEF Inv

LEMMA CrashStep ==
  ASSUME Inv, NEW b \in Bridge, Crash(b)
  PROVE  Inv'
<1>1. Typed /\ ReadPart /\ WritePart
  BY DEF Inv
<1>2. /\ UNCHANGED <<arrived, sources, cursor, raw, journal, pages, timeline, blind, replays>>
      /\ batch[b].pc # "idle" /\ lease = b /\ lease' = None /\ batch' = [batch EXCEPT ![b] = Idle]
      /\ Fault
  BY <1>1, Staged DEF Crash
<1>3. Idle \in Batch /\ Idle.pc = "idle" /\ Idle.row = None
  BY DEF Idle, Batch, Stages
<1>4. /\ batch' \in [Bridge -> Batch] /\ lease' \in Bridge \cup {None}
      /\ \A c \in Bridge :
              /\ batch'[c].pc \in Stages /\ (batch'[c].pc # "idle" <=> lease' = c)
              /\ batch'[c].pc \in OnRow <=> batch'[c].row \in Msg
      /\ batch'[b] = Idle
      /\ \A c \in Bridge : c # b => batch'[c] = batch[c] /\ batch[c].pc = "idle"
  BY <1>1, <1>2, <1>3, Moved, DistillAssumption DEF OnRow
<1>5. /\ late' \in [Msg -> Nat]
      /\ \A m \in Msg : \/ late'[m] = late[m]
                        \/ batch[b].pc = "add" /\ m = batch[b].row /\ late'[m] = late[m] + 1
  BY <1>1, Staged DEF Crash, Typed, TypeOK, OnRow
<1>6. Typed'
  BY <1>1, <1>2, <1>4, <1>5, FaultTyped, BatchTyped DEF Typed, TypeOK
<1>7. \A c \in Bridge : batch'[c].pc = "idle"
  BY <1>3, <1>4
<1>8. ReadPart'
  BY <1>1, <1>2, <1>7, ReadAlone
<1>9. WritePart'
  <2>1. batch[b].pc = "add" => timeline[batch[b].row] + late[batch[b].row] <= blind[batch[b].row]
    BY <1>1 DEF WritePart, OneChanceMore, Writes
  <2>2. timeline \in [Msg -> Nat] /\ late \in [Msg -> Nat] /\ blind \in [Msg -> Nat]
    BY <1>1 DEF Typed, TypeOK
  <2>3. ASSUME NEW m \in Msg PROVE timeline[m] + late'[m] <= 1 + blind[m]
    BY <1>1, <1>5, <2>1, <2>2 DEF WritePart, WrittenAsRecorded, WrittenOnce
  <2>4. WrittenAsRecorded'
    BY <1>1, <1>2, <2>3 DEF WritePart, WrittenAsRecorded, DoneIsWritten, WrittenOnce
  <2>5. OneChanceMore'
    BY <1>7 DEF OneChanceMore, Writes
  <2> QED BY <2>4, <2>5 DEF WritePart
<1> QED BY <1>6, <1>8, <1>9 DEF Inv

-----------------------------------------------------------------------------
(* Reading: the deferred ones, the sources, the spans.                       *)

\* A process that keeps the lease goes to e.
LEMMA Holding ==
  ASSUME Typed, NEW b \in Bridge, batch[b].pc # "idle", NEW e \in Batch,
         batch' = [batch EXCEPT ![b] = e], e.pc \in OnRow <=> e.row \in Msg,
         e.pc # "idle", lease' = lease
  PROVE  /\ batch' \in [Bridge -> Batch] /\ lease' \in Bridge \cup {None}
         /\ \A c \in Bridge :
              /\ batch'[c].pc \in Stages /\ (batch'[c].pc # "idle" <=> lease' = c)
              /\ batch'[c].pc \in OnRow <=> batch'[c].row \in Msg
         /\ batch'[b] = e
         /\ \A c \in Bridge : c # b => batch'[c] = batch[c] /\ batch[c].pc = "idle"
<1>1. lease = b
  BY Staged
<1> QED BY <1>1, Moved

LEMMA StageTyped ==
  ASSUME NEW pc \in Stages \ OnRow, NEW todo \in SUBSET (Source \cup Span \cup Msg)
  PROVE  /\ At(pc, todo) \in Batch /\ At(pc, todo).pc = pc /\ At(pc, todo).todo = todo
         /\ At(pc, todo).pc \in OnRow <=> At(pc, todo).row \in Msg
BY DistillAssumption DEF At, Batch, OnRow

LEMMA ResetStep ==
  ASSUME Inv, NEW b \in Bridge, reset_deferred(b)
  PROVE  Inv'
<1>1. Typed /\ ReadPart /\ WritePart
  BY DEF Inv
<1>2. UNCHANGED <<arrived, sources, cursor, lease, pages, timeline, late, blind, faults, replays>>
  BY DEF reset_deferred, remote, bounds
<1>3. /\ batch' \in [Bridge -> Batch] /\ lease' \in Bridge \cup {None}
      /\ \A c \in Bridge :
              /\ batch'[c].pc \in Stages /\ (batch'[c].pc # "idle" <=> lease' = c)
              /\ batch'[c].pc \in OnRow <=> batch'[c].row \in Msg
      /\ batch'[b] = At("discover", {})
      /\ \A c \in Bridge : c # b => batch'[c] = batch[c] /\ batch[c].pc = "idle"
  <2>1. "discover" \in Stages \ OnRow
    BY DEF Stages, OnRow
  <2> QED BY <1>1, <1>2, <2>1, StageTyped, Holding DEF reset_deferred
<1>4. /\ raw' \in [Span -> {"none", "new", "raw_deferred", "raw_quarantined", "distilled"}]
      /\ \A s \in Span : raw'[s] # "none" <=> raw[s] # "none"
      /\ journal' \in [Msg -> {"none", "pending", "deferred", "quarantined", "done"}]
      /\ \A k \in Msg : journal'[k] = "done" => journal[k] = "done"
  BY <1>1 DEF reset_deferred, Typed, TypeOK
<1>5. \A c \in Bridge : batch'[c].pc \in {"discover", "idle"}
  BY <1>3 DEF At
<1>6. Typed'
  BY <1>1, <1>2, <1>3, <1>4, BatchTyped DEF Typed, TypeOK
<1>7. ReadPart' /\ WritePart'
  BY <1>1, <1>2, <1>4, <1>5, ReadAlone, WriteAlone DEF Writes
<1> QED BY <1>6, <1>7 DEF Inv

LEMMA FiltersTyped ==
  ASSUME TypeOK
  PROVE  /\ Seen \subseteq Source /\ \A c \in Seen : \E m \in Msg : From[m] = c
         /\ Filters \subseteq Source /\ \A f \in Filters : LetThrough(f)
<1>1. \A m \in 1..arrived : m \in Msg
  BY MsgTyped DEF TypeOK, Msg
<1>2. Seen \subseteq Source /\ \A c \in Seen : \E m \in Msg : From[m] = c
  BY <1>1, MsgTyped DEF Seen
<1>3. \A c \in Source : c.agent \in Agent /\ [agent |-> c.agent, ws |-> NoWs] \in Source
  BY DEF Source
<1>4. ASSUME NEW f \in Filters PROVE f \in Source /\ LetThrough(f)
  <2>1. CASE f \in Seen /\ f.agent \notin Known /\ sources[f] = "released"
    BY <1>2, <2>1 DEF LetThrough
  <2>2. CASE \E c \in {d \in Seen : d.agent \in Known} : f = [agent |-> c.agent, ws |-> NoWs]
    BY <1>2, <1>3, <2>2 DEF LetThrough
  <2> QED BY <2>1, <2>2 DEF Filters
<1> QED BY <1>2, <1>4

LEMMA DiscoverStep ==
  ASSUME Inv, NEW b \in Bridge, discover_sources(b)
  PROVE  Inv'
<1>1. Typed /\ ReadPart /\ WritePart
  BY DEF Inv
<1>2. /\ UNCHANGED <<arrived, raw, journal, lease, pages, timeline, late, blind, faults, replays>>
      /\ sources' = Listed /\ cursor' = Cleared
  BY DEF discover_sources, remote, bounds
<1>3. /\ Seen \subseteq Source /\ \A c \in Seen : \E m \in Msg : From[m] = c
      /\ Filters \subseteq Source /\ \A f \in Filters : LetThrough(f)
  BY <1>1, FiltersTyped DEF Typed
<1>4. /\ batch' \in [Bridge -> Batch] /\ lease' \in Bridge \cup {None}
      /\ \A c \in Bridge :
              /\ batch'[c].pc \in Stages /\ (batch'[c].pc # "idle" <=> lease' = c)
              /\ batch'[c].pc \in OnRow <=> batch'[c].row \in Msg
      /\ batch'[b] = At("read", Filters)
      /\ \A c \in Bridge : c # b => batch'[c] = batch[c] /\ batch[c].pc = "idle"
  <2>1. "read" \in Stages \ OnRow /\ Filters \in SUBSET (Source \cup Span \cup Msg)
    BY <1>3 DEF Stages, OnRow
  <2>2. batch[b].pc # "idle" /\ batch' = [batch EXCEPT ![b] = At("read", Filters)] /\ lease' = lease
    BY <1>2 DEF discover_sources
  <2>3. /\ At("read", Filters) \in Batch /\ At("read", Filters).pc = "read"
        /\ At("read", Filters).pc \in OnRow <=> At("read", Filters).row \in Msg
    BY <2>1, StageTyped
  <2> QED BY <1>1, <2>2, <2>3, Holding
<1>5. /\ sources' \in [Source -> {"unseen", "quarantined", "released"}]
      /\ \A c \in Source : /\ sources[c] = "released" <=> sources'[c] = "released"
                           /\ sources'[c] # "unseen" => sources[c] # "unseen" \/ c \in Seen
  BY <1>1, <1>2 DEF Listed, Typed, TypeOK
<1>6. /\ cursor' \in [Source -> 0..N]
      /\ \A f \in Source : cursor'[f] = cursor[f] \/ cursor'[f] = 0
  BY <1>1, <1>2, MsgTyped DEF Cleared, Typed, TypeOK
<1>7. At("read", Filters).pc = "read" /\ At("read", Filters).todo = Filters
  BY DEF At
<1>8. Typed'
  BY <1>1, <1>2, <1>4, <1>5, <1>6, BatchTyped DEF Typed, TypeOK
<1>9. ReadPart'
  <2>1. \A m \in Msg : Covered(m)' <=> Covered(m)
    BY <1>2 DEF Covered
  <2>2. NothingSkipped'
    <3>1. \A f \in Source, m \in Msg : m <= cursor'[f] => m <= cursor[f]
      BY <1>6 DEF Msg
    <3> QED BY <1>1, <2>1, <3>1 DEF ReadPart, NothingSkipped, Matches
  <2>3. \A f \in Source : LetThrough(f)' <=> LetThrough(f)
    BY <1>5 DEF LetThrough
  <2>4. \A s \in Span : s.conv \in Source /\ AllOf(s.conv) \in Source
    BY DEF Span, AllOf, Source
  <2>5. ReadAsReleased'
    BY <1>1, <1>2, <2>3, <2>4 DEF ReadPart, ReadAsReleased
  <2>6. FiltersLetThrough'
    BY <1>3, <1>4, <1>7, <2>3 DEF FiltersLetThrough
  <2>7. TodoOnFile'
    BY <1>4, <1>7 DEF TodoOnFile
  <2> QED BY <2>2, <2>5, <2>6, <2>7 DEF ReadPart
<1>10. \A c \in Bridge : batch'[c].pc \in {"read", "idle"}
  BY <1>4, <1>7
<1>11. WritePart'
  BY <1>1, <1>2, <1>10, WriteAlone DEF Writes
<1> QED BY <1>8, <1>9, <1>11 DEF Inv

LEMMA EndOfReadStep ==
  ASSUME Inv, NEW b \in Bridge, EndOfRead(b)
  PROVE  Inv'
<1> DEFINE list == {s \in Span : raw[s] = "new"}
<1>1. Typed /\ ReadPart /\ WritePart
  BY DEF Inv
<1>2. UNCHANGED <<arrived, sources, cursor, raw, journal, lease, pages, timeline, late, blind,
                  faults, replays>>
  BY DEF EndOfRead, remote, bounds
<1>3. /\ batch' \in [Bridge -> Batch] /\ lease' \in Bridge \cup {None}
      /\ \A c \in Bridge :
              /\ batch'[c].pc \in Stages /\ (batch'[c].pc # "idle" <=> lease' = c)
              /\ batch'[c].pc \in OnRow <=> batch'[c].row \in Msg
      /\ batch'[b] = At("distill", list)
      /\ \A c \in Bridge : c # b => batch'[c] = batch[c] /\ batch[c].pc = "idle"
  <2>1. "distill" \in Stages \ OnRow /\ list \in SUBSET (Source \cup Span \cup Msg)
    BY DEF Stages, OnRow
  <2>2. batch[b].pc # "idle" /\ batch' = [batch EXCEPT ![b] = At("distill", list)] /\ lease' = lease
    BY <1>2 DEF EndOfRead
  <2> HIDE DEF list
  <2>3. /\ At("distill", list) \in Batch /\ At("distill", list).pc = "distill"
        /\ At("distill", list).pc \in OnRow <=> At("distill", list).row \in Msg
    BY <2>1, StageTyped
  <2> QED BY <1>1, <2>2, <2>3, Holding
<1>4. \A c \in Bridge : batch'[c].pc \in {"distill", "idle"}
  BY <1>3 DEF At
<1>5. Typed'
  BY <1>1, <1>2, <1>3, BatchTyped DEF Typed, TypeOK
<1>6. WritePart'
  BY <1>1, <1>2, <1>4, WriteAlone DEF Writes
<1>7. ReadPart'
  <2>1. NothingSkipped' /\ ReadAsReleased'
    BY <1>1, <1>2 DEF ReadPart, NothingSkipped, Covered, Matches, ReadAsReleased, LetThrough
  <2>2. FiltersLetThrough'
    BY <1>4 DEF FiltersLetThrough
  <2>3. TodoOnFile'
    <3>1. At("distill", list).pc = "distill" /\ At("distill", list).todo = list
      BY DEF At
    <3> QED BY <1>2, <1>3, <3>1 DEF TodoOnFile
  <2> QED BY <2>1, <2>2, <2>3 DEF ReadPart
<1> QED BY <1>5, <1>6, <1>7 DEF Inv

LEMMA ReadSpansStep ==
  ASSUME Inv, NEW b \in Bridge, NEW f \in Source, read_spans(b, f)
  PROVE  Inv'
<1> DEFINE ms == Next_messages(f)
           e  == [batch[b] EXCEPT !.todo = @ \ {f}]
<1>1. Typed /\ ReadPart /\ WritePart
  BY DEF Inv
<1>2. /\ UNCHANGED <<arrived, sources, journal, lease, pages, timeline, late, blind, faults, replays>>
      /\ batch[b].pc = "read" /\ f \in batch[b].todo
      /\ batch' = [batch EXCEPT ![b] = e]
      /\ IF ms = {} THEN UNCHANGED <<raw, cursor>>
         ELSE raw' = Inserted(SpansOf(ms)) /\ cursor' = [cursor EXCEPT ![f] = Max(ms)]
  BY DEF read_spans, remote, bounds
<1>3. e \in Batch /\ e.pc = "read" /\ e.row = None /\ e.todo = batch[b].todo \ {f}
  BY <1>1, <1>2, Staged DEF Batch, OnRow, Stages
<1>4. /\ ms \in SUBSET Msg /\ \A m \in ms : Matches(m, f)
      /\ ms # {} => /\ Max(ms) \in Msg
                    /\ \A m \in Msg : m <= Max(ms) /\ m > cursor[f] /\ Matches(m, f) => m \in ms
  BY <1>1, NextInOrder DEF Typed
<1>5. LetThrough(f)
  BY <1>1, <1>2 DEF ReadPart, FiltersLetThrough
<1> HIDE DEF e, ms
<1>6. /\ batch' \in [Bridge -> Batch] /\ lease' \in Bridge \cup {None}
      /\ \A c \in Bridge :
              /\ batch'[c].pc \in Stages /\ (batch'[c].pc # "idle" <=> lease' = c)
              /\ batch'[c].pc \in OnRow <=> batch'[c].row \in Msg
      /\ batch'[b] = e
      /\ \A c \in Bridge : c # b => batch'[c] = batch[c] /\ batch[c].pc = "idle"
  BY <1>1, <1>2, <1>3, Holding, DistillAssumption DEF OnRow
<1>7. \A c \in Bridge : /\ batch'[c].pc \in {"read", "idle"}
                        /\ batch'[c].pc = "read" =>
                             batch[c].pc = batch'[c].pc /\ batch'[c].todo \subseteq batch[c].todo
  BY <1>2, <1>3, <1>6
<1>8. WritePart'
  BY <1>1, <1>2, <1>7, WriteAlone DEF Writes
<1>9. CASE ms = {}
  <2>1. Typed'
    BY <1>1, <1>2, <1>6, <1>9, BatchTyped DEF Typed, TypeOK
  <2>2. ReadPart'
    BY <1>1, <1>2, <1>7, <1>9, ReadAlone
  <2> QED BY <1>8, <2>1, <2>2 DEF Inv
<1>10. CASE ms # {}
  <2>1. /\ SpansOf(ms) \subseteq Span
        /\ \A m \in ms : \E s \in SpansOf(ms) : m \in MessagesOf(s)
        /\ \A s \in SpansOf(ms) : \E m \in ms : s.conv = From[m]
    BY <1>4, SpansCover
  <2>2. raw' = Inserted(SpansOf(ms)) /\ cursor' = [cursor EXCEPT ![f] = Max(ms)]
    BY <1>2, <1>10
  <2>3. /\ raw' \in [Span -> {"none", "new", "raw_deferred", "raw_quarantined", "distilled"}]
        /\ \A s \in Span : raw'[s] # "none" <=> raw[s] # "none" \/ s \in SpansOf(ms)
    BY <1>1, <2>2 DEF Inserted, Typed, TypeOK
  <2>4. /\ cursor \in [Source -> 0..N] /\ Max(ms) \in Msg /\ Max(ms) \in 0..N
        /\ cursor' \in [Source -> 0..N] /\ cursor'[f] = Max(ms)
        /\ \A g \in Source : g # f => cursor'[g] = cursor[g]
    <3>1. \A m \in Msg : m \in 0..N
      BY MsgTyped
    <3>2. cursor \in [Source -> 0..N] /\ Max(ms) \in Msg
      BY <1>1, <1>4, <1>10 DEF Typed, TypeOK
    <3> QED BY <2>2, <3>1, <3>2
  <2>5. Typed'
    BY <1>1, <1>2, <1>6, <2>3, <2>4, BatchTyped DEF Typed, TypeOK
  <2>6. \A m \in Msg : Covered(m) => Covered(m)'
    BY <2>3 DEF Covered
  <2>7. \A m \in ms : Covered(m)'
    BY <2>1, <2>3 DEF Covered
  <2>8. ASSUME NEW g \in Source, NEW m \in Msg, m <= cursor'[g], Matches(m, g)
        PROVE  Covered(m)'
    <3>1. CASE m <= cursor[g]
      BY <1>1, <2>6, <2>8, <3>1 DEF ReadPart, NothingSkipped
    <3>2. CASE g = f /\ ~ (m <= cursor[g])
      <4>1. m <= Max(ms) /\ m > cursor[f]
        BY <2>4, <2>8, <3>2 DEF Msg
      <4>2. m \in ms
        BY <1>4, <1>10, <2>8, <3>2, <4>1
      <4> QED BY <2>7, <4>2
    <3> QED BY <2>4, <2>8, <3>1, <3>2
  <2>9. NothingSkipped'
    BY <2>8 DEF NothingSkipped, Matches
  <2>10. \A g : LetThrough(g)' <=> LetThrough(g)
    BY <1>2 DEF LetThrough
  <2>11. ASSUME NEW s \in SpansOf(ms) PROVE LetThrough(s.conv) \/ LetThrough(AllOf(s.conv))
    <3>1. PICK m \in ms : s.conv = From[m]
      BY <2>1
    <3>2. Matches(m, f) /\ s.conv \in Source /\ f \in Source
      BY <1>4, <3>1, MsgTyped
    <3>3. s.conv.agent = f.agent /\ f.ws \in {NoWs, s.conv.ws}
      BY <3>1, <3>2 DEF Matches
    <3>4. f = s.conv \/ f = AllOf(s.conv)
      <4>1. \A c \in Source : c = [agent |-> c.agent, ws |-> c.ws]
        BY DEF Source
      <4>2. AllOf(s.conv) = [agent |-> s.conv.agent, ws |-> NoWs]
        BY <3>2 DEF Source, AllOf
      <4> QED BY <3>2, <3>3, <4>1, <4>2
    <3> QED BY <1>5, <3>4
  <2>12. ReadAsReleased'
    BY <1>1, <2>3, <2>10, <2>11 DEF ReadPart, ReadAsReleased
  <2>13. FiltersLetThrough'
    BY <1>1, <1>7, <2>10 DEF ReadPart, FiltersLetThrough
  <2>14. TodoOnFile'
    BY <1>7 DEF TodoOnFile
  <2> QED BY <1>8, <2>5, <2>9, <2>12, <2>13, <2>14 DEF Inv, ReadPart
<1> QED BY <1>9, <1>10

-----------------------------------------------------------------------------
(* Distilling.                                                               *)

\* A span is done with, whatever became of it.
LEMMA SpentStep ==
  ASSUME Inv, NEW b \in Bridge, NEW s \in Span, NEW used \in Nat,
         NEW status \in {"raw_deferred", "distilled", "raw_quarantined"},
         Spent(b, s, status, used), faults' \in 0..MaxFaults,
         journal' \in [Msg -> {"none", "pending", "deferred", "quarantined", "done"}],
         \A k \in Msg : journal'[k] = "done" => journal[k] = "done"
  PROVE  Inv'
<1> DEFINE e == [batch[b] EXCEPT !.todo = @ \ {s}, !.used = used]
<1>1. Typed /\ ReadPart /\ WritePart
  BY DEF Inv
<1>2. /\ UNCHANGED <<arrived, sources, cursor, lease, pages, timeline, late, blind, replays>>
      /\ batch[b].pc = "distill" /\ s \in batch[b].todo
      /\ batch' = [batch EXCEPT ![b] = e] /\ raw' = [raw EXCEPT ![s] = status]
  BY DEF Spent, remote
<1>3. e \in Batch /\ e.pc = "distill" /\ e.row = None /\ e.todo = batch[b].todo \ {s}
  BY <1>1, <1>2, Staged DEF Batch, OnRow, Stages
<1>4. raw[s] # "none"
  BY <1>1, <1>2 DEF ReadPart, TodoOnFile
<1> HIDE DEF e
<1>5. /\ batch' \in [Bridge -> Batch] /\ lease' \in Bridge \cup {None}
      /\ \A c \in Bridge :
              /\ batch'[c].pc \in Stages /\ (batch'[c].pc # "idle" <=> lease' = c)
              /\ batch'[c].pc \in OnRow <=> batch'[c].row \in Msg
      /\ batch'[b] = e
      /\ \A c \in Bridge : c # b => batch'[c] = batch[c] /\ batch[c].pc = "idle"
  BY <1>1, <1>2, <1>3, Holding, DistillAssumption DEF OnRow
<1>6. \A c \in Bridge : /\ batch'[c].pc \in {"distill", "idle"}
                        /\ batch'[c].pc = "distill" =>
                             batch[c].pc = batch'[c].pc /\ batch'[c].todo \subseteq batch[c].todo
  BY <1>2, <1>3, <1>5
<1>7. /\ raw' \in [Span -> {"none", "new", "raw_deferred", "raw_quarantined", "distilled"}]
      /\ \A t \in Span : raw'[t] # "none" <=> raw[t] # "none"
  BY <1>1, <1>2, <1>4 DEF Typed, TypeOK
<1>8. Typed'
  BY <1>1, <1>2, <1>5, <1>7, BatchTyped DEF Typed, TypeOK
<1>9. ReadPart' /\ WritePart'
  BY <1>1, <1>2, <1>6, <1>7, ReadAlone, WriteAlone DEF Writes
<1> QED BY <1>8, <1>9 DEF Inv

LEMMA DistillingStep ==
  ASSUME Inv, NEW b \in Bridge, Distilling(b)
  PROVE  Inv'
<1>1. Typed /\ ReadPart /\ WritePart
  BY DEF Inv
<1>2. /\ batch[b].used \in Nat /\ faults \in 0..MaxFaults /\ Cost \subseteq Nat
      /\ journal \in [Msg -> {"none", "pending", "deferred", "quarantined", "done"}]
  BY <1>1, Staged, DistillAssumption DEF Typed, TypeOK
<1>3. ASSUME NEW s \in Span, Noise(b, s) PROVE Inv'
  BY <1>2, <1>3, SpentStep DEF Noise
<1>4. ASSUME NEW s \in Span, NEW cost \in Cost, Defer(b, s, cost) PROVE Inv'
  BY <1>2, <1>4, SpentStep DEF Defer
<1>5. ASSUME NEW s \in Span, NEW cost \in Cost, commit_distilled(b, s, cost) PROVE Inv'
  <2>1. Spent(b, s, "distilled", batch[b].used + cost) /\ faults' = faults
        /\ batch[b].used + cost \in Nat
    BY <1>2, <1>5 DEF commit_distilled
  <2>2. /\ journal' \in [Msg -> {"none", "pending", "deferred", "quarantined", "done"}]
        /\ \A k \in Msg : journal'[k] = "done" => journal[k] = "done"
    BY <1>2, <1>5 DEF commit_distilled
  <2> QED BY <1>2, <2>1, <2>2, SpentStep
<1>6. ASSUME NEW s \in Span, NEW cost \in Cost, Undistilled(b, s, cost) PROVE Inv'
  <2>1. Spent(b, s, "raw_quarantined", batch[b].used + cost) /\ journal' = journal
        /\ batch[b].used + cost \in Nat /\ faults' \in 0..MaxFaults
    BY <1>1, <1>2, <1>6, FaultTyped DEF Undistilled, Typed
  <2> QED BY <1>2, <2>1, SpentStep
<1>7. ASSUME EndOfDistill(b) PROVE Inv'
  <2> DEFINE list == {k \in Msg : journal[k] = "pending"}
  <2>1. UNCHANGED <<arrived, sources, cursor, raw, journal, lease, pages, timeline, late, blind,
                    faults, replays>>
    BY <1>7 DEF EndOfDistill, remote, bounds
  <2>2. "reconcile" \in Stages \ OnRow /\ list \in SUBSET (Source \cup Span \cup Msg)
    BY DEF Stages, OnRow
  <2>3. batch[b].pc # "idle" /\ batch' = [batch EXCEPT ![b] = At("reconcile", list)] /\ lease' = lease
    BY <1>7, <2>1 DEF EndOfDistill
  <2> HIDE DEF list
  <2>4. /\ At("reconcile", list) \in Batch /\ At("reconcile", list).pc = "reconcile"
        /\ At("reconcile", list).pc \in OnRow <=> At("reconcile", list).row \in Msg
    BY <2>2, StageTyped
  <2>5. /\ batch' \in [Bridge -> Batch] /\ lease' \in Bridge \cup {None}
        /\ \A c \in Bridge :
              /\ batch'[c].pc \in Stages /\ (batch'[c].pc # "idle" <=> lease' = c)
              /\ batch'[c].pc \in OnRow <=> batch'[c].row \in Msg
        /\ batch'[b] = At("reconcile", list)
        /\ \A c \in Bridge : c # b => batch'[c] = batch[c] /\ batch[c].pc = "idle"
    BY <1>1, <2>3, <2>4, Holding
  <2>6. \A c \in Bridge : batch'[c].pc \in {"reconcile", "idle"}
    BY <2>4, <2>5
  <2>7. Typed'
    BY <1>1, <2>1, <2>5, BatchTyped DEF Typed, TypeOK
  <2>8. ReadPart' /\ WritePart'
    BY <1>1, <2>1, <2>6, ReadAlone, WriteAlone DEF Writes
  <2> QED BY <2>7, <2>8 DEF Inv
<1> QED BY <1>3, <1>4, <1>5, <1>6, <1>7 DEF Distilling

-----------------------------------------------------------------------------
(* Writing.                                                                  *)

LEMMA MarkedTyped ==
  ASSUME Typed, NEW k \in Msg, NEW status \in {"deferred", "quarantined", "done"}
  PROVE  /\ Marked(k, status) \in [Msg -> {"none", "pending", "deferred", "quarantined", "done"}]
         /\ \A m \in Msg : Marked(k, status)[m] = "done" =>
              journal[m] = "done" \/ (m = k /\ status = "done")
BY DEF Typed, TypeOK, Marked

\* A row is done with: the entries may have become more, by no more than is allowed.
LEMMA RowDone ==
  ASSUME Inv, NEW b \in Bridge, NEW k, NEW used \in Nat, batch[b].pc # "idle",
         Next_row(b, k, used),
         UNCHANGED <<arrived, sources, cursor, raw, lease, replays, blind>>,
         faults' \in 0..MaxFaults, pages' \subseteq Page,
         journal' \in [Msg -> {"none", "pending", "deferred", "quarantined", "done"}],
         timeline' \in [Msg -> Nat], late' \in [Msg -> Nat],
         \A m \in Msg : /\ timeline[m] > 0 => timeline'[m] > 0
                        /\ timeline'[m] + late'[m] <= 1 + blind[m]
                        /\ journal'[m] = "done" => journal[m] = "done" \/ timeline[m] > 0
  PROVE  Inv'
<1> DEFINE e == [pc |-> "reconcile", todo |-> batch[b].todo \ {k}, used |-> used, row |-> None]
<1>1. Typed /\ ReadPart /\ WritePart
  BY DEF Inv
<1>2. batch' = [batch EXCEPT ![b] = e]
  BY DEF Next_row
<1>3. e \in Batch /\ e.pc = "reconcile" /\ e.row = None
  BY <1>1, Staged DEF Batch, Stages
<1> HIDE DEF e
<1>4. /\ batch' \in [Bridge -> Batch] /\ lease' \in Bridge \cup {None}
      /\ \A c \in Bridge :
              /\ batch'[c].pc \in Stages /\ (batch'[c].pc # "idle" <=> lease' = c)
              /\ batch'[c].pc \in OnRow <=> batch'[c].row \in Msg
      /\ batch'[b] = e
      /\ \A c \in Bridge : c # b => batch'[c] = batch[c] /\ batch[c].pc = "idle"
  BY <1>1, <1>2, <1>3, Holding, DistillAssumption DEF OnRow
<1>5. \A c \in Bridge : batch'[c].pc \in {"reconcile", "idle"}
  BY <1>3, <1>4
<1>6. Typed'
  BY <1>1, <1>4, BatchTyped DEF Typed, TypeOK
<1>7. ReadPart'
  BY <1>1, <1>5, ReadAlone
<1>8. WrittenAsRecorded'
  BY <1>1 DEF WritePart, WrittenAsRecorded, DoneIsWritten, WrittenOnce
<1>9. OneChanceMore'
  BY <1>5 DEF OneChanceMore, Writes
<1> QED BY <1>6, <1>7, <1>8, <1>9 DEF Inv, WritePart

\* The entries as they are allow what the invariant says of them.
LEMMA Allowed ==
  ASSUME Inv
  PROVE  /\ \A m \in Msg : timeline[m] + late[m] <= 1 + blind[m]
         /\ timeline \in [Msg -> Nat] /\ late \in [Msg -> Nat] /\ blind \in [Msg -> Nat]
         /\ pages \subseteq Page /\ faults \in 0..MaxFaults
         /\ journal \in [Msg -> {"none", "pending", "deferred", "quarantined", "done"}]
BY DEF Inv, Typed, TypeOK, WritePart, WrittenAsRecorded, WrittenOnce

LEMMA FoundStep ==
  ASSUME Inv, NEW b \in Bridge, NEW k \in Msg, Found(b, k)
  PROVE  Inv'
<1>1. Typed /\ batch[b].used \in Nat /\ batch[b].pc # "idle"
  BY Staged DEF Inv, Found
<1>2. /\ journal' = Marked(k, "done") /\ timeline[k] > 0 /\ Next_row(b, k, batch[b].used)
      /\ UNCHANGED <<arrived, sources, cursor, raw, lease, pages, timeline, late, blind,
                     faults, replays>>
  BY DEF Found, remote, bounds
<1>3. /\ journal' \in [Msg -> {"none", "pending", "deferred", "quarantined", "done"}]
      /\ \A m \in Msg : journal'[m] = "done" => journal[m] = "done" \/ timeline[m] > 0
  BY <1>1, <1>2, MarkedTyped
<1> QED BY <1>1, <1>2, <1>3, Allowed, RowDone

\* A row goes on to the stage pc: whoever is about to write has his chance.
LEMMA RowGoesOn ==
  ASSUME Inv, NEW b \in Bridge, NEW k \in Msg, NEW pc \in OnRow, batch[b].pc # "idle",
         batch' = [batch EXCEPT ![b] = [batch[b] EXCEPT !.pc = pc, !.row = k]],
         UNCHANGED <<arrived, sources, cursor, raw, journal, lease, late, replays>>,
         faults' \in 0..MaxFaults, pages' \subseteq Page,
         timeline' \in [Msg -> Nat], blind' \in [Msg -> Nat],
         \A m \in Msg : /\ timeline[m] > 0 => timeline'[m] > 0
                        /\ timeline'[m] + late[m] <= 1 + blind'[m],
         pc # "mark" => timeline'[k] + late[k] <= blind'[k],
         pc = "mark" => timeline'[k] > 0
  PROVE  Inv'
<1> DEFINE e == [batch[b] EXCEPT !.pc = pc, !.row = k]
<1>1. Typed /\ ReadPart /\ WritePart
  BY DEF Inv
<1>2. e \in Batch /\ e.pc = pc /\ e.row = k
  BY <1>1, Staged DEF Batch, OnRow, Stages
<1>3. pc # "idle" /\ pc \notin {"read", "distill"} /\ batch' = [batch EXCEPT ![b] = e]
  BY DEF OnRow
<1> HIDE DEF e
<1>4. /\ batch' \in [Bridge -> Batch] /\ lease' \in Bridge \cup {None}
      /\ \A c \in Bridge :
              /\ batch'[c].pc \in Stages /\ (batch'[c].pc # "idle" <=> lease' = c)
              /\ batch'[c].pc \in OnRow <=> batch'[c].row \in Msg
      /\ batch'[b] = e
      /\ \A c \in Bridge : c # b => batch'[c] = batch[c] /\ batch[c].pc = "idle"
  BY <1>1, <1>2, <1>3, Holding
<1>5. \A c \in Bridge : batch'[c].pc \notin {"read", "distill"}
  BY <1>2, <1>3, <1>4
<1>6. Typed'
  BY <1>1, <1>4, Allowed, BatchTyped DEF Typed, TypeOK
<1>7. ReadPart'
  BY <1>1, <1>5, ReadAlone
<1>8. WrittenAsRecorded'
  BY <1>1 DEF WritePart, WrittenAsRecorded, DoneIsWritten, WrittenOnce
<1>9. OneChanceMore'
  <2> SUFFICES ASSUME NEW c \in Bridge
               PROVE  /\ batch'[c].pc \in Writes =>
                           timeline'[batch'[c].row] + late'[batch'[c].row] <= blind'[batch'[c].row]
                      /\ batch'[c].pc = "mark" => timeline'[batch'[c].row] > 0
    BY DEF OneChanceMore
  <2>1. CASE c = b
    BY <1>2, <1>4, <2>1 DEF Writes
  <2>2. CASE c # b
    BY <1>4, <2>2 DEF Writes
  <2> QED BY <2>1, <2>2
<1> QED BY <1>6, <1>7, <1>8, <1>9 DEF Inv, WritePart

LEMMA MissingStep ==
  ASSUME Inv, NEW b \in Bridge, NEW k \in Msg, Missing(b, k)
  PROVE  Inv'
<1>1. Typed /\ batch[b].used \in Nat /\ batch[b].pc # "idle" /\ faults' \in 0..MaxFaults
  BY Staged, FaultTyped, Allowed DEF Inv, Typed, Missing
<1>2. UNCHANGED <<arrived, sources, cursor, raw, lease, pages, timeline, late, replays>>
  BY DEF Missing
<1>3. CASE batch[b].used >= MaxEntities
  <2>1. journal' = Marked(k, "deferred") /\ Next_row(b, k, batch[b].used) /\ blind' = blind
    BY <1>3 DEF Missing
  <2>2. /\ journal' \in [Msg -> {"none", "pending", "deferred", "quarantined", "done"}]
        /\ \A m \in Msg : journal'[m] = "done" => journal[m] = "done"
    BY <1>1, <2>1, MarkedTyped
  <2> QED BY <1>1, <1>2, <2>1, <2>2, Allowed, RowDone
<1>4. CASE ~ (batch[b].used >= MaxEntities)
  <2>1. /\ batch' = [batch EXCEPT ![b] = [batch[b] EXCEPT !.pc = "probe", !.row = k]]
        /\ blind' = [blind EXCEPT ![k] = IF timeline[k] > 0 \/ late[k] > 0 THEN @ + 1 ELSE @]
        /\ journal' = journal
    BY <1>1, <1>4 DEF Missing, Typed
  <2>2. /\ blind' \in [Msg -> Nat] /\ \A m \in Msg : blind'[m] >= blind[m]
        /\ timeline[k] + late[k] <= blind'[k]
    <3>1. timeline[k] \in Nat /\ late[k] \in Nat /\ blind[k] \in Nat
          /\ timeline[k] + late[k] <= 1 + blind[k] /\ blind \in [Msg -> Nat]
      BY Allowed
    <3> QED BY <2>1, <3>1
  <2>3. \A m \in Msg : timeline[m] + late[m] <= 1 + blind'[m]
    BY <2>2, Allowed
  <2> QED BY <1>1, <1>2, <2>1, <2>2, <2>3, Allowed, RowGoesOn DEF OnRow
<1> QED BY <1>3, <1>4

\* What a batch on its way to writing its row has.
LEMMA OnItsWay ==
  ASSUME Inv, NEW b \in Bridge, batch[b].pc \in OnRow
  PROVE  /\ batch[b].row \in Msg /\ PageOf[batch[b].row] \in Page /\ batch[b].used \in Nat
         /\ batch[b].pc \in Writes =>
              timeline[batch[b].row] + late[batch[b].row] <= blind[batch[b].row]
         /\ batch[b].pc = "mark" => timeline[batch[b].row] > 0
         /\ \A pc : [batch EXCEPT ![b].pc = pc]
                      = [batch EXCEPT ![b] = [batch[b] EXCEPT !.pc = pc, !.row = batch[b].row]]
<1>1. Typed /\ batch[b].row \in Msg /\ batch[b].used \in Nat
  BY Staged DEF Inv
<1>2. PageOf[batch[b].row] \in Page
  BY <1>1, DistillAssumption
<1>3. ASSUME NEW pc
      PROVE  [batch[b] EXCEPT !.pc = pc] = [batch[b] EXCEPT !.pc = pc, !.row = batch[b].row]
  BY <1>1, Staged
<1> QED BY <1>1, <1>2, <1>3 DEF Inv, WritePart, OneChanceMore

LEMMA ProbeStep ==
  ASSUME Inv, NEW b \in Bridge, Probe(b) \/ ProbeFails(b) \/ Ambiguous(b)
  PROVE  Inv'
<1> DEFINE k == batch[b].row
<1>1. batch[b].pc = "probe" /\ batch[b].pc \in OnRow /\ batch[b].pc \in Writes
  BY DEF Probe, ProbeFails, Ambiguous, OnRow, Writes
<1>2. UNCHANGED <<arrived, sources, cursor, raw, lease, pages, timeline, late, blind, replays>>
  BY DEF Probe, ProbeFails, Ambiguous, remote, bounds
<1>3. faults' \in 0..MaxFaults
  BY Allowed, FaultTyped DEF Probe, ProbeFails, Ambiguous, bounds, Inv, Typed
<1>4. CASE Probe(b)
  <2>1. PICK pc \in {"add", "put"} : batch' = [batch EXCEPT ![b].pc = pc]
    BY <1>4 DEF Probe
  <2>2. batch' = [batch EXCEPT ![b] = [batch[b] EXCEPT !.pc = pc, !.row = k]]
    BY <1>1, <2>1, OnItsWay
  <2>3. journal' = journal /\ k \in Msg /\ timeline[k] + late[k] <= blind[k] /\ pc \in OnRow
    BY <1>1, <1>4, OnItsWay DEF Probe, OnRow
  <2> QED BY <1>1, <1>2, <1>3, <2>2, <2>3, Allowed, RowGoesOn
<1>5. CASE ProbeFails(b)
  BY <1>1, <1>2, <1>3, <1>5, Allowed, OnItsWay, RowDone DEF ProbeFails
<1>6. CASE Ambiguous(b)
  <2>1. Typed /\ k \in Msg /\ journal' = Marked(k, "quarantined")
    BY <1>1, <1>6, OnItsWay DEF Ambiguous, Inv
  <2>2. /\ journal' \in [Msg -> {"none", "pending", "deferred", "quarantined", "done"}]
        /\ \A m \in Msg : journal'[m] = "done" => journal[m] = "done"
    BY <2>1, MarkedTyped
  <2> QED BY <1>1, <1>2, <1>3, <1>6, <2>2, Allowed, OnItsWay, RowDone DEF Ambiguous
<1> QED BY <1>4, <1>5, <1>6

LEMMA PutStep ==
  ASSUME Inv, NEW b \in Bridge, put_page(b)
  PROVE  Inv'
<1> DEFINE k == batch[b].row
<1>1. batch[b].pc = "put" /\ batch[b].pc \in OnRow /\ batch[b].pc \in Writes
  BY DEF put_page, OnRow, Writes
<1>2. /\ k \in Msg /\ PageOf[k] \in Page /\ timeline[k] + late[k] <= blind[k]
      /\ batch' = [batch EXCEPT ![b] = [batch[b] EXCEPT !.pc = "add", !.row = k]]
  BY <1>1, OnItsWay DEF put_page
<1>3. pages' \subseteq Page /\ "add" \in OnRow
  BY <1>2, Allowed DEF put_page, OnRow
<1>4. UNCHANGED <<arrived, sources, cursor, raw, journal, lease, timeline, late, blind,
                  faults, replays>>
  BY DEF put_page, bounds
<1> QED BY <1>1, <1>2, <1>3, <1>4, Allowed, RowGoesOn

\* The one place where an entry gets onto a page in time.
LEMMA AddStep ==
  ASSUME Inv, NEW b \in Bridge, add_timeline_entry(b)
  PROVE  Inv'
<1> DEFINE k == batch[b].row
<1>1. batch[b].pc = "add" /\ batch[b].pc \in OnRow /\ batch[b].pc \in Writes /\ "mark" \in OnRow
  BY DEF add_timeline_entry, OnRow, Writes
<1>2. /\ k \in Msg /\ timeline[k] + late[k] <= blind[k]
      /\ batch' = [batch EXCEPT ![b] = [batch[b] EXCEPT !.pc = "mark", !.row = k]]
  BY <1>1, OnItsWay DEF add_timeline_entry
<1>3. /\ UNCHANGED <<arrived, sources, cursor, raw, journal, lease, pages, late, blind,
                     faults, replays>>
      /\ timeline' = [timeline EXCEPT ![k] = @ + 1]
  BY DEF add_timeline_entry, bounds
<1>4. timeline \in [Msg -> Nat] /\ late \in [Msg -> Nat] /\ blind \in [Msg -> Nat]
      /\ \A m \in Msg : timeline[m] + late[m] <= 1 + blind[m]
  BY Allowed
<1>5. timeline' \in [Msg -> Nat] /\ timeline'[k] = timeline[k] + 1
      /\ \A m \in Msg : m # k => timeline'[m] = timeline[m]
  BY <1>2, <1>3, <1>4
<1> HIDE DEF k
<1>6. \A m \in Msg : /\ timeline[m] > 0 => timeline'[m] > 0
                     /\ timeline'[m] + late[m] <= 1 + blind[m]
  BY <1>2, <1>4, <1>5
<1>7. timeline'[k] > 0
  BY <1>2, <1>4, <1>5
<1> QED BY <1>1, <1>2, <1>3, <1>4, <1>5, <1>6, <1>7, Allowed, RowGoesOn

\* A write that is not answered as it should be uses the chance, or does not.
LEMMA WriteFailsStep ==
  ASSUME Inv, NEW b \in Bridge, WriteFails(b)
  PROVE  Inv'
<1> DEFINE k == batch[b].row
<1>1. batch[b].pc \in {"put", "add"} /\ batch[b].pc \in OnRow /\ batch[b].pc \in Writes
      /\ batch[b].pc # "idle"
  BY DEF WriteFails, OnRow, Writes
<1>2. k \in Msg /\ PageOf[k] \in Page /\ timeline[k] + late[k] <= blind[k] /\ batch[b].used \in Nat
  BY <1>1, OnItsWay
<1>3. /\ UNCHANGED <<arrived, sources, cursor, raw, lease, blind, replays>>
      /\ journal' = Marked(k, "quarantined") /\ Next_row(b, k, batch[b].used) /\ Fault
  BY DEF WriteFails
<1>4. /\ timeline \in [Msg -> Nat] /\ late \in [Msg -> Nat] /\ blind \in [Msg -> Nat]
      /\ \A m \in Msg : timeline[m] + late[m] <= 1 + blind[m]
      /\ pages \subseteq Page
  BY Allowed
<1>5. /\ pages' \subseteq Page
      /\ \/ UNCHANGED <<timeline, late>>
         \/ timeline' = [timeline EXCEPT ![k] = @ + 1] /\ late' = late
         \/ late' = [late EXCEPT ![k] = @ + 1] /\ timeline' = timeline
  <2>1. \/ UNCHANGED <<timeline, late>> /\ pages' \in {pages, pages \cup {PageOf[k]}}
        \/ UNCHANGED <<timeline, late, pages>>
        \/ timeline' = [timeline EXCEPT ![k] = @ + 1] /\ UNCHANGED <<late, pages>>
        \/ late' = [late EXCEPT ![k] = @ + 1] /\ UNCHANGED <<timeline, pages>>
    BY DEF WriteFails
  <2> HIDE DEF k
  <2>2. pages' \subseteq Page
    BY <1>2, <1>4, <2>1
  <2> QED BY <2>1, <2>2
<1> HIDE DEF k
<1>6. timeline' \in [Msg -> Nat] /\ late' \in [Msg -> Nat]
  BY <1>2, <1>4, <1>5
<1>7. \A m \in Msg : /\ timeline[m] > 0 => timeline'[m] > 0
                     /\ timeline'[m] + late'[m] <= 1 + blind[m]
  BY <1>2, <1>4, <1>5
<1>8. /\ journal' \in [Msg -> {"none", "pending", "deferred", "quarantined", "done"}]
      /\ \A m \in Msg : journal'[m] = "done" => journal[m] = "done"
  BY <1>2, <1>3, MarkedTyped DEF Inv
<1>9. faults' \in 0..MaxFaults
  BY <1>3, FaultTyped DEF Inv, Typed
<1> QED BY <1>1, <1>2, <1>3, <1>5, <1>6, <1>7, <1>8, <1>9, RowDone

LEMMA MarkStep ==
  ASSUME Inv, NEW b \in Bridge, Mark(b)
  PROVE  Inv'
<1> DEFINE k == batch[b].row
<1>1. batch[b].pc = "mark" /\ batch[b].pc \in OnRow
  BY DEF Mark, OnRow
<1>2. k \in Msg /\ timeline[k] > 0 /\ batch[b].used + 1 \in Nat
  <2>1. k \in Msg /\ timeline[k] > 0 /\ batch[b].used \in Nat
    BY <1>1, OnItsWay
  <2> QED BY <2>1
<1>3. /\ journal' = Marked(k, "done") /\ Next_row(b, k, batch[b].used + 1)
      /\ UNCHANGED <<arrived, sources, cursor, raw, lease, pages, timeline, late, blind,
                     faults, replays>>
  BY DEF Mark, remote, bounds
<1>4. /\ journal' \in [Msg -> {"none", "pending", "deferred", "quarantined", "done"}]
      /\ \A m \in Msg : journal'[m] = "done" => journal[m] = "done" \/ timeline[m] > 0
  BY <1>2, <1>3, MarkedTyped DEF Inv
<1> QED BY <1>1, <1>2, <1>3, <1>4, Allowed, RowDone

LEMMA EndStep ==
  ASSUME Inv, NEW b \in Bridge, End(b)
  PROVE  Inv'
<1>1. Typed /\ ReadPart /\ WritePart /\ batch[b].pc # "idle"
  BY DEF Inv, End
<1>2. /\ UNCHANGED <<arrived, sources, cursor, raw, journal, pages, timeline, late, blind,
                     faults, replays>>
      /\ lease = b /\ lease' = None /\ batch' = [batch EXCEPT ![b] = Idle]
  BY <1>1, Staged DEF End, remote, bounds
<1>3. Idle \in Batch /\ Idle.pc = "idle" /\ Idle.row = None
  BY DEF Idle, Batch, Stages
<1>4. /\ batch' \in [Bridge -> Batch] /\ lease' \in Bridge \cup {None}
      /\ \A c \in Bridge :
              /\ batch'[c].pc \in Stages /\ (batch'[c].pc # "idle" <=> lease' = c)
              /\ batch'[c].pc \in OnRow <=> batch'[c].row \in Msg
      /\ batch'[b] = Idle
      /\ \A c \in Bridge : c # b => batch'[c] = batch[c] /\ batch[c].pc = "idle"
  BY <1>1, <1>2, <1>3, Moved, DistillAssumption DEF OnRow
<1>5. \A c \in Bridge : batch'[c].pc = "idle"
  BY <1>3, <1>4
<1>6. Typed'
  BY <1>1, <1>2, <1>4, BatchTyped DEF Typed, TypeOK
<1>7. ReadPart' /\ WritePart'
  BY <1>1, <1>2, <1>5, ReadAlone, WriteAlone DEF Writes
<1> QED BY <1>6, <1>7 DEF Inv

-----------------------------------------------------------------------------
(* All steps.                                                                *)

LEMMA BridgeInit == Init => Inv
<1> SUFFICES ASSUME Init PROVE Inv
  OBVIOUS
<1>1. Idle \in Batch /\ Idle.pc = "idle" /\ Idle.row = None
  BY DEF Idle, Batch, Stages
<1>2. batch \in [Bridge -> Batch] /\ lease = None /\ \A b \in Bridge : batch[b] = Idle
  BY <1>1 DEF Init
<1>3. TypeOK
  <2>1. \A b \in Bridge :
          /\ batch[b].pc \in Stages /\ (batch[b].pc # "idle" <=> lease = b)
          /\ batch[b].pc \in {"probe", "put", "add", "mark"} <=> batch[b].row \in Msg
    BY <1>1, <1>2, DistillAssumption DEF Stages
  <2>2. /\ arrived \in 0..N /\ cursor \in [Source -> 0..N] /\ pages \subseteq Page
        /\ faults \in 0..MaxFaults /\ replays \in 0..MaxReplays
    BY DistillAssumption DEF Init
  <2>3. /\ sources \in [Source -> {"unseen", "quarantined", "released"}]
        /\ raw \in [Span -> {"none", "new", "raw_deferred", "raw_quarantined", "distilled"}]
        /\ journal \in [Msg -> {"none", "pending", "deferred", "quarantined", "done"}]
        /\ timeline \in [Msg -> Nat] /\ late \in [Msg -> Nat] /\ blind \in [Msg -> Nat]
    BY DEF Init
  <2> QED BY <1>2, <2>1, <2>2, <2>3 DEF TypeOK
<1>4. ReadPart
  <2>1. \A f \in Source, m \in Msg : ~ (m <= cursor[f])
    BY DEF Init, Msg
  <2>2. (\A s \in Span : raw[s] = "none") /\ (\A c \in Source : sources[c] = "unseen")
    BY DEF Init
  <2> QED
    BY <1>1, <1>2, <2>1, <2>2 DEF ReadPart, NothingSkipped, ReadAsReleased, FiltersLetThrough,
       TodoOnFile
<1>5. WritePart
  BY <1>1, <1>2 DEF Init, WritePart, WrittenAsRecorded, DoneIsWritten, WrittenOnce,
     OneChanceMore, Writes
<1> QED BY <1>2, <1>3, <1>4, <1>5 DEF Inv, Typed

LEMMA ReadingStep ==
  ASSUME Inv, NEW b \in Bridge, Reading(b)
  PROVE  Inv'
BY ResetStep, DiscoverStep, EndOfReadStep, ReadSpansStep DEF Reading

LEMMA WritingStep ==
  ASSUME Inv, NEW b \in Bridge, Writing(b)
  PROVE  Inv'
BY ProbeStep, PutStep, AddStep, WriteFailsStep, MarkStep, EndStep, FoundStep, MissingStep
   DEF Writing

LEMMA BridgeStep == Inv /\ [Next]_vars => Inv'
<1> SUFFICES ASSUME Inv, [Next]_vars PROVE Inv'
  OBVIOUS
<1>1. CASE Next
  BY <1>1, ArriveStep, OperatorStep, LandStep, BeginStep, ReadingStep, DistillingStep,
     WritingStep, CrashStep DEF Next
<1>2. CASE UNCHANGED vars
  <2>1. UNCHANGED <<arrived, sources, cursor, raw, journal, lease, batch, pages,
                    timeline, late, faults, replays, blind>>
    BY <1>2 DEF vars
  <2>2. Typed'
    BY <2>1, BatchAlone, BatchTyped DEF Inv, Typed, TypeOK
  <2>3. ReadPart' /\ WritePart'
    BY <2>1, ReadAlone, WriteAlone DEF Inv
  <2> QED BY <2>2, <2>3 DEF Inv
<1> QED BY <1>1, <1>2

-----------------------------------------------------------------------------

\* The invariant of the bridge, for any messages, runs and faults.
THEOREM InvHolds == Spec => []Inv
<1>1. Init => Inv
  BY BridgeInit
<1>2. Inv /\ [Next]_vars => Inv'
  BY BridgeStep
<1> QED BY <1>1, <1>2, PTL DEF Spec

\* What a cursor has passed has its span on file, whichever filters of an agent
\* are read by and however many of its messages a read takes.
THEOREM NoMessageSkipped == Spec => []NothingSkipped
<1>1. Inv => NothingSkipped
  BY DEF Inv, ReadPart
<1> QED BY <1>1, InvHolds, PTL

\* The journal and the pages agree, with any number of crashes, lost answers,
\* entries under way and replays.
THEOREM JournalAndPagesAgree == Spec => []WrittenAsRecorded
<1>1. Inv => WrittenAsRecorded
  BY DEF Inv, WritePart
<1> QED BY <1>1, InvHolds, PTL

\* Every span on file was let through by a release of its own workspace, or of the
\* absent one, or is of a known agent.
THEOREM SpansWereReleased == Spec => []ReadAsReleased
<1>1. Inv => ReadAsReleased
  BY DEF Inv, ReadPart
<1> QED BY <1>1, InvHolds, PTL

-----------------------------------------------------------------------------
(* What a step may never do.                                                 *)

LEMMA KeptByMark ==
  ASSUME Typed, NEW k \in Msg, NEW status \in {"deferred", "quarantined", "done"},
         journal' = Marked(k, status), raw' = raw
  PROVE  Kept
BY DEF Typed, TypeOK, Marked, Kept

\* What is done stays done, what is on file stays on file, and leaves quarantine
\* only for another try.
THEOREM NothingForgotten == Spec => NothingIsForgotten
<1>1. ASSUME Typed, [Next]_vars PROVE [Kept]_vars
  <2>1. ASSUME UNCHANGED <<journal, raw>> PROVE Kept
    BY <2>1 DEF Kept
  <2>2. CASE Operator
    BY <1>1, <2>2 DEF Operator, Release, replay_raw, replay_journal, Kept, Typed, TypeOK
  <2>3. ASSUME NEW b \in Bridge, Reading(b) PROVE Kept
    BY <1>1, <2>3 DEF Reading, reset_deferred, discover_sources, EndOfRead, read_spans, Inserted,
                      Kept, Typed, TypeOK
  <2>4. ASSUME NEW b \in Bridge, Distilling(b) PROVE Kept
    <3>1. CASE EndOfDistill(b)
      BY <2>1, <3>1 DEF EndOfDistill
    <3>2. ASSUME NEW s \in Span, NEW cost \in Cost, commit_distilled(b, s, cost) PROVE Kept
      BY <1>1, <3>2 DEF commit_distilled, Spent, Kept, Typed, TypeOK
    <3>3. ASSUME NEW s \in Span,
                 Noise(b, s) \/ \E cost \in Cost : Defer(b, s, cost) \/ Undistilled(b, s, cost)
          PROVE  Kept
      <4>1. PICK status \in {"raw_deferred", "distilled", "raw_quarantined"} :
              raw' = [raw EXCEPT ![s] = status] /\ journal' = journal
        BY <3>3 DEF Noise, Defer, Undistilled, Spent
      <4> QED BY <1>1, <4>1 DEF Kept, Typed, TypeOK
    <3> QED BY <2>4, <3>1, <3>2, <3>3 DEF Distilling
  <2>5. ASSUME NEW b \in Bridge, Writing(b) PROVE Kept
    <3>1. CASE \E k \in Msg, st \in {"deferred", "quarantined", "done"} :
                 journal' = Marked(k, st) /\ raw' = raw
      BY <1>1, <3>1, KeptByMark
    <3>2. batch[b].pc \in OnRow => batch[b].row \in Msg
      BY <1>1, Staged
    <3>3. UNCHANGED <<journal, raw>> \/ \E k \in Msg, st \in {"deferred", "quarantined", "done"} :
                 journal' = Marked(k, st) /\ raw' = raw
      BY <2>5, <3>2 DEF Writing, Probe, ProbeFails, Ambiguous, put_page, add_timeline_entry,
         WriteFails, Mark, End, Found, Missing, OnRow
    <3> QED BY <2>1, <3>1, <3>3
  <2> QED BY <1>1, <2>1, <2>2, <2>3, <2>4, <2>5
        DEF Next, Arrive, Land, Begin, Crash, vars
<1>2. Inv => Typed
  BY DEF Inv
<1> QED BY <1>1, <1>2, InvHolds, PTL DEF Spec, NothingIsForgotten
============================================================================
