------------------------- MODULE CheckpointProofs -------------------------
(***************************************************************************)
(* Proofs about Checkpoint, for any number of handlers and review commands *)
(* and any thresholds: its type invariant, that nothing on file is taken   *)
(* back, and that a heeded notice lifts the gate.                          *)
(***************************************************************************)
EXTENDS Checkpoint, SequenceTheorems, TLAPS

\* The mutual exclusion the flock gives, and what it is for.
FileInv == TypeOK /\ InHand

LEMMA ProcsDiffer ==
  /\ Watchdog \in Proc /\ Startup \in Proc /\ Handlers \subseteq Proc /\ Reviewer \subseteq Proc
  /\ Server \subseteq Proc
  /\ \A v \in Reviewer : v \notin Server
  /\ None \notin Proc
BY CheckpointAssumption DEF Server, Proc

LEMMA FileInit == Init => FileInv
<1> SUFFICES ASSUME Init PROVE FileInv
  OBVIOUS
<1>1. proc \in [Proc -> {Away} \cup Busy] /\ \A p \in Proc : proc[p].pc # "inside"
  BY DEF Init, Away
<1>2. clock \in 0..MaxClock /\ queries \in 0..MaxQueries /\ faults \in 0..MaxFaults
  BY CheckpointAssumption DEF Init
<1>3. \A p \in Proc : p # None
  BY ProcsDiffer
<1>4. TypeOK
  BY <1>1, <1>2, <1>3 DEF Init, TypeOK
<1>5. InHand
  BY <1>1 DEF InHand
<1> QED BY <1>4, <1>5 DEF FileInv

LEMMA BusyTyped ==
  ASSUME TypeOK, NEW p \in Proc, proc[p].pc # "away"
  PROVE  proc[p] \in Busy
BY DEF TypeOK, Away

LEMMA AtTyped ==
  ASSUME NEW pc \in Stages, NEW now \in Nat, NEW count \in Nat, NEW saw \in BOOLEAN
  PROVE  At(pc, now, count, saw) \in Busy /\ At(pc, now, count, saw).pc = pc
BY DEF At, Busy

\* A file, judged, is a file with the same launch and reviews, and with the
\* due_since it had, if it had one.
LEMMA JudgedMeta ==
  ASSUME NEW file \in Meta, NEW now \in Nat, NEW count \in Nat
  PROVE  /\ Judged(file, now, count) \in Meta
         /\ Judged(file, now, count).launched_ts = file.launched_ts
         /\ Judged(file, now, count).reviews = file.reviews
         /\ file.due_since # None => Judged(file, now, count).due_since = file.due_since
         /\ Judged(file, now, count).due_since \in {file.due_since, now}
BY DEF Judged, Meta

\* A file with one more review.
LEMMA AppendMeta ==
  ASSUME NEW file \in Meta, NEW now \in Nat, NEW more,
         more = [file EXCEPT !.reviews = Append(@, now)]
  PROVE  /\ more \in Meta
         /\ more.launched_ts = file.launched_ts
         /\ more.due_since = file.due_since
         /\ Len(more.reviews) = Len(file.reviews) + 1
         /\ more.reviews[Len(file.reviews) + 1] = now
         /\ \A i \in 1..Len(file.reviews) : more.reviews[i] = file.reviews[i]
<1>1. /\ more.launched_ts = file.launched_ts /\ more.due_since = file.due_since
      /\ more.reviews = Append(file.reviews, now)
      /\ file.reviews \in Seq(Nat)
  BY DEF Meta
<1>2. /\ Append(file.reviews, now) \in Seq(Nat)
      /\ Len(Append(file.reviews, now)) = Len(file.reviews) + 1
      /\ Append(file.reviews, now)[Len(file.reviews) + 1] = now
      /\ \A i \in 1..Len(file.reviews) : Append(file.reviews, now)[i] = file.reviews[i]
  BY <1>1, AppendProperties
<1>3. more \in Meta
  BY <1>2 DEF Meta
<1> QED BY <1>1, <1>2, <1>3

-----------------------------------------------------------------------------
(* The file invariant is kept.                                               *)

\* A move of somebody outside the flock to another place outside it.
LEMMA OutsideMoves ==
  ASSUME FileInv, NEW p \in Proc, proc[p].pc # "inside", UNCHANGED <<meta, flock>>,
         NEW e \in {Away} \cup Busy, e.pc # "inside", proc' = [proc EXCEPT ![p] = e]
  PROVE  /\ proc' \in [Proc -> {Away} \cup Busy]
         /\ \A q \in Proc : proc'[q].pc = "inside" <=> flock' = q
         /\ InHand'
<1>1. \A q \in Proc : proc'[q] = IF q = p THEN e ELSE proc[q]
  BY DEF FileInv, TypeOK
<1>2. proc' \in [Proc -> {Away} \cup Busy]
  BY DEF FileInv, TypeOK
<1>3. flock # p
  BY DEF FileInv, TypeOK
<1> QED BY <1>1, <1>2, <1>3 DEF FileInv, TypeOK, InHand

\* The holder of the flock leaves: nobody is inside.
LEMMA HolderLeaves ==
  ASSUME FileInv, NEW p \in Proc, Return(p), proc[p].pc = "inside"
  PROVE  /\ proc' \in [Proc -> {Away} \cup Busy]
         /\ flock' = None
         /\ mutex' \in Server \cup {None}
         /\ \A q \in Proc : proc'[q].pc = "inside" <=> flock' = q
         /\ InHand'
         /\ \A q \in Proc : proc'[q] \in {Away, proc[q]}
<1>1. flock = p
  BY DEF FileInv, TypeOK
<1>2. /\ proc' = [proc EXCEPT ![p] = Away] /\ flock' = None
      /\ mutex' \in Server \cup {None}
  BY <1>1 DEF Return, FileInv, TypeOK
<1>3. \A q \in Proc : q # p => proc[q].pc # "inside"
  BY <1>1 DEF FileInv, TypeOK
<1>4. \A q \in Proc : proc'[q] = IF q = p THEN Away ELSE proc[q]
  BY <1>2 DEF FileInv, TypeOK
<1>5. Away.pc # "inside"
  BY DEF Away
<1>6. proc' \in [Proc -> {Away} \cup Busy]
  BY <1>2 DEF FileInv, TypeOK
<1>7. \A q \in Proc : proc'[q].pc # "inside" /\ q # None
  BY <1>3, <1>4, <1>5, ProcsDiffer
<1> QED BY <1>2, <1>4, <1>6, <1>7 DEF InHand

\* Some are killed; a holder of the flock among them loses it.
LEMMA SomeDie ==
  ASSUME FileInv, NEW K \in SUBSET Proc, UNCHANGED meta,
         proc' = [p \in Proc |-> IF p \in K THEN Away ELSE proc[p]],
         flock' = IF flock \in K THEN None ELSE flock
  PROVE  /\ proc' \in [Proc -> {Away} \cup Busy]
         /\ flock' \in Proc \cup {None}
         /\ \A q \in Proc : proc'[q].pc = "inside" <=> flock' = q
         /\ InHand'
<1>1. \A q \in Proc : proc'[q] = IF q \in K THEN Away ELSE proc[q]
  OBVIOUS
<1>2. proc' \in [Proc -> {Away} \cup Busy]
  BY DEF FileInv, TypeOK
<1>3. Away.pc # "inside"
  BY DEF Away
<1>4. \A q \in Proc : q # None
  BY ProcsDiffer
<1> QED BY <1>1, <1>2, <1>3, <1>4 DEF FileInv, TypeOK, InHand

\* The parts of TypeOK that are not about who is where.
Scalars ==
  /\ clock \in 0..MaxClock /\ queries \in 0..MaxQueries /\ faults \in 0..MaxFaults
  /\ meta \in Meta \cup {None}
  /\ earliest \in Nat \cup {None} /\ crossed \in Nat \cup {None}
  /\ up \in BOOLEAN /\ noticed \in BOOLEAN /\ heeded \in BOOLEAN
  /\ mutex \in Server \cup {None}

Places ==
  /\ flock \in Proc \cup {None}
  /\ proc \in [Proc -> {Away} \cup Busy]
  /\ \A p \in Proc : proc[p].pc = "inside" <=> flock = p
  /\ InHand

LEMMA FileInvParts == FileInv <=> Scalars /\ Places
BY DEF FileInv, TypeOK, Scalars, Places

LEMMA FileInvPartsNext == FileInv' <=> Scalars' /\ Places'
BY DEF FileInv, TypeOK, Scalars, Places

LEMMA CrossingTyped ==
  ASSUME Scalars, NEW now \in Nat, NEW count \in Nat, Crossing(now, count)
  PROVE  crossed' \in Nat \cup {None}
BY DEF Scalars, Crossing

LEMMA FileStep == FileInv /\ [Next]_vars => FileInv'
<1> SUFFICES ASSUME FileInv, [Next]_vars PROVE Scalars' /\ Places'
  BY FileInvPartsNext
<1>0. Scalars /\ Places
  BY FileInvParts
<1>a. clock \in Nat /\ queries \in Nat /\ clock + 1 \in Nat /\ queries + 1 \in Nat
  BY <1>0, CheckpointAssumption DEF Scalars
<1>f. ASSUME Fault PROVE faults' \in 0..MaxFaults
  BY <1>f, <1>0, CheckpointAssumption DEF Fault, Scalars
<1>1. CASE Tick
  <2>1. clock' \in 0..MaxClock
    BY <1>1, <1>0, CheckpointAssumption DEF Tick, Scalars
  <2>2. crossed' \in Nat \cup {None}
    BY <1>1, <1>0, <1>a, CrossingTyped DEF Tick
  <2> QED BY <1>1, <1>0, <2>1, <2>2 DEF Tick, Scalars, Places, InHand
<1>2. CASE StepBack
  <2>1. clock' \in 0..MaxClock
    BY <1>2, <1>0, CheckpointAssumption DEF StepBack, Scalars
  <2> QED BY <1>2, <1>0, <1>f, <2>1 DEF StepBack, Scalars, Places, InHand
<1>3. CASE Kill
  <2>1. proc' = [p \in Proc |-> IF p \in Server THEN Away ELSE proc[p]]
        /\ flock' = (IF flock \in Server THEN None ELSE flock) /\ UNCHANGED meta
    BY <1>3 DEF Kill
  <2>2. Places'
    BY <2>1, SomeDie, ProcsDiffer DEF Places
  <2> QED BY <1>3, <1>0, <1>f, <2>2 DEF Kill, Scalars
<1>4. ASSUME NEW v \in Reviewer, KillReview(v) PROVE Scalars' /\ Places'
  <2>1. v \in Proc /\ {v} \subseteq Proc
    BY ProcsDiffer
  <2>2. proc' = [p \in Proc |-> IF p \in {v} THEN Away ELSE proc[p]]
        /\ flock' = (IF flock \in {v} THEN None ELSE flock) /\ UNCHANGED meta
    BY <1>4, <1>0, <2>1 DEF KillReview, Places
  <2>3. Places'
    BY <2>1, <2>2, SomeDie DEF Places
  <2> QED BY <1>4, <1>0, <1>f, <2>3 DEF KillReview, Scalars
<1>5. ASSUME NEW h \in Handlers, Begin(h) PROVE Scalars' /\ Places'
  <2>1. At("count", 0, 0, FALSE) \in Busy /\ At("count", 0, 0, FALSE).pc = "count"
    BY AtTyped DEF Stages
  <2>2. proc[h].pc # "inside" /\ h \in Proc
    BY <1>5, ProcsDiffer DEF Begin, Away
  <2>3. Places'
    BY <1>5, <1>0, <2>1, <2>2, OutsideMoves DEF Begin, Places
  <2>4. queries' \in 0..MaxQueries /\ earliest' \in Nat \cup {None}
    BY <1>5, <1>0, <1>a, CheckpointAssumption DEF Begin, Scalars
  <2>5. crossed' \in Nat \cup {None}
    BY <1>5, <1>0, <1>a, CrossingTyped DEF Begin
  <2> QED BY <1>5, <1>0, <2>3, <2>4, <2>5 DEF Begin, Scalars
<1>6. CASE Pass
  <2>1. At("count", clock, 0, FALSE) \in Busy /\ At("count", clock, 0, FALSE).pc = "count"
    <3>1. "count" \in Stages /\ clock \in Nat /\ 0 \in Nat /\ FALSE \in BOOLEAN
      BY <1>a DEF Stages
    <3> QED BY <3>1, AtTyped
  <2>2. proc[Watchdog].pc # "inside"
    BY <1>6 DEF Pass, Away
  <2>3. Places'
    BY <1>6, <1>0, <2>1, <2>2, OutsideMoves, ProcsDiffer DEF Pass, Places
  <2> QED BY <1>6, <1>0, <2>3 DEF Pass, Scalars
<1>7. ASSUME NEW p \in Handlers \cup {Watchdog}, Count(p) PROVE Scalars' /\ Places'
  <2>1. p \in Proc /\ proc[p] \in Busy
    BY <1>7, ProcsDiffer, BusyTyped DEF Count, FileInv
  <2> DEFINE e == [proc[p] EXCEPT !.pc = "mutex", !.count = queries]
  <2>2. e \in Busy /\ e.pc = "mutex" /\ proc' = [proc EXCEPT ![p] = e]
    BY <1>7, <1>a, <2>1 DEF Count, Busy, Stages
  <2>3. Places'
    BY <1>7, <1>0, <2>1, <2>2, OutsideMoves DEF Count, Places
  <2> QED BY <1>7, <1>0, <2>3 DEF Count, Scalars
<1>8. ASSUME NEW p \in Handlers \cup {Watchdog}, Lock(p) PROVE Scalars' /\ Places'
  <2>1. p \in Proc /\ p \in Server /\ proc[p] \in Busy
    BY <1>8, ProcsDiffer, BusyTyped DEF Lock, FileInv, Server
  <2> DEFINE e == [proc[p] EXCEPT !.pc = "flock",
                                  !.now = IF p = Watchdog THEN proc[p].now ELSE clock]
  <2>2. e \in Busy /\ e.pc = "flock" /\ proc' = [proc EXCEPT ![p] = e]
    BY <1>8, <1>a, <2>1 DEF Lock, Busy, Stages
  <2>3. Places'
    BY <1>8, <1>0, <2>1, <2>2, OutsideMoves DEF Lock, Places
  <2> QED BY <1>8, <1>0, <2>1, <2>3 DEF Lock, Scalars
<1>9. ASSUME NEW p \in Proc, Enter(p) PROVE Scalars' /\ Places'
  <2>1. proc[p] \in Busy
    BY <1>9, BusyTyped DEF Enter, FileInv
  <2> DEFINE e == [proc[p] EXCEPT !.pc = "inside", !.seen = meta]
  <2>2. e \in Busy /\ e.pc = "inside" /\ e.seen = meta /\ proc' = [proc EXCEPT ![p] = e]
    BY <1>9, <1>0, <2>1 DEF Enter, Busy, Stages, Scalars
  <2>3. \A q \in Proc : proc'[q] = IF q = p THEN e ELSE proc[q]
    BY <2>2, <1>0 DEF Places
  <2>4. \A q \in Proc : proc[q].pc # "inside"
    BY <1>9, <1>0, ProcsDiffer DEF Enter, Places
  <2>5. proc' \in [Proc -> {Away} \cup Busy]
    BY <2>2, <1>0 DEF Places
  <2>6. Places'
    BY <1>9, <2>2, <2>3, <2>4, <2>5 DEF Enter, Places, InHand
  <2> QED BY <1>9, <1>0, <2>6 DEF Enter, Scalars
<1>10. ASSUME NEW p \in Handlers \cup {Watchdog}, state(p) PROVE Scalars' /\ Places'
  <2>1. p \in Proc /\ proc[p] \in Busy
    BY <1>10, ProcsDiffer, BusyTyped DEF state, FileInv
  <2>2. Places' /\ mutex' \in Server \cup {None}
    BY <1>10, <2>1, HolderLeaves DEF state, Places
  <2>3. meta' \in Meta \cup {None} /\ noticed' \in BOOLEAN
    <3>1. CASE Loads(proc[p].seen)
      <4>1. proc[p].seen \in Meta
        BY <3>1, <2>1 DEF Loads, Busy
      <4>2. Judged(proc[p].seen, proc[p].now, proc[p].count) \in Meta
        BY <4>1, <2>1, JudgedMeta DEF Busy
      <4> QED BY <1>10, <1>0, <3>1, <4>2 DEF state, Scalars
    <3>2. CASE ~Loads(proc[p].seen)
      BY <1>10, <1>0, <3>2 DEF state, Scalars
    <3> QED BY <3>1, <3>2
  <2> QED BY <1>10, <1>0, <2>2, <2>3 DEF state, Scalars
<1>11. ASSUME NEW v \in Reviewer, Review(v) PROVE Scalars' /\ Places'
  <2>1. At("flock", clock, 0, noticed) \in Busy /\ At("flock", clock, 0, noticed).pc = "flock"
    BY AtTyped, <1>a, <1>0 DEF Stages, Scalars
  <2>2. proc[v].pc # "inside" /\ v \in Proc
    BY <1>11, ProcsDiffer DEF Review, Away
  <2>3. Places'
    BY <1>11, <1>0, <2>1, <2>2, OutsideMoves DEF Review, Places
  <2> QED BY <1>11, <1>0, <2>3 DEF Review, Scalars
<1>12. ASSUME NEW v \in Reviewer, record_review(v) PROVE Scalars' /\ Places'
  <2>1. v \in Proc /\ proc[v] \in Busy
    BY <1>12, ProcsDiffer, BusyTyped DEF record_review, FileInv
  <2>2. Places' /\ mutex' \in Server \cup {None}
    BY <1>12, <2>1, HolderLeaves DEF record_review, Places
  <2>3. meta' \in Meta \cup {None} /\ heeded' \in BOOLEAN
    <3>1. CASE Loads(proc[v].seen)
      <4>1. proc[v].seen \in Meta /\ proc[v].now \in Nat /\ proc[v].saw \in BOOLEAN
        BY <3>1, <2>1 DEF Loads, Busy
      <4>2. [proc[v].seen EXCEPT !.reviews = Append(@, proc[v].now)] \in Meta
        BY <4>1, AppendMeta
      <4> QED BY <1>12, <1>0, <3>1, <4>1, <4>2 DEF record_review, Scalars
    <3>2. CASE ~Loads(proc[v].seen)
      BY <1>12, <1>0, <3>2 DEF record_review, Scalars
    <3> QED BY <3>1, <3>2
  <2> QED BY <1>12, <1>0, <2>2, <2>3 DEF record_review, Scalars
<1>13. CASE Launch
  <2>1. At("flock", clock, queries, FALSE) \in Busy /\ At("flock", clock, queries, FALSE).pc = "flock"
    BY AtTyped, <1>a DEF Stages
  <2>2. proc[Startup].pc # "inside"
    BY <1>13 DEF Launch, Away
  <2>3. Places'
    BY <1>13, <1>0, <2>1, <2>2, OutsideMoves, ProcsDiffer DEF Launch, Places
  <2> QED BY <1>13, <1>0, <2>3 DEF Launch, Scalars
<1>14. CASE init_or_load
  <2>1. Startup \in Proc /\ proc[Startup] \in Busy
    BY <1>14, ProcsDiffer, BusyTyped DEF init_or_load, FileInv
  <2>2. Places' /\ mutex' \in Server \cup {None}
    BY <1>14, <2>1, HolderLeaves DEF init_or_load, Places
  <2>3. Fresh(proc[Startup].now) \in Meta /\ proc[Startup].now + DueAfter \in Nat
    BY <2>1, CheckpointAssumption DEF Fresh, Meta, Busy
  <2>4. meta' \in Meta \cup {None} /\ up' \in BOOLEAN /\ crossed' \in Nat \cup {None}
    BY <1>14, <1>0, <2>3 DEF init_or_load, Scalars
  <2> QED BY <1>14, <1>0, <2>2, <2>4 DEF init_or_load, Scalars
<1>15. CASE UNCHANGED vars
  BY <1>15, <1>0 DEF vars, Scalars, Places, InHand
<1> QED
  BY <1>1, <1>2, <1>3, <1>4, <1>5, <1>6, <1>7, <1>8, <1>9, <1>10, <1>11, <1>12, <1>13,
     <1>14, <1>15, ProcsDiffer DEF Next, Steady, ServerStep

\* The types are kept for ever: in particular, whoever is inside the flock is
\* its only holder, through every kill.
THEOREM TypeCorrect == Spec => []TypeOK
<1>1. FileInv => TypeOK
  BY DEF FileInv
<1> QED BY FileInit, FileStep, <1>1, PTL DEF Spec

-----------------------------------------------------------------------------
(* Nothing on file is taken back.                                            *)

\* What the three writers do to the file, given that nobody wrote it between
\* their read and their write.
LEMMA StateWrites ==
  ASSUME FileInv, NEW p \in Handlers \cup {Watchdog}, state(p), Loads(meta)
  PROVE  /\ proc[p] \in Busy /\ p \in Proc
         /\ meta \in Meta
         /\ meta' = Judged(meta, proc[p].now, proc[p].count)
         /\ noticed' = (noticed \/ Answer(meta', proc[p].now) # "ok")
<1>1. p \in Proc /\ proc[p] \in Busy
  BY ProcsDiffer, BusyTyped DEF state, FileInv
<1>2. proc[p].seen = meta
  BY <1>1 DEF state, FileInv, InHand
<1>3. meta \in Meta
  BY DEF FileInv, TypeOK, Loads
<1> QED BY <1>1, <1>2, <1>3 DEF state

LEMMA StateWritesNothing ==
  ASSUME FileInv, NEW p \in Handlers \cup {Watchdog}, state(p), ~Loads(meta)
  PROVE  UNCHANGED <<meta, noticed>>
BY ProcsDiffer DEF state, FileInv, InHand

LEMMA ReviewWrites ==
  ASSUME FileInv, NEW v \in Reviewer, record_review(v), Loads(meta)
  PROVE  /\ proc[v] \in Busy /\ v \in Proc
         /\ meta \in Meta
         /\ meta' = [meta EXCEPT !.reviews = Append(@, proc[v].now)]
         /\ heeded' = (heeded \/ proc[v].saw)
<1>1. v \in Proc /\ proc[v] \in Busy
  BY ProcsDiffer, BusyTyped DEF record_review, FileInv
<1>2. proc[v].seen = meta
  BY <1>1 DEF record_review, FileInv, InHand
<1>3. meta \in Meta
  BY DEF FileInv, TypeOK, Loads
<1> QED BY <1>1, <1>2, <1>3 DEF record_review

LEMMA ReviewWritesNothing ==
  ASSUME FileInv, NEW v \in Reviewer, record_review(v), ~Loads(meta)
  PROVE  UNCHANGED <<meta, heeded>>
BY ProcsDiffer DEF record_review, FileInv, InHand

LEMMA StartupWritesNothing ==
  ASSUME FileInv, init_or_load, meta # None
  PROVE  UNCHANGED meta
BY ProcsDiffer DEF init_or_load, FileInv, InHand

LEMMA UnchangedKept == ASSUME FileInv, UNCHANGED meta PROVE FileKept
<1>1. CASE meta = None
  BY <1>1 DEF FileKept
<1>2. CASE meta # None
  <2>1. meta.reviews \in Seq(Nat)
    BY <1>2 DEF FileInv, TypeOK, Meta
  <2> QED BY <1>2, <2>1 DEF FileKept
<1> QED BY <1>1, <1>2

LEMMA FileKeptStep == FileInv /\ [Next]_vars => FileKept
<1> SUFFICES ASSUME FileInv, [Next]_vars PROVE FileKept
  OBVIOUS
<1>1. ASSUME NEW p \in Handlers \cup {Watchdog}, state(p) PROVE FileKept
  <2>1. CASE Loads(meta)
    <3>1. /\ meta \in Meta /\ proc[p].now \in Nat /\ proc[p].count \in Nat
          /\ meta' = Judged(meta, proc[p].now, proc[p].count)
      BY <1>1, <2>1, StateWrites DEF Busy
    <3>2. /\ meta' \in Meta /\ meta'.launched_ts = meta.launched_ts
          /\ meta'.reviews = meta.reviews
          /\ meta.due_since # None => meta'.due_since = meta.due_since
      BY <3>1, JudgedMeta
    <3>3. meta.reviews \in Seq(Nat)
      BY <3>1 DEF Meta
    <3>4. meta' # None
      BY <3>2, CheckpointAssumption
    <3> QED BY <3>2, <3>3, <3>4 DEF FileKept
  <2>2. CASE ~Loads(meta)
    BY <1>1, <2>2, StateWritesNothing, UnchangedKept
  <2> QED BY <2>1, <2>2
<1>2. ASSUME NEW v \in Reviewer, record_review(v) PROVE FileKept
  <2>1. CASE Loads(meta)
    <3>1. /\ meta \in Meta /\ proc[v].now \in Nat
          /\ meta' = [meta EXCEPT !.reviews = Append(@, proc[v].now)]
      BY <1>2, <2>1, ReviewWrites DEF Busy
    <3>2. /\ meta' \in Meta /\ meta'.launched_ts = meta.launched_ts
          /\ meta'.due_since = meta.due_since
          /\ Len(meta'.reviews) = Len(meta.reviews) + 1
          /\ \A i \in 1..Len(meta.reviews) : meta'.reviews[i] = meta.reviews[i]
      BY <3>1, AppendMeta
    <3>3. Len(meta.reviews) \in Nat
      BY <3>1 DEF Meta
    <3>4. meta' # None
      BY <3>2, CheckpointAssumption
    <3> QED BY <3>2, <3>3, <3>4 DEF FileKept
  <2>2. CASE ~Loads(meta)
    BY <1>2, <2>2, ReviewWritesNothing, UnchangedKept
  <2> QED BY <2>1, <2>2
<1>3. CASE init_or_load
  <2>1. CASE meta = None
    BY <2>1 DEF FileKept
  <2>2. CASE meta # None
    BY <1>3, <2>2, StartupWritesNothing, UnchangedKept
  <2> QED BY <2>1, <2>2
<1>4. ASSUME UNCHANGED meta PROVE FileKept
  BY <1>4, UnchangedKept
<1> QED
  BY <1>1, <1>2, <1>3, <1>4
  DEF Next, Steady, ServerStep, Tick, StepBack, Kill, KillReview, Begin, Pass, Count, Lock, Enter,
      Review, Launch, vars

\* Whatever the server and the review commands do to the one file, a launch, a
\* review and a due_since on it stay: the flock makes every rewrite build on
\* the file as it is.
THEOREM FileIsKept == Spec => NothingIsTakenBack
BY FileInit, FileStep, FileKeptStep, PTL DEF Spec, NothingIsTakenBack

-----------------------------------------------------------------------------
(* A heeded notice lifts the gate, where the clock is never set back.        *)

Rest == NoticedIsDue /\ NotAhead /\ SawIsAfter /\ HeededNoticeLifts

LEMMA HeedInit == Init => FileInv /\ Rest
<1> SUFFICES ASSUME Init PROVE Rest
  BY FileInit
<1>1. \A p \in Proc : proc[p] = Away
  BY DEF Init
<1>2. clock \in Nat /\ meta = None /\ ~noticed /\ ~heeded
  BY DEF Init
<1> QED BY <1>1, <1>2, ProcsDiffer DEF Rest, NoticedIsDue, NotAhead, SawIsAfter, HeededNoticeLifts

\* A step that writes nothing, with the clock not running back, and in which
\* whoever is new at work has the time of now or earlier, and saw what is noticed.
LEMMA QuietStep ==
  ASSUME FileInv, Rest, FileInv', UNCHANGED <<meta, noticed, heeded>>,
         clock' >= clock,
         \A p \in Proc : proc'[p] # Away =>
           \/ proc[p] # Away /\ proc'[p].now = proc[p].now /\ proc'[p].saw = proc[p].saw
           \/ proc'[p].now <= clock /\ (proc'[p].saw => noticed /\ proc'[p].now = clock)
           \/ proc'[p].now <= clock /\ p \notin Reviewer
  PROVE  Rest'
<1>1. clock \in Nat /\ clock' \in Nat
  BY CheckpointAssumption DEF FileInv, TypeOK
<1>2. \A p \in Proc : proc[p] # Away => proc[p].now \in Nat
  BY DEF FileInv, TypeOK, Busy
<1>3. \A p \in Proc : proc'[p] # Away => proc'[p].now \in Nat
  BY DEF FileInv, TypeOK, Busy
<1>4. noticed => meta.due_since \in Nat /\ meta.due_since <= clock
  BY DEF Rest, NoticedIsDue, NotAhead, FileInv, TypeOK, Meta
<1>5. meta # None /\ meta.due_since # None => meta.due_since \in Nat
  BY DEF FileInv, TypeOK, Meta
<1>6. NotAhead'
  BY <1>1, <1>2, <1>3, <1>5 DEF Rest, NotAhead
<1>7. SawIsAfter'
  BY <1>1, <1>2, <1>3, <1>4, ProcsDiffer DEF Rest, SawIsAfter
<1> QED BY <1>6, <1>7 DEF Rest, NoticedIsDue, HeededNoticeLifts, Lifted, Reviewed

LEMMA LiftedStays ==
  ASSUME FileInv, FileInv', FileKept, Lifted
  PROVE  Lifted'
<1>1. meta \in Meta /\ meta' \in Meta /\ meta.due_since \in Nat
  BY DEF FileInv, TypeOK, FileKept, Lifted, Meta
<1>2. PICK i \in 1..Len(meta.reviews) : meta.reviews[i] >= meta.due_since
  BY DEF Lifted, Reviewed
<1>3. /\ meta'.due_since = meta.due_since /\ meta'.reviews[i] = meta.reviews[i]
      /\ Len(meta'.reviews) >= Len(meta.reviews)
  BY <1>2 DEF FileKept, Lifted
<1>4. i \in 1..Len(meta'.reviews)
  BY <1>1, <1>2, <1>3 DEF Meta
<1>5. meta' # None /\ meta'.due_since # None
  BY <1>1, <1>3, CheckpointAssumption DEF Lifted
<1> QED BY <1>2, <1>3, <1>4, <1>5 DEF Lifted, Reviewed

\* The steps of a write: the callers' times and notices are as before, and a
\* due_since that was set is as before.
LEMMA WriteStep ==
  ASSUME FileInv, Rest, FileInv', UNCHANGED clock, FileKept,
         \A p \in Proc : proc'[p] \in {Away, proc[p]},
         noticed => noticed', noticed' => meta' # None /\ meta'.due_since # None,
         meta' # None /\ meta'.due_since # None =>
           \/ meta # None /\ meta'.due_since = meta.due_since
           \/ meta'.due_since <= clock,
         heeded' => Lifted'
  PROVE  Rest'
<1>1. NoticedIsDue'
  BY DEF NoticedIsDue
<1>2. NotAhead'
  BY DEF Rest, NotAhead
<1>3. SawIsAfter'
  <2> SUFFICES ASSUME NEW v \in Reviewer, proc'[v] # Away, proc'[v].saw
               PROVE  noticed' /\ proc'[v].now >= meta'.due_since
    BY DEF SawIsAfter
  <2>1. proc'[v] = proc[v]
    BY ProcsDiffer
  <2>2. noticed /\ proc[v].now >= meta.due_since
    BY <2>1 DEF Rest, SawIsAfter
  <2>3. meta'.due_since = meta.due_since
    BY <2>2 DEF Rest, NoticedIsDue, FileKept
  <2> QED BY <2>1, <2>2, <2>3
<1> QED BY <1>1, <1>2, <1>3 DEF Rest, HeededNoticeLifts

LEMMA HeedStep == ClockSteps = FALSE /\ FileInv /\ Rest /\ [Next]_vars => Rest'
<1> SUFFICES ASSUME ClockSteps = FALSE, FileInv, Rest, [Next]_vars PROVE Rest'
  OBVIOUS
<1>0. FileInv' /\ FileKept /\ clock \in Nat /\ proc \in [Proc -> {Away} \cup Busy]
  BY FileStep, FileKeptStep, CheckpointAssumption DEF FileInv, TypeOK
<1>a. FileInv'
  BY <1>0
<1>1. CASE Tick
  BY <1>1, <1>0, QuietStep DEF Tick
<1>2. CASE StepBack
  BY <1>2 DEF StepBack
<1>3. CASE Kill
  <2>1. \A p \in Proc : proc'[p] \in {Away, proc[p]}
    BY <1>3 DEF Kill
  <2> QED BY <1>3, <1>0, <2>1, QuietStep DEF Kill
<1>4. ASSUME NEW v \in Reviewer, KillReview(v) PROVE Rest'
  <2>1. \A p \in Proc : proc'[p] \in {Away, proc[p]}
    BY <1>4, <1>0, ProcsDiffer DEF KillReview
  <2> QED BY <1>4, <1>0, <2>1, QuietStep DEF KillReview
<1>5. ASSUME NEW h \in Handlers, Begin(h) PROVE Rest'
  <2> DEFINE e == At("count", 0, 0, FALSE)
  <2>1. \A p \in Proc : proc'[p] = IF p = h THEN e ELSE proc[p]
    BY <1>5, <1>0 DEF Begin
  <2>2. h \notin Reviewer /\ e.now = 0
    BY ProcsDiffer DEF Server, At
  <2>3. 0 <= clock
    BY <1>0
  <2> HIDE DEF e
  <2>4. \A p \in Proc : proc'[p] # Away =>
           \/ proc[p] # Away /\ proc'[p].now = proc[p].now /\ proc'[p].saw = proc[p].saw
           \/ proc'[p].now <= clock /\ p \notin Reviewer
    BY <1>0, <2>1, <2>2, <2>3
  <2>5. UNCHANGED <<clock, meta, noticed, heeded>>
    BY <1>5 DEF Begin
  <2> QED BY <1>0, <2>4, <2>5, QuietStep
<1>6. CASE Pass
  <2> DEFINE e == At("count", clock, 0, FALSE)
  <2>1. \A p \in Proc : proc'[p] = IF p = Watchdog THEN e ELSE proc[p]
    BY <1>6, <1>0 DEF Pass
  <2>2. Watchdog \notin Reviewer /\ e.now = clock
    BY ProcsDiffer DEF Server, At
  <2> HIDE DEF e
  <2>4. \A p \in Proc : proc'[p] # Away =>
           \/ proc[p] # Away /\ proc'[p].now = proc[p].now /\ proc'[p].saw = proc[p].saw
           \/ proc'[p].now <= clock /\ p \notin Reviewer
    BY <1>0, <2>1, <2>2
  <2>5. UNCHANGED <<clock, meta, noticed, heeded>>
    BY <1>6 DEF Pass
  <2> QED BY <1>0, <2>4, <2>5, QuietStep
<1>7. ASSUME NEW q \in Handlers \cup {Watchdog}, Count(q) PROVE Rest'
  <2>1. q \in Proc /\ proc[q] \in Busy /\ proc[q] # Away
    BY <1>7, ProcsDiffer, BusyTyped DEF Count, FileInv, Away
  <2> DEFINE e == [proc[q] EXCEPT !.pc = "mutex", !.count = queries]
  <2>2. e.now = proc[q].now /\ e.saw = proc[q].saw
    BY <2>1 DEF Busy
  <2>3. \A p \in Proc : proc'[p] = IF p = q THEN e ELSE proc[p]
    BY <1>7, <1>0, <2>1 DEF Count
  <2> HIDE DEF e
  <2> QED BY <1>7, <1>0, <2>1, <2>2, <2>3, QuietStep DEF Count
<1>8. ASSUME NEW q \in Handlers \cup {Watchdog}, Lock(q) PROVE Rest'
  <2>1. q \in Proc /\ q \notin Reviewer /\ proc[q] \in Busy /\ proc[q] # Away
    BY <1>8, ProcsDiffer, BusyTyped DEF Lock, FileInv, Away, Server
  <2> DEFINE e == [proc[q] EXCEPT !.pc = "flock",
                                  !.now = IF q = Watchdog THEN proc[q].now ELSE clock]
  <2>2. e.now \in {proc[q].now, clock}
    BY <2>1 DEF Busy
  <2>3. \A p \in Proc : proc'[p] = IF p = q THEN e ELSE proc[p]
    BY <1>8, <1>0, <2>1 DEF Lock
  <2>4. e.now <= clock
    BY <2>1, <2>2, <1>0 DEF Rest, NotAhead
  <2> HIDE DEF e
  <2> QED BY <1>8, <1>0, <2>1, <2>3, <2>4, QuietStep DEF Lock
<1>9. ASSUME NEW q \in Proc, Enter(q) PROVE Rest'
  <2>1. proc[q] \in Busy /\ proc[q] # Away
    BY <1>9, BusyTyped DEF Enter, FileInv, Away
  <2> DEFINE e == [proc[q] EXCEPT !.pc = "inside", !.seen = meta]
  <2>2. e.now = proc[q].now /\ e.saw = proc[q].saw
    BY <2>1 DEF Busy
  <2>3. \A p \in Proc : proc'[p] = IF p = q THEN e ELSE proc[p]
    BY <1>9, <1>0, <2>1 DEF Enter
  <2> HIDE DEF e
  <2> QED BY <1>9, <1>0, <2>1, <2>2, <2>3, QuietStep DEF Enter
<1>10. ASSUME NEW v \in Reviewer, Review(v) PROVE Rest'
  <2>1. \A p \in Proc : proc'[p] = IF p = v THEN At("flock", clock, 0, noticed) ELSE proc[p]
    BY <1>10, <1>0 DEF Review
  <2>2. At("flock", clock, 0, noticed).now = clock /\ At("flock", clock, 0, noticed).saw = noticed
    BY DEF At
  <2> QED BY <1>10, <1>0, <2>1, <2>2, QuietStep DEF Review
<1>11. CASE Launch
  <2> DEFINE e == At("flock", clock, queries, FALSE)
  <2>1. \A p \in Proc : proc'[p] = IF p = Startup THEN e ELSE proc[p]
    BY <1>11, <1>0 DEF Launch
  <2>2. Startup \notin Reviewer /\ e.now = clock
    BY ProcsDiffer DEF Server, At
  <2> HIDE DEF e
  <2>4. \A p \in Proc : proc'[p] # Away =>
           \/ proc[p] # Away /\ proc'[p].now = proc[p].now /\ proc'[p].saw = proc[p].saw
           \/ proc'[p].now <= clock /\ p \notin Reviewer
    BY <1>0, <2>1, <2>2
  <2>5. UNCHANGED <<clock, meta, noticed, heeded>>
    BY <1>11 DEF Launch
  <2> QED BY <1>0, <2>4, <2>5, QuietStep
<1>12. ASSUME NEW p \in Handlers \cup {Watchdog}, state(p) PROVE Rest'
  <2>1. p \in Proc /\ UNCHANGED <<clock, heeded>> /\ \A q \in Proc : proc'[q] \in {Away, proc[q]}
    BY <1>12, ProcsDiffer, HolderLeaves DEF state
  <2>2. heeded' => Lifted'
    BY <1>0, <2>1, LiftedStays DEF Rest, HeededNoticeLifts
  <2>3. CASE Loads(meta)
    <3>1. /\ meta \in Meta /\ proc[p].now \in Nat /\ proc[p].count \in Nat
          /\ meta' = Judged(meta, proc[p].now, proc[p].count)
          /\ noticed' = (noticed \/ Answer(meta', proc[p].now) # "ok")
      BY <1>12, <2>3, StateWrites DEF Busy
    <3>2. meta' \in Meta /\ meta'.due_since \in {meta.due_since, proc[p].now}
      BY <3>1, JudgedMeta
    <3>3. proc[p].now <= clock
      BY <1>12, <2>1 DEF Rest, NotAhead, state, Away
    <3>4. meta # None /\ meta' # None
      BY <3>1, <3>2, CheckpointAssumption
    <3>5. noticed' => meta'.due_since # None
      BY <3>1, <3>4, <1>0 DEF Answer, Rest, NoticedIsDue, FileKept
    <3> QED BY <1>0, <2>1, <2>2, <3>1, <3>2, <3>3, <3>4, <3>5, WriteStep
  <2>4. CASE ~Loads(meta)
    <3>1. UNCHANGED <<meta, noticed>>
      BY <1>12, <2>4, StateWritesNothing
    <3> QED BY <1>0, <2>1, <2>2, <3>1, WriteStep DEF Rest, NoticedIsDue
  <2> QED BY <2>3, <2>4
<1>13. ASSUME NEW v \in Reviewer, record_review(v) PROVE Rest'
  <2>1. v \in Proc /\ UNCHANGED <<clock, noticed>> /\ \A q \in Proc : proc'[q] \in {Away, proc[q]}
    BY <1>13, ProcsDiffer, HolderLeaves DEF record_review
  <2>2. heeded => Lifted'
    BY <1>0, <2>1, LiftedStays DEF Rest, HeededNoticeLifts
  <2>3. CASE Loads(meta)
    <3>1. /\ meta \in Meta /\ proc[v].now \in Nat
          /\ meta' = [meta EXCEPT !.reviews = Append(@, proc[v].now)]
          /\ heeded' = (heeded \/ proc[v].saw)
      BY <1>13, <2>3, ReviewWrites DEF Busy
    <3>2. /\ meta' \in Meta /\ meta'.due_since = meta.due_since
          /\ Len(meta'.reviews) = Len(meta.reviews) + 1
          /\ meta'.reviews[Len(meta.reviews) + 1] = proc[v].now
      BY <3>1, AppendMeta
    <3>a. Len(meta.reviews) \in Nat
      BY <3>1 DEF Meta
    <3>b. meta # None /\ meta' # None
      BY <3>1, <3>2, CheckpointAssumption
    <3>3. meta # None /\ meta' # None /\ Len(meta.reviews) + 1 \in 1..Len(meta'.reviews)
      BY <3>a, <3>b, <3>2, SMTT(30)
    <3>4. proc[v].saw => noticed /\ proc[v].now >= meta.due_since
      BY <1>13, <2>1 DEF Rest, SawIsAfter, record_review, Away
    <3>5. proc[v].saw => Lifted'
      BY <3>2, <3>3, <3>4 DEF Lifted, Reviewed, Rest, NoticedIsDue
    <3>6. noticed' => meta'.due_since # None
      BY <2>1, <3>2 DEF Rest, NoticedIsDue
    <3> QED BY <1>0, <2>1, <2>2, <3>1, <3>2, <3>3, <3>5, <3>6, WriteStep
  <2>4. CASE ~Loads(meta)
    <3>1. UNCHANGED <<meta, heeded>>
      BY <1>13, <2>4, ReviewWritesNothing
    <3> QED BY <1>0, <2>1, <2>2, <3>1, WriteStep DEF Rest, NoticedIsDue
  <2> QED BY <2>3, <2>4
<1>14. CASE init_or_load
  <2>1. /\ UNCHANGED <<clock, noticed, heeded>> /\ Startup \in Proc /\ proc[Startup] # Away
        /\ proc[Startup].pc = "inside"
        /\ \A q \in Proc : proc'[q] \in {Away, proc[q]}
    BY <1>14, ProcsDiffer, HolderLeaves DEF init_or_load, Away
  <2>2. heeded' => Lifted'
    BY <1>0, <2>1, LiftedStays DEF Rest, HeededNoticeLifts
  <2>3. CASE meta = None
    <3>1. ~noticed
      BY <2>3 DEF Rest, NoticedIsDue
    <3>2. meta' # None => meta'.due_since = None
      <4>1. proc[Startup].seen = None
        BY <2>1, <2>3 DEF FileInv, InHand
      <4> QED BY <1>14, <2>3, <4>1 DEF init_or_load, Fresh, Loads
    <3> QED BY <1>0, <2>1, <2>2, <3>1, <3>2, WriteStep
  <2>4. CASE meta # None
    <3>1. UNCHANGED meta
      BY <1>14, <2>4, StartupWritesNothing
    <3> QED BY <1>0, <2>1, <2>2, <3>1, WriteStep DEF Rest, NoticedIsDue
  <2> QED BY <2>3, <2>4
<1>15. CASE UNCHANGED vars
  BY <1>15, <1>0, QuietStep DEF vars
<1> QED
  BY <1>1, <1>2, <1>3, <1>4, <1>5, <1>6, <1>7, <1>8, <1>9, <1>10, <1>11, <1>12, <1>13,
     <1>14, <1>15, ProcsDiffer DEF Next, Steady, ServerStep

\* A review command started after a notice lifts the gate, on every schedule of
\* the server's threads and the commands, where the clock is never set back.
THEOREM HeedingLifts ==
  ASSUME ClockSteps = FALSE
  PROVE  Spec => []HeededNoticeLifts
<1>1. Init => FileInv /\ Rest
  BY HeedInit
<1>2. FileInv /\ Rest /\ [Next]_vars => FileInv' /\ Rest'
  BY FileStep, HeedStep
<1>3. Rest => HeededNoticeLifts
  BY DEF Rest
<1> QED BY <1>1, <1>2, <1>3, PTL DEF Spec
===========================================================================
