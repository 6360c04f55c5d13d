---------------------------- MODULE Checkpoint ----------------------------
(***************************************************************************)
(* The checkpoint of the everos server (everos_mcp/checkpoint.py): after   *)
(* DueAfter or DueCount real queries the trial is "due" for a review, and  *)
(* Grace later, without one, "overdue": searches are refused.              *)
(*                                                                         *)
(* The state is one file, meta.json, rewritten by rename.  The handlers    *)
(* and the watchdog of the server (serialised by checkpoint_lock), its     *)
(* start-up, and the review commands of operators (processes of their own) *)
(* read it, decide and rewrite it under one flock.  Each takes its `now`   *)
(* before it has the flock; the watchdog long before, at the head of its   *)
(* pass.                                                                   *)
(***************************************************************************)
EXTENDS Naturals, Sequences, FiniteSets

CONSTANTS Handlers, Watchdog, Startup,   \* threads of the server
          Reviewer,                     \* processes of the review command
          DueAfter, DueCount, Grace,    \* 30 days, 200 queries, 7 days
          ClockSteps,   \* may the wall clock be set back?
          MaxClock, MaxQueries, MaxReviews, MaxFaults,   \* bounds
          None

Server == Handlers \cup {Watchdog, Startup}
Proc   == Server \cup Reviewer

Meta == [launched_ts : Nat, due_since : Nat \cup {None}, reviews : Seq(Nat)]

ASSUME CheckpointAssumption ==
  /\ DueAfter \in Nat \ {0} /\ DueCount \in Nat \ {0} /\ Grace \in Nat \ {0}
  /\ ClockSteps \in BOOLEAN /\ None \notin Nat /\ None \notin Meta
  /\ MaxClock \in Nat /\ MaxQueries \in Nat /\ MaxReviews \in Nat /\ MaxFaults \in Nat
  /\ Watchdog \notin Handlers /\ Startup \notin Handlers \cup {Watchdog}
  /\ Reviewer \cap Server = {} /\ None \notin Proc

VARIABLES clock,     \* time.time()
          meta,      \* meta.json: [launched_ts, due_since, reviews], or None
          queries,   \* the started rows on file
          earliest,  \* the least time among them, or None
          up,        \* has the server finished its start-up?
          mutex,     \* the holder of checkpoint_lock
          flock,     \* the holder of the flock on meta.lock
          proc,      \* where each thread and process stands
          faults,
          \* History, read by the properties only:
          crossed,   \* when the trial became due, by the clock and the rows on file
          noticed,   \* has some call found the trial due or overdue?
          heeded     \* has a review that began after that been recorded?

vars == <<clock, meta, queries, earliest, up, mutex, flock, proc, faults,
          crossed, noticed, heeded>>

Away == [pc |-> "away"]
At(pc, now, count, saw) == [pc |-> pc, now |-> now, count |-> count, saw |-> saw, seen |-> None]
Stages == {"count", "mutex", "flock", "inside"}
Busy == [pc : Stages, now : Nat, count : Nat, saw : BOOLEAN, seen : Meta \cup {None}]

TypeOK ==
  /\ clock \in 0..MaxClock /\ queries \in 0..MaxQueries /\ faults \in 0..MaxFaults
  /\ meta \in Meta \cup {None}
  /\ earliest \in Nat \cup {None} /\ crossed \in Nat \cup {None}
  /\ up \in BOOLEAN /\ noticed \in BOOLEAN /\ heeded \in BOOLEAN
  /\ mutex \in Server \cup {None}
  /\ flock \in Proc \cup {None}
  /\ proc \in [Proc -> {Away} \cup Busy]
  \* Whoever is inside the flock, and nobody else, has its file in hand.
  /\ \A p \in Proc : proc[p].pc = "inside" <=> flock = p

Init ==
  /\ clock = 0 /\ meta = None /\ queries = 0 /\ earliest = None
  /\ up = FALSE /\ mutex = None /\ flock = None
  /\ proc = [p \in Proc |-> Away]
  /\ faults = 0 /\ crossed = None /\ noticed = FALSE /\ heeded = FALSE

Fault == faults < MaxFaults /\ faults' = faults + 1
IsDue(now, count) == now >= meta.launched_ts + DueAfter \/ count >= DueCount

-----------------------------------------------------------------------------
(* The world.                                                                *)

\* The history variable follows the clock and the rows on file.
Crossing(now, count) ==
  crossed' = IF crossed = None /\ meta # None /\ IsDue(now, count) THEN now ELSE crossed

Tick ==
  /\ clock < MaxClock
  /\ clock' = clock + 1
  /\ Crossing(clock + 1, queries)
  /\ UNCHANGED <<meta, queries, earliest, up, mutex, flock, proc, faults, noticed, heeded>>

StepBack ==
  /\ ClockSteps /\ clock > 0 /\ Fault
  /\ clock' = clock - 1
  /\ UNCHANGED <<meta, queries, earliest, up, mutex, flock, proc, crossed, noticed, heeded>>

\* The server is killed, at any moment; the kernel drops its locks.
Kill ==
  /\ Fault /\ up' = FALSE /\ mutex' = None
  /\ up \/ proc[Startup] # Away
  /\ proc' = [p \in Proc |-> IF p \in Server THEN Away ELSE proc[p]]
  /\ flock' = IF flock \in Server THEN None ELSE flock
  /\ UNCHANGED <<clock, meta, queries, earliest, crossed, noticed, heeded>>

KillReview(v) ==
  /\ Fault /\ proc[v] # Away
  /\ proc' = [proc EXCEPT ![v] = Away]
  /\ flock' = IF flock = v THEN None ELSE flock
  /\ UNCHANGED <<clock, meta, queries, earliest, up, mutex, crossed, noticed, heeded>>

-----------------------------------------------------------------------------
(* state(), called by the handlers and by the watchdog.                      *)

\* A search puts its started row on file first.
Begin(h) ==
  /\ up /\ proc[h] = Away /\ queries < MaxQueries
  /\ queries' = queries + 1
  /\ earliest' = IF earliest = None \/ clock < earliest THEN clock ELSE earliest
  /\ proc' = [proc EXCEPT ![h] = At("count", 0, 0, FALSE)]
  /\ Crossing(clock, queries + 1)
  /\ UNCHANGED <<clock, meta, up, mutex, flock, faults, noticed, heeded>>

\* The watchdog reads the clock at the head of its pass.
Pass ==
  /\ up /\ proc[Watchdog] = Away
  /\ proc' = [proc EXCEPT ![Watchdog] = At("count", clock, 0, FALSE)]
  /\ UNCHANGED <<clock, meta, queries, earliest, up, mutex, flock, faults, crossed, noticed, heeded>>

\* _real_query_count, outside every lock.
Count(p) ==
  /\ proc[p].pc = "count"
  /\ proc' = [proc EXCEPT ![p].pc = "mutex", ![p].count = queries]
  /\ UNCHANGED <<clock, meta, queries, earliest, up, mutex, flock, faults, crossed, noticed, heeded>>

\* A handler reads the clock when it has checkpoint_lock.
Lock(p) ==
  /\ proc[p].pc = "mutex" /\ mutex = None
  /\ mutex' = p
  /\ proc' = [proc EXCEPT ![p].pc = "flock", ![p].now = IF p = Watchdog THEN @ ELSE clock]
  /\ UNCHANGED <<clock, meta, queries, earliest, up, flock, faults, crossed, noticed, heeded>>

\* _locked() and the read of meta.json.
Enter(p) ==
  /\ proc[p].pc = "flock" /\ flock = None
  /\ flock' = p
  /\ proc' = [proc EXCEPT ![p].pc = "inside", ![p].seen = meta]
  /\ UNCHANGED <<clock, meta, queries, earliest, up, mutex, faults, crossed, noticed, heeded>>

Return_KeepsLock(p) ==   \* faulty variant: the watchdog never lets go of checkpoint_lock
  /\ proc' = [proc EXCEPT ![p] = Away]
  /\ flock' = IF flock = p THEN None ELSE flock
  /\ mutex' = IF mutex = p /\ p # Watchdog THEN None ELSE mutex

\* The caller leaves the flock, and checkpoint_lock if it is a thread's.
Return(p) ==
  /\ proc' = [proc EXCEPT ![p] = Away]
  /\ flock' = IF flock = p THEN None ELSE flock
  /\ mutex' = IF mutex = p THEN None ELSE mutex

\* _try_load refuses a due_since before the launch.
Loads(file) == file # None /\ (file.due_since # None => file.due_since >= file.launched_ts)

\* What state() makes of the file it read: due_since is set once.
Judged(file, now, count) ==
  IF file.due_since = None /\ (now >= file.launched_ts + DueAfter \/ count >= DueCount)
  THEN [file EXCEPT !.due_since = now] ELSE file

Reviewed_Later(file) ==   \* faulty variant: a review of the same moment does not count
  \E i \in 1..Len(file.reviews) : file.reviews[i] > file.due_since

Reviewed(file) == \E i \in 1..Len(file.reviews) : file.reviews[i] >= file.due_since

\* What state() answers, from the file as judged.
Answer(file, now) ==
  IF file.due_since = None \/ Reviewed(file) THEN "ok"
  ELSE IF now >= file.due_since + Grace THEN "overdue" ELSE "due"

state(p) ==
  /\ proc[p].pc = "inside"
  /\ LET file == proc[p].seen
         judged == Judged(file, proc[p].now, proc[p].count) IN
       IF Loads(file)
       THEN /\ meta' = judged
            /\ noticed' = (noticed \/ Answer(judged, proc[p].now) # "ok")
       ELSE UNCHANGED <<meta, noticed>>
  /\ Return(p)
  /\ UNCHANGED <<clock, queries, earliest, up, faults, crossed, heeded>>

-----------------------------------------------------------------------------
(* record_review, the review command.                                        *)

Review(v) ==
  /\ proc[v] = Away
  /\ meta # None => Len(meta.reviews) + Cardinality({w \in Reviewer : proc[w] # Away}) < MaxReviews
  /\ proc' = [proc EXCEPT ![v] = At("flock", clock, 0, noticed)]
  /\ UNCHANGED <<clock, meta, queries, earliest, up, mutex, flock, faults, crossed, noticed, heeded>>

record_review_Only(v) ==   \* faulty variant: the review takes the place of those before
  /\ proc[v].pc = "inside"
  /\ LET file == proc[v].seen IN
       IF Loads(file)
       THEN /\ meta' = [file EXCEPT !.reviews = <<proc[v].now>>]
            /\ heeded' = (heeded \/ proc[v].saw)
       ELSE UNCHANGED <<meta, heeded>>
  /\ Return(v)
  /\ UNCHANGED <<clock, queries, earliest, up, faults, crossed, noticed>>

\* Refused when there is no file, or none that loads.
record_review(v) ==
  /\ proc[v].pc = "inside"
  /\ LET file == proc[v].seen IN
       IF Loads(file)
       THEN /\ meta' = [file EXCEPT !.reviews = Append(@, proc[v].now)]
            /\ heeded' = (heeded \/ proc[v].saw)
       ELSE UNCHANGED <<meta, heeded>>
  /\ Return(v)
  /\ UNCHANGED <<clock, queries, earliest, up, faults, crossed, noticed>>

-----------------------------------------------------------------------------
(* init_or_load, at start-up.                                                *)

\* The ledger is open; no other server is alive (the ledger's own lock).
Launch ==
  /\ ~up /\ proc[Startup] = Away
  /\ proc' = [proc EXCEPT ![Startup] = At("flock", clock, queries, FALSE)]
  /\ UNCHANGED <<clock, meta, queries, earliest, up, mutex, flock, faults, crossed, noticed, heeded>>

\* Without a file a new trial begins, unless there are rows already; a launch
\* later than the first row is refused.
Fresh(now) == [launched_ts |-> now, due_since |-> None, reviews |-> <<>>]

init_or_load_Strict ==   \* faulty variant: refuses a row of the moment of the launch
  /\ proc[Startup].pc = "inside"
  /\ LET me == proc[Startup] IN
       \/ /\ me.seen = None /\ me.count = 0
          /\ meta' = Fresh(me.now) /\ up' = TRUE
          /\ crossed' = IF clock >= me.now + DueAfter THEN me.now + DueAfter ELSE crossed
       \/ /\ Loads(me.seen) /\ (me.count > 0 => me.seen.launched_ts < earliest)
          /\ up' = TRUE /\ UNCHANGED <<meta, crossed>>
       \/ /\ IF me.seen = None THEN me.count > 0
             ELSE ~Loads(me.seen) \/ (me.count > 0 /\ me.seen.launched_ts >= earliest)
          /\ UNCHANGED <<meta, up, crossed>>
  /\ Return(Startup)
  /\ UNCHANGED <<clock, queries, earliest, faults, noticed, heeded>>

init_or_load ==
  /\ proc[Startup].pc = "inside"
  /\ LET me == proc[Startup] IN
       \/ /\ me.seen = None /\ me.count = 0
          /\ meta' = Fresh(me.now) /\ up' = TRUE
          /\ crossed' = IF clock >= me.now + DueAfter THEN me.now + DueAfter ELSE crossed
       \/ /\ Loads(me.seen) /\ (me.count > 0 => me.seen.launched_ts <= earliest)
          /\ up' = TRUE /\ UNCHANGED <<meta, crossed>>
       \/ /\ IF me.seen = None THEN me.count > 0
             ELSE ~Loads(me.seen) \/ (me.count > 0 /\ me.seen.launched_ts > earliest)
          /\ UNCHANGED <<meta, up, crossed>>
  /\ Return(Startup)
  /\ UNCHANGED <<clock, queries, earliest, faults, noticed, heeded>>

-----------------------------------------------------------------------------
ServerStep ==
  \/ \E p \in Handlers \cup {Watchdog} : Count(p) \/ Lock(p) \/ state(p)
  \/ Enter(Startup) \/ init_or_load \/ Launch
  \/ \E p \in Handlers \cup {Watchdog} : Enter(p)

\* What happens while the wall clock is not set back.
Steady ==
  \/ Tick \/ Kill
  \/ ServerStep
  \/ \E h \in Handlers : Begin(h)
  \/ Pass
  \/ \E v \in Reviewer : Review(v) \/ Enter(v) \/ record_review(v) \/ KillReview(v)

Next == Steady \/ StepBack

Spec == Init /\ [][Next]_vars

\* Threads and processes that run go on running, a server that is down is
\* started again; searches, passes and reviews need never come, and the
\* clock need not move.
Fairness ==
  /\ WF_vars(Launch) /\ WF_vars(init_or_load)
  /\ \A p \in Proc : SF_vars(Enter(p))
  /\ \A p \in Handlers \cup {Watchdog} : WF_vars(Count(p)) /\ SF_vars(Lock(p)) /\ WF_vars(state(p))
  /\ \A v \in Reviewer : WF_vars(record_review(v))

FairSpec == Spec /\ Fairness

-----------------------------------------------------------------------------
(* Properties.                                                               *)

\* The gate is open for good: a review at or after due_since is on file.
Lifted == meta # None /\ meta.due_since # None /\ Reviewed(meta)

\* The trial is launched once, a review once recorded stays, and due_since,
\* once set, never moves -- whatever the server and the review commands do to
\* the one file at the same time, and across kills of either.  This is what
\* makes "due" sticky and a review lift it for ever (checkpoint.py, _locked).
FileKept ==
  meta # None =>
    /\ meta' # None /\ meta'.launched_ts = meta.launched_ts
    /\ Len(meta'.reviews) >= Len(meta.reviews)
    /\ \A i \in 1..Len(meta.reviews) : meta'.reviews[i] = meta.reviews[i]
    /\ meta.due_since # None => meta'.due_since = meta.due_since

NothingIsTakenBack == [][FileKept]_vars

\* A review command started after the trial was found due or overdue, and
\* completed, lifts the gate: it is never taken for a review from before
\* (record_review's `now` against the due_since that state() wrote).
HeededNoticeLifts == heeded => Lifted

\* A search that has reached the checkpoint gets through it, or dies with the
\* server; a review command ends (the two locks of state() and record_review).
EveryCallLeaves ==
  /\ \A h \in Handlers : proc[h].pc = "count" ~> proc[h] = Away
  /\ \A v \in Reviewer : proc[v].pc = "flock" ~> proc[v] = Away

\* A server that is down comes up again: start-up refuses no file that the
\* server and the review command have made themselves (init_or_load).
ServerComesUp == ~up ~> up

\* "A review from before the trial became due does not count" (the module's
\* docstring on state()): a lifted gate has a review from after the moment the
\* clock or the rows on file made it due.
ReviewFollowsDue ==
  Lifted => \E i \in 1..Len(meta.reviews) : meta.reviews[i] >= crossed

-----------------------------------------------------------------------------
(* Why they hold: the inductive invariant.                                   *)

\* Whoever is inside the flock knows the file as it is.
InHand == \A p \in Proc : proc[p].pc = "inside" => proc[p].seen = meta

\* The trial has been found due once due_since is on file.
NoticedIsDue == noticed => meta # None /\ meta.due_since # None

\* No time anybody works with, or has recorded as due_since, is ahead of the clock.
NotAhead ==
  /\ \A p \in Proc : proc[p] # Away => proc[p].now <= clock
  /\ meta # None /\ meta.due_since # None => meta.due_since <= clock

\* A review that began after a notice carries a time that will count.
SawIsAfter ==
  \A v \in Reviewer :
    proc[v] # Away /\ proc[v].saw => noticed /\ proc[v].now >= meta.due_since

\* The inductive invariant, where the clock is never set back: the one behind
\* HeededNoticeLifts.
Inv == TypeOK /\ InHand /\ NoticedIsDue /\ NotAhead /\ SawIsAfter /\ HeededNoticeLifts
===========================================================================
