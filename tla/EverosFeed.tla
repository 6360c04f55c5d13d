----------------------------- MODULE EverosFeed -----------------------------
(***************************************************************************)
(* Feeding one conversation to EverOS: everos_feed_session.py, which a       *)
(* worker outside this repository starts once per claim, over everos_adapter.*)
(* The feeder reads the conversation, compares its newest message with the   *)
(* claim, prepares the messages, posts them in batches, asks for a flush,    *)
(* waits for a card in the markdown of EverOS and prints one status. Posting *)
(* the same messages twice duplicates them, so a run may repeat itself only   *)
(* while EverOS has taken nothing.                                           *)
(*                                                                         *)
(* A message is its role, whether it has a tool_call_id, whether its content  *)
(* begins with one of _ORPHAN_PREFIXES, and created_at, 0 for none. A prepared *)
(* message has call for its tool_calls and the positions of the texts in it.  *)
(***************************************************************************)
EXTENDS Naturals, FiniteSets, SequencesExt

CONSTANTS
    Roles,        \* what messages there are: [role, id, mark]
    MaxAppend,    \* max_append_chars, in texts
    MaxBatch,     \* MAX_BATCH
    Attempts,     \* range(4): the last attempt does not wait and repeat
    ConvLength,   \* bound: messages of the conversation
    Claims,       \* bound: claims of the worker
    Mishaps       \* bound: calls that fail and runs that crash

\* The roles of messages, "other" for any that the role map does not know.
Kinds == {"user", "assistant", "tool_call", "tool_result", "reasoning", "system", "other"}

ASSUME EverosFeedAssumption ==
    /\ {MaxAppend, Attempts, ConvLength, Claims, Mishaps} \subseteq Nat
    /\ MaxBatch \in Nat \ {0}
    /\ Roles \subseteq [role : Kinds, id : BOOLEAN, mark : BOOLEAN]

VARIABLES
    conv,         \* the conversation in the archive
    job,          \* external: the worker's status of it
    claim,        \* external: --claim-msg-ts
    feeder,       \* step of the feeder, "off" when none runs
    rows,         \* what it read
    todo,         \* the batches it has not posted
    attempt,
    add_ok,       \* successful responses to /memory/add of this process
    taken,        \* external: the texts EverOS has taken in, in order
    cards,        \* external: whose cards its markdown holds
    claims, bumps

everosVars == <<conv, job, claim, feeder, rows, todo, attempt, add_ok, taken, cards, claims, bumps>>

-----------------------------------------------------------------------------
(* everos_adapter: the messages of a conversation as EverOS takes them *)

Prepared(r, call, mark, ts, i) ==
    [role |-> r, call |-> call, mark |-> mark, ts |-> ts, text |-> <<i>>]

\* A tool message without an id and a reasoning become marked text of the agent.
Form(ms, i) ==
    CASE ms[i].role \in {"user", "assistant"} ->
           <<Prepared(ms[i].role, FALSE, ms[i].mark, ms[i].ts, i)>>
      [] ms[i].role = "tool_call" /\ ms[i].id ->
           <<Prepared("assistant", TRUE, ms[i].mark, ms[i].ts, i)>>
      [] ms[i].role = "tool_result" /\ ms[i].id ->
           <<Prepared("tool", FALSE, ms[i].mark, ms[i].ts, i)>>
      [] ms[i].role = "reasoning" \/ (ms[i].role \in {"tool_call", "tool_result"} /\ ~ms[i].id) ->
           <<Prepared("assistant", FALSE, TRUE, ms[i].ts, i)>>
      [] OTHER -> << >>

\* What the first i messages become.
Mapped(ms) ==
    LET upto[i \in 0..Len(ms)] == IF i = 0 THEN << >> ELSE upto[i - 1] \o Form(ms, i)
    IN  upto

map_to_add_messages(ms) == Mapped(ms)[Len(ms)]

\* Told by how the content begins: an answer that begins so is an orphan too.
_is_orphan_text(m) == m.role = "assistant" /\ ~m.call /\ m.mark
_is_real_assistant(m) == m.role = "assistant" /\ ~m.call /\ ~_is_orphan_text(m)

Merge(out, m) == [out EXCEPT ![Len(out)].text = @ \o m.text]

\* An orphan joins the orphan or the answer before it, never a tool call.
Absorb(out, m) ==
    IF /\ _is_orphan_text(m) /\ out # << >>
       /\ _is_orphan_text(Last(out)) \/ _is_real_assistant(Last(out))
       /\ Len(Last(out).text) + Len(m.text) <= MaxAppend
    THEN Merge(out, m)
    ELSE Append(out, m)

\* What is left when the first i messages have been looked at.
Joined(ms) ==
    LET upto[i \in 0..Len(ms)] == IF i = 0 THEN << >> ELSE Absorb(upto[i - 1], ms[i])
    IN  upto

absorb_orphans(ms) == Joined(ms)[Len(ms)]

\* Orphans at the end are held back for the answer they belong to.
feedable_upto(ms) ==
    LET anchors == {i \in DOMAIN ms : ~_is_orphan_text(ms[i])}
    IN  IF anchors = {} THEN 0 ELSE CHOOSE i \in anchors : \A j \in anchors : j <= i

split_feedable(ms) == [feedable |-> SubSeq(ms, 1, feedable_upto(ms)),
                       held |-> SubSeq(ms, feedable_upto(ms) + 1, Len(ms))]

\* Strictly increasing times greater than 0, whatever they were.
Times(ms) ==
    LET last[i \in 0..Len(ms)] ==
            IF i = 0 THEN 0 ELSE IF ms[i].ts > last[i - 1] THEN ms[i].ts ELSE last[i - 1] + 1
    IN  last

ensure_unique_timestamps(ms) == [i \in 1..Len(ms) |-> [ms[i] EXCEPT !.ts = Times(ms)[i]]]

into_batches(ms) ==
    LET count == (Len(ms) + MaxBatch - 1) \div MaxBatch
    IN  [b \in 1..count |->
           SubSeq(ms, (b - 1) * MaxBatch + 1, IF b = count THEN Len(ms) ELSE b * MaxBatch)]

Absorbed(ms) == absorb_orphans(map_to_add_messages(ms))

prepare_session(ms) == ensure_unique_timestamps(split_feedable(Absorbed(ms)).feedable)

\* The texts of the first i messages, in order.
TextsUpto(ms) ==
    LET upto[i \in 0..Len(ms)] == IF i = 0 THEN << >> ELSE upto[i - 1] \o ms[i].text
    IN  upto

Texts(ms) == TextsUpto(ms)[Len(ms)]

-----------------------------------------------------------------------------
EverosInit ==
    /\ conv = << >>
    /\ job = "pending" /\ claim = 0
    /\ feeder = "off" /\ rows = << >> /\ todo = << >> /\ attempt = 0 /\ add_ok = 0
    /\ taken = << >> /\ cards = {}
    /\ claims = 0 /\ bumps = 0

\* The newest created_at, 0 when no message has one.
PayloadMax(ms) == LET ts == {ms[i].ts : i \in DOMAIN ms} \union {0}
                  IN  CHOOSE t \in ts : \A u \in ts : u <= t

\* The conversation goes on: a later message, or one without a time.
Say ==
    /\ Len(conv) < ConvLength
    /\ \E r \in Roles : \E t \in {0, PayloadMax(conv) + 1} :
         conv' = Append(conv, [role |-> r.role, id |-> r.id, mark |-> r.mark, ts |-> t])
    /\ UNCHANGED <<job, claim, feeder, rows, todo, attempt, add_ok, taken, cards, claims, bumps>>

\* External: the worker claims the conversation as its own books know it.
ClaimSession ==
    /\ job = "pending" /\ feeder = "off"
    /\ claims < Claims /\ claims' = claims + 1
    /\ job' = "running"
    /\ claim' \in 0..PayloadMax(conv)
    /\ feeder' = "read" /\ attempt' = 0 /\ add_ok' = 0
    /\ UNCHANGED <<conv, rows, todo, taken, cards, bumps>>

\* The status goes to the worker: error and a crash leave the job running.
_emit(status) ==
    /\ feeder' = "off" /\ todo' = << >>
    /\ job' = CASE status \in {"stale", "no_side_effect_error"} -> "pending"
                [] status \in {"completed", "skipped"} -> status
                [] OTHER -> "running"

Bump == bumps < Mishaps /\ bumps' = bumps + 1

-----------------------------------------------------------------------------
(* everos_feed_session.py *)

Stale(ms) == PayloadMax(ms) > claim

\* What was read is what is compared with the claim, and what is prepared.
ReadRows ==
    /\ feeder = "read"
    /\ rows' = conv
    /\ IF conv = << >> THEN _emit("no_side_effect_error")
       ELSE IF PayloadMax(conv) > 0 /\ Stale(conv) THEN _emit("stale")
       ELSE IF prepare_session(conv) = << >> THEN _emit("skipped")
       ELSE feeder' = "add" /\ todo' = into_batches(prepare_session(conv)) /\ UNCHANGED job
    /\ UNCHANGED <<conv, claim, attempt, add_ok, taken, cards, claims, bumps>>

AddTaken ==
    /\ feeder = "add"
    /\ taken' = taken \o Texts(Head(todo))
    /\ add_ok' = add_ok + 1
    /\ todo' = Tail(todo)
    /\ feeder' = IF Len(todo) = 1 THEN "flush" ELSE "add"
    /\ UNCHANGED <<conv, job, claim, rows, attempt, cards, claims, bumps>>

\* The failures of a call: EverOS was not reached, was busy (422), refused with
\* another 4xx, or gave no clear answer (5xx, a read that timed out).
Failures == {"connect", "busy", "refused", "unclear"}

_is_pre_add_transient_Any(e) == add_ok = 0
_is_pre_add_transient(e) == add_ok = 0 /\ e \in {"connect", "busy"}

_is_no_side_effect(e) == add_ok = 0 /\ e \in {"connect", "busy", "refused"}

\* The session is prepared again from its first batch, given up, or in doubt.
Failed(e) ==
    IF _is_pre_add_transient(e) /\ attempt + 1 < Attempts
    THEN /\ attempt' = attempt + 1
         /\ feeder' = "add" /\ todo' = into_batches(prepare_session(rows))
         /\ UNCHANGED job
    ELSE /\ UNCHANGED attempt
         /\ _emit(IF _is_no_side_effect(e) THEN "no_side_effect_error" ELSE "error")

\* Only an unclear answer may hide that EverOS took the batch.
AddFails ==
    /\ Bump
    /\ feeder = "add"
    /\ \E e \in Failures :
         /\ taken' \in IF e = "unclear" THEN {taken, taken \o Texts(Head(todo))} ELSE {taken}
         /\ Failed(e)
    /\ UNCHANGED <<conv, claim, rows, add_ok, cards, claims>>

Flush ==
    /\ feeder = "flush"
    /\ \/ feeder' = "wait" /\ UNCHANGED <<job, todo, attempt, bumps>>
       \/ Bump /\ \E e \in Failures : Failed(e)
    /\ UNCHANGED <<conv, claim, rows, add_ok, taken, cards, claims>>

\* External: EverOS writes a card, of what it was given or of another session.
Card ==
    /\ \E s \in {"this", "other"} :
         /\ s \notin cards /\ (s = "this" => taken # << >>)
         /\ cards' = cards \union {s}
    /\ UNCHANGED <<conv, job, claim, feeder, rows, todo, attempt, add_ok, taken, claims, bumps>>

\* The cards of this session, told by the block of the file they stand in.
collect_case_entry_ids_AnyBlock == cards
collect_case_entry_ids == cards \intersect {"this"}

WaitTerminal ==
    /\ feeder = "wait"
    /\ _emit(IF collect_case_entry_ids # {} THEN "completed" ELSE "skipped")
    /\ UNCHANGED <<conv, claim, rows, attempt, add_ok, taken, cards, claims, bumps>>

\* The process dies without a status.
Crash ==
    /\ Bump
    /\ feeder # "off"
    /\ _emit("crash")
    /\ UNCHANGED <<conv, claim, rows, attempt, add_ok, taken, cards, claims>>

EverosNext ==
    \/ Say \/ ClaimSession \/ ReadRows \/ AddTaken \/ AddFails \/ Flush \/ Card
    \/ WaitTerminal \/ Crash

EverosSpec == EverosInit /\ [][EverosNext]_everosVars

-----------------------------------------------------------------------------
\* Nothing is fed twice: no retry, no new claim and no crash makes EverOS take
\* a message a second time; nor is anything fed that is newer than the claim,
\* though the conversation goes on during the run (everos_feed_session.py).
FedOnceAsClaimed ==
    /\ IsInjective(taken)
    /\ \A i \in DOMAIN taken : conv[taken[i]].ts <= claim

\* A completed conversation was fed whole: its texts, in order, but for what is
\* held back at the end and what has no form for EverOS; and there is a card
\* of it. Held back are tool messages, reasonings and answers that begin like
\* them (pipeline.py, text_strategy.py, scan_terminal.py).
CompletedIsWhole ==
    job = "completed" =>
        /\ "this" \in cards
        /\ LET kept == {i \in DOMAIN rows : rows[i].role \notin {"system", "other"}}
               after == {i \in kept : i \notin ToSet(taken)}
           IN  /\ ToSet(taken) \subseteq kept /\ \A i, j \in DOMAIN taken : i < j => taken[i] < taken[j]
               /\ \A i \in after : /\ \/ rows[i].role \in {"tool_call", "tool_result", "reasoning"}
                                      \/ rows[i].role = "assistant" /\ rows[i].mark
                                   /\ \A j \in ToSet(taken) : j < i
=============================================================================
