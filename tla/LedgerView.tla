----------------------------- MODULE LedgerView -----------------------------
(***************************************************************************)
(* materialize.py: the view of the ledger that decides whether the soak test  *)
(* is passed. It reads the queries, their verdicts and the append-only scored *)
(* rows, in whatever order scoring, retries, aborts and days came, and counts *)
(* how many hits were scored in time, scored at all, given up or forgotten.   *)
(***************************************************************************)
EXTENDS Naturals, FiniteSets, Sequences

CONSTANTS
    Queries,        \* rids
    Cards,          \* candidates of a hit
    ErrorCodes,     \* score_error_code of failed attempts
    SampleGate,     \* _SAMPLE_GATE
    Streak,         \* _ERROR_STREAK_INCIDENT
    Day,            \* _ORPHAN_AGE_SECONDS
    ViewRows,       \* bound: scored rows
    ViewDays        \* bound: the day

ASSUME ViewAssumption ==
    /\ {SampleGate, Streak, Day, ViewRows, ViewDays} \subseteq Nat
    /\ IsFiniteSet(Queries) /\ Cards # {}

VARIABLES
    started,        \* per query its traffic class, "no" before it came
    verdict,        \* the status of its terminal row, "no" before
    aborted,        \* response_aborted, or in aborts.log
    accepted,       \* per query [ts, candidates] of its accepted row
    scored,         \* the scored rows, in the order written
    day,
    once            \* history: queries that had a healthy row when it was written

viewVars == <<started, verdict, aborted, accepted, scored, day, once>>

NoRow == [ts |-> 0, candidates |-> {}]

-----------------------------------------------------------------------------
(* The view *)

\* Missing, aborted and invalid are errors.
effective(q) ==
    IF q \in aborted \/ verdict[q] = "no" THEN "error" ELSE verdict[q]

\* Every candidate has its scores, and all pins are known.
healthy(row) ==
    /\ row.status = "ok" /\ row.pins
    /\ row.per_card = accepted[row.rid].candidates

RowsOn(q) == {i \in DOMAIN scored : scored[i].rid = q}

Newest(rows) == CHOOSE i \in rows : \A j \in rows : scored[j].attempt_no <= scored[i].attempt_no

fold_Newest(q) == IF RowsOn(q) = {} THEN 0 ELSE Newest(RowsOn(q))

\* The newest healthy row, else the newest that gave up, else the newest to
\* retry; 0 for none.
fold(q) ==
    LET Of(s) == {i \in RowsOn(q) : scored[i].status = s}
        good == {i \in RowsOn(q) : healthy(scored[i])}
        tiers == <<good, Of("permanent_failure"), Of("retryable_error")>>
        held == {k \in 1..3 : tiers[k] # {}}
    IN  IF held = {} THEN 0 ELSE Newest(tiers[CHOOSE k \in held : \A l \in held : k <= l])

real == {q \in Queries : started[q] = "real"}
hits == {q \in real : effective(q) = "hit"}

score_eligible(q) == q \in hits /\ accepted[q].candidates # {}

final_healthy(q) == score_eligible(q) /\ \E i \in RowsOn(q) : healthy(scored[i])

online_healthy(q) ==
    score_eligible(q) /\ \E i \in RowsOn(q) : healthy(scored[i]) /\ scored[i].producer = "realtime"

is_permanent_failure(q) ==
    /\ score_eligible(q) /\ ~final_healthy(q)
    /\ fold(q) # 0 /\ scored[fold(q)].status = "permanent_failure"

is_orphan(q) ==
    /\ score_eligible(q) /\ ~final_healthy(q) /\ ~is_permanent_failure(q)
    /\ day - accepted[q].ts > Day

\* A request given up has a code of its own.
GivenUp == "permanent_failure_threshold"
Codes == ErrorCodes \union {GivenUp}

\* Per code a counter: a healthy row resets all, another code none. max is the
\* greatest that any has been.
Counted(s, row) ==
    IF row.rid \notin real THEN s
    ELSE IF healthy(row) THEN [s EXCEPT !.run = [c \in Codes |-> 0]]
    ELSE IF row.code \notin Codes THEN s
    ELSE LET n == s.run[row.code] + 1
         IN  [run |-> [s.run EXCEPT ![row.code] = n], max |-> IF n > s.max THEN n ELSE s.max]

\* What is counted up to the n-th row.
Streaks[n \in 0..Len(scored)] ==
    IF n = 0 THEN [run |-> [c \in Codes |-> 0], max |-> 0]
    ELSE Counted(Streaks[n - 1], scored[n])

max_streak == Streaks[Len(scored)].max

\* The share of the hits, in hundredths and rounded up, that a rate has to reach.
Gate(percent) == (percent * Cardinality(hits) + 99) \div 100

dod_pass ==
    LET errors == Cardinality(real) - Cardinality({q \in real : effective(q) # "error"})
    IN  /\ hits # {}
        /\ Cardinality(real) - errors >= SampleGate
        /\ 5 * errors <= Cardinality(real)
        /\ Cardinality({q \in hits : online_healthy(q)}) >= Gate(90)
        /\ Cardinality({q \in hits : final_healthy(q)}) >= Gate(99)
        /\ max_streak < Streak
        /\ ~\E q \in hits : is_orphan(q)

\* The watchdog of the server looks for itself, at queries of every class.
_count_orphans ==
    {q \in Queries :
        /\ started[q] # "no" /\ effective(q) = "hit" /\ accepted[q].candidates # {}
        /\ ~\E i \in RowsOn(q) : healthy(scored[i])
        /\ ~(fold(q) # 0 /\ scored[fold(q)].status = "permanent_failure")
        /\ day - accepted[q].ts > Day}

-----------------------------------------------------------------------------
(* What the ledger comes to hold *)

ViewInit ==
    /\ started = [q \in Queries |-> "no"] /\ verdict = [q \in Queries |-> "no"]
    /\ aborted = {} /\ accepted = [q \in Queries |-> NoRow]
    /\ scored = << >> /\ day = 0 /\ once = {}

Ask(q) ==
    /\ started[q] = "no"
    /\ \E class \in {"real", "probe"} : started' = [started EXCEPT ![q] = class]
    /\ UNCHANGED <<verdict, aborted, accepted, scored, day, once>>

\* The accepted row and the terminal row of a query.
AnswerQuery(q) ==
    /\ started[q] # "no" /\ verdict[q] = "no"
    /\ \E s \in {"hit", "abstain_empty", "error"} :
         /\ verdict' = [verdict EXCEPT ![q] = s]
         /\ accepted' = IF s = "error" THEN accepted
                        ELSE [accepted EXCEPT ![q] = [ts |-> day, candidates |-> IF s = "hit" THEN Cards ELSE {}]]
    /\ UNCHANGED <<started, aborted, scored, day, once>>

\* The response never left the server.
AbortQuery(q) ==
    /\ started[q] # "no" /\ q \notin aborted
    /\ aborted' = aborted \union {q}
    /\ UNCHANGED <<started, verdict, accepted, scored, day, once>>

Row(q, status, per_card, pins, code, producer) ==
    [rid |-> q, attempt_no |-> Cardinality(RowsOn(q)), status |-> status,
     per_card |-> per_card, pins |-> pins, code |-> code, producer |-> producer]

\* A row of the scorer or of a later reconciliation; rows of older builds may
\* be ok and yet lack a card or a pin. Only of a whole row is its producer told apart.
Score(q) ==
    /\ verdict[q] = "hit"
    /\ Len(scored) < ViewRows
    /\ \E new \in {Row(q, "ok", Cards, TRUE, "none", p) : p \in {"realtime", "reconciliation"}}
                  \union {Row(q, "ok", {}, TRUE, "none", "realtime"),
                          Row(q, "ok", Cards, FALSE, "none", "realtime"),
                          Row(q, "permanent_failure", {}, TRUE, GivenUp, "reconciliation")}
                  \union {Row(q, "retryable_error", {}, TRUE, c, "realtime") : c \in ErrorCodes} :
         /\ scored' = Append(scored, new)
         /\ once' = IF healthy(new) THEN once \union {q} ELSE once
    /\ UNCHANGED <<started, verdict, aborted, accepted, day>>

NextDay ==
    /\ day < ViewDays /\ day' = day + 1
    /\ UNCHANGED <<started, verdict, aborted, accepted, scored, once>>

ViewNext ==
    \/ \E q \in Queries : Ask(q) \/ AnswerQuery(q) \/ AbortQuery(q) \/ Score(q)
    \/ NextDay

ViewSpec == ViewInit /\ [][ViewNext]_viewVars

-----------------------------------------------------------------------------
\* The view tells what happened. A hit of a real query that was ever scored
\* well is closed and stays so whatever is written later, and its row is the
\* one the view carries; a pass leaves no hit forgotten; the watchdog has
\* alerted of just those real hits that the view counts as orphans; and the
\* streak is the longest run of one error code with no healthy row in it, other
\* codes between or not (materialize.py, server._count_orphans).
ViewTellsWhatHappened ==
    /\ {q \in Queries : final_healthy(q)} = {q \in once : started[q] = "real" /\ q \notin aborted}
    /\ \A q \in Queries : final_healthy(q) => healthy(scored[fold(q)])
    /\ dod_pass => /\ 100 * Cardinality(hits \ once) <= Cardinality(hits)
                   /\ \A q \in hits \ once : day - accepted[q].ts > Day =>
                        \E i \in RowsOn(q) : scored[i].status = "permanent_failure"
    /\ {q \in Queries : is_orphan(q)} = _count_orphans \intersect real
    /\ LET Ours(i) == scored[i].rid \in real
           Run(c, a, b) == {i \in a..b : Ours(i) /\ scored[i].code = c}
           streak == max_streak
       IN  \A n \in 1..Len(scored) :
             streak >= n <=> \E c \in Codes, a, b \in DOMAIN scored :
                               /\ Cardinality(Run(c, a, b)) >= n
                               /\ \A i \in a..b : Ours(i) => ~healthy(scored[i])
=============================================================================
