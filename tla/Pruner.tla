------------------------------- MODULE Pruner -------------------------------
(***************************************************************************)
(* DeterministicPruner._clamp: tool output and reasoning that exceed their     *)
(* cap are cut in the middle. Head and tail end at line boundaries; lines of   *)
(* the middle that report an error are rescued within a budget; markers say   *)
(* what was cut. Everything is arithmetic on lengths, with the numbers of the *)
(* code: a text is the sequence of its lines, a line its length and where in  *)
(* it the errors are.                                                        *)
(***************************************************************************)
EXTENDS Integers, FiniteSetsExt, SequencesExt

CONSTANTS
    Outputs,          \* what messages hold: sequences of [len, ats]
    max_err_lines   \* lines rescued at most

\* A keyword fits into the line it is found in; the texts come out of SQLite, which
\* holds no string of more than a billion bytes.
Word == 9
Line == {l \in [len : Nat, ats : SUBSET Nat] : \A a \in l.ats : a + Word <= l.len}

\* Where line i begins, and where the newline after it is.
LineEnds(text) ==
    LET upto[i \in 0..Len(text)] == IF i = 0 THEN 0 ELSE upto[i - 1] + text[i].len + 1
    IN  upto

Begins(text, i) == LineEnds(text)[i - 1]
Newlines(text) == {Begins(text, i) - 1 : i \in 2..Len(text)}
Total(text) == Begins(text, Len(text) + 1) - 1

\* max_err_lines is 10 wherever a pruner is made.
ASSUME PrunerAssumption ==
    /\ max_err_lines \in Nat \ {0}
    /\ \A text \in Outputs : text \in Seq(Line) /\ text # << >> /\ Total(text) <= 1000000000

VARIABLE cut        \* the message cut last: [text, role, out], << >> before

\* Lengths: the cut marker without its number, the label of the rescued lines.
MarkerLen == 22
LabelLen == 8

MIN_CAP == 200
MAX_ERR_LINE == 300
RESCUE_FRAC == 4
MARKER_RESERVE == 48
MinRoom == 20

\* role: its cap, and whether errors are rescued.
_CLAMP ==
    [tool_call   |-> [cap |-> 1200, rescue |-> TRUE],
     tool_result |-> [cap |-> 2500, rescue |-> TRUE],
     reasoning   |-> [cap |-> 1000, rescue |-> FALSE]]

Larger(m, n) == IF m < n THEN n ELSE m
Smaller(m, n) == IF m < n THEN m ELSE n

-----------------------------------------------------------------------------
\* A line in at most n characters, around its error at a: how long it is, and
\* whether the error is in it.
_cap_line(line, a, n) ==
    LET win == n - 2
        start == Larger(0, Smaller(a - win \div 2, line.len - win))
    IN  IF line.len <= n THEN [len |-> line.len, shows |-> TRUE]
        ELSE [len |-> win + (IF start > 0 THEN 1 ELSE 0) + (IF start + win < line.len THEN 1 ELSE 0),
              shows |-> start <= a /\ a + Word <= start + win]

\* Up to where the head goes, and from where the tail, both cut at a newline.
HeadEnd(text, body) ==
    LET raw == (body * 2) \div 3
        in == {p \in Newlines(text) : p < raw}
    IN  IF in = {} THEN raw ELSE Max(in) + 1

TailStart(text, body) ==
    LET raw == Total(text) - (body - (body * 2) \div 3)
        in == {p \in Newlines(text) : p >= raw}
    IN  IF in = {} THEN raw ELSE Min(in)

\* The errors of line i that neither head nor tail shows whole.
Hidden(text, i, head, tail) ==
    {a \in text[i].ats : LET p == Begins(text, i) + a IN p + Word > head /\ p < tail}

\* A line is rescued around the first of its hidden errors, if it can be.
Take(s, line, hidden, budget) ==
    LET at == Min(hidden)
        seg == _cap_line(line, at, MAX_ERR_LINE)
    IN  IF hidden = {} \/ Len(s.segs) >= max_err_lines THEN s
        ELSE IF s.used + seg.len + 1 > budget
        THEN [s EXCEPT !.skipped = Append(@, [line |-> line, at |-> at])]
        ELSE [s EXCEPT !.segs = Append(@, seg), !.used = @ + seg.len + 1]

\* What has been rescued and skipped when the first i lines have been looked at.
Rescuing(text, head, tail, budget) ==
    LET upto[i \in 0..Len(text)] ==
            IF i = 0 THEN [segs |-> << >>, used |-> 0, skipped |-> << >>]
            ELSE Take(upto[i - 1], text[i], Hidden(text, i, head, tail), budget)
    IN  upto

Leftover_None(s, budget) == << >>

\* What is left of the budget goes to the first line that did not fit.
Leftover(s, budget) ==
    IF s.skipped # << >> /\ Len(s.segs) < max_err_lines /\ budget - s.used > MinRoom
    THEN << _cap_line(s.skipped[1].line, s.skipped[1].at, budget - s.used - 1) >>
    ELSE << >>

\* The lines rescued from between head and tail, in their order.
Rescued(text, head, tail, budget) ==
    LET taken == Rescuing(text, head, tail, budget)[Len(text)]
    IN  taken.segs \o Leftover(taken, budget)

Digits(n) ==
    IF n < 10 THEN 1 ELSE IF n < 100 THEN 2 ELSE IF n < 1000 THEN 3
    ELSE IF n < 10000 THEN 4 ELSE IF n < 100000 THEN 5 ELSE IF n < 1000000 THEN 6
    ELSE IF n < 10000000 THEN 7 ELSE IF n < 100000000 THEN 8 ELSE 9

\* The text cut to the cap: its length, the errors that were hidden, and the
\* lines rescued.
_clamp(text, cap0, rescue) ==
    LET cap == Larger(cap0, MIN_CAP)
        avail == cap - MARKER_RESERVE
        budget == IF rescue THEN avail \div RESCUE_FRAC ELSE 0
        head == HeadEnd(text, avail - budget)
        tail == TailStart(text, avail - budget)
        segs == IF rescue THEN Rescued(text, head, tail, budget) ELSE << >>
        errors == IF segs = << >> THEN 0 ELSE LabelLen + LineEnds(segs)[Len(segs)]
    IN  IF Total(text) <= cap THEN [len |-> Total(text), hidden |-> {}, segs |-> << >>]
        ELSE [len |-> head + errors + MarkerLen + Digits(tail - head) + (Total(text) - tail) + 2,
              hidden |-> {i \in 1..Len(text) : Hidden(text, i, head, tail) # {}},
              segs |-> segs]

-----------------------------------------------------------------------------
PruneInit == cut = << >>

Prune ==
    /\ cut = << >>
    /\ \E text \in Outputs, role \in DOMAIN _CLAMP :
         cut' = [text |-> text, role |-> role,
                 out |-> _clamp(text, _CLAMP[role].cap, _CLAMP[role].rescue)]

PruneSpec == PruneInit /\ [][Prune]_cut

-----------------------------------------------------------------------------
\* A text that is cut stays within its cap, markers and all; and if errors are
\* cut out of it where they are rescued at all, at least one of them can still
\* be read, however long its line is and wherever the cuts fall (_clamp).
CutKeepsAnError ==
    cut # << >> =>
      /\ cut.out.len <= _CLAMP[cut.role].cap
      /\ _CLAMP[cut.role].rescue /\ cut.out.hidden # {} =>
           \E s \in ToSet(cut.out.segs) : s.shows
      /\ Len(cut.out.segs) <= max_err_lines
=============================================================================
