-------------------------- MODULE ScorePinsProofs --------------------------
(***************************************************************************)
(* Proofs about ScorePins, for any weights, any cards and any number of    *)
(* container starts: its type invariant, and that a row is of one start.   *)
(*                                                                         *)
(* That a row names one start does not hold step by step: the embedding    *)
(* dimension is measured after the marker has been verified, so a bundle   *)
(* may mix two starts. It is harmless because a start that came between    *)
(* has moved the marker for good, and an attempt with such a bundle never  *)
(* finds its marker again. The invariant says so of every step at which    *)
(* something was asked of the container.                                   *)
(***************************************************************************)
EXTENDS ScorePins, TLAPS

\* A bundle describes its start, but for the dimension if the container has
\* been started again since.
Describes(b) ==
  /\ b \in Pins /\ b.marker \in 1..Marker
  /\ b.artifact = starts[b.marker]
  /\ b.marker = Marker => b.dim = Loaded

\* An answer of the container is that of the last marker read, as long as the
\* marker has not moved.
Fresh(answer) == Marker = before => answer = Loaded

Scored == {"cache", "rerank", "check", "submit"}

\* What an attempt, or a collection, has in hand at each of its steps; one that
\* is on has not failed three times.
InHand ==
  /\ pc \notin {"idle", "attempt"} => tries < _MAX_TRANSIENT_RETRIES
  /\ pc \in {"fingerprint", "verify"} \cup {"embed"} \cup Scored => before \in 1..Marker
  /\ pc = "verify" => pins.artifact \in Weights /\ Fresh(pins.artifact)
  /\ pc = "measure" => /\ pins.marker \in 1..Marker
                       /\ pins.artifact = starts[pins.marker]
  /\ pc \in {"embed"} \cup Scored => pins = bundle /\ before = pins.marker /\ Describes(pins)
  /\ pc \in Scored => query \in Weights /\ Fresh(query)
  /\ pc \in {"check", "submit"} => ce \in Weights /\ Fresh(ce)
  /\ pc = "submit" => /\ pins.dim = starts[before]
                      /\ query = starts[before] /\ ce = starts[before]

\* Rows name starts there have been, and are of the start they name.
RowsDescribe == \A row \in rows : row.pins.marker \in 1..Marker

PinsInv ==
  /\ ScoreTypeOK
  /\ Marker >= 1
  /\ bundle # NoPins => Describes(bundle)
  /\ InHand
  /\ RowsDescribe
  /\ RowIsOfOneStart

-----------------------------------------------------------------------------
LEMMA NoPinsTyped ==
  /\ NoPins.marker = 0 /\ NoPins.artifact = NoWeights /\ NoPins.dim = NoWeights
  /\ NoPins \in [marker : Nat, artifact : Weights \cup {NoWeights}, dim : Weights \cup {NoWeights}]
  /\ NoPins \notin Pins
BY ScorePinsAssumption DEF NoPins, Pins

LEMMA PinsInit == ScoreInit => PinsInv
<1> SUFFICES ASSUME ScoreInit PROVE PinsInv
  OBVIOUS
<1>1. PICK w \in Weights : starts = <<w>>
  BY DEF ScoreInit
<1>2. starts \in Seq(Weights) /\ Marker = 1
  BY <1>1 DEF Marker
<1>3. NoVectors \in [Card -> Weights \cup {NoWeights}]
  BY DEF NoVectors
<1>4. ScoreTypeOK
  BY <1>2, <1>3, NoPinsTyped DEF ScoreInit, ScoreTypeOK, Phases, _MAX_TRANSIENT_RETRIES
<1> QED
  BY <1>2, <1>4 DEF ScoreInit, PinsInv, InHand, Scored, RowsDescribe, RowIsOfOneStart,
              _MAX_TRANSIENT_RETRIES

-----------------------------------------------------------------------------
(* The steps that leave the container alone.                                 *)

\* A container start: markers there were keep their weights, and a marker that
\* was the last is no longer.
LEMMA StartStep ==
  ASSUME PinsInv, NEW w \in Weights, Start(w)
  PROVE  PinsInv'
<1>1. /\ starts' \in Seq(Weights) /\ Marker' = Marker + 1 /\ Marker \in Nat
      /\ \A i \in 1..Marker : starts'[i] = starts[i]
  BY DEF Start, PinsInv, ScoreTypeOK, Marker
<1>2. ScoreTypeOK'
  BY <1>1 DEF Start, PinsInv, ScoreTypeOK, attemptVars
<1>3. ASSUME NEW b, Describes(b) PROVE Describes(b)'
  BY <1>1, <1>3, SMT DEF Describes, Marker, Loaded
<1>4. bundle' # NoPins => Describes(bundle)'
  BY <1>1 DEF Start, PinsInv, Describes, Marker, Loaded
<1>5. UNCHANGED <<pc, tries, before, pins, query, ce, bundle>>
  BY DEF Start, attemptVars
<1>6. InHand'
  <2>1. ASSUME pc \in {"fingerprint", "verify"} \cup {"embed"} \cup Scored
        PROVE  before \in 1..Marker' /\ before # Marker' /\ starts'[before] = starts[before]
    BY <1>1, <2>1 DEF PinsInv, InHand
  <2>2. pc = "verify" => pins.artifact \in Weights /\ before # Marker'
    BY <2>1 DEF PinsInv, InHand
  <2>3. pc = "measure" => pins.marker \in 1..Marker' /\ pins.artifact = starts'[pins.marker]
    BY <1>1 DEF PinsInv, InHand
  <2>4. pc \in {"embed"} \cup Scored => pins = bundle /\ before = pins.marker /\ Describes(pins)'
    <3> SUFFICES ASSUME pc \in {"embed"} \cup Scored
                 PROVE  pins = bundle /\ before = pins.marker /\ Describes(pins)'
      OBVIOUS
    <3>1. pins = bundle /\ before = pins.marker /\ Describes(pins)
      BY DEF PinsInv, InHand
    <3>2. Describes(bundle)'
      BY <1>4, <3>1, NoPinsTyped, <1>5 DEF Describes
    <3> QED BY <3>1, <3>2, <1>5
  <2>5. pc \in Scored => query \in Weights /\ before # Marker'
    BY <2>1 DEF PinsInv, InHand
  <2>6. pc \in {"check", "submit"} => ce \in Weights /\ before # Marker'
    BY <2>1 DEF PinsInv, InHand, Scored
  <2>7. pc = "submit" => /\ pins.dim = starts'[before]
                         /\ query = starts'[before] /\ ce = starts'[before]
    BY <2>1 DEF PinsInv, InHand, Scored
  <2>8. pc \notin {"idle", "attempt"} => tries < _MAX_TRANSIENT_RETRIES
    BY DEF PinsInv, InHand
  <2> QED
    BY <1>5, <2>1, <2>2, <2>3, <2>4, <2>5, <2>6, <2>7, <2>8, SMTT(30) DEF InHand, Fresh
<1>7. RowsDescribe' /\ RowIsOfOneStart'
  <2>1. rows' = rows
    BY DEF Start
  <2>2. \A row \in rows : row.pins.marker \in 1..Marker
    BY DEF PinsInv, RowsDescribe
  <2>3. \A row \in rows : row.pins.marker \in 1..Marker' /\ starts'[row.pins.marker] = starts[row.pins.marker]
    BY <1>1, <2>2
  <2> QED
    BY <2>1, <2>3 DEF PinsInv, RowsDescribe, RowIsOfOneStart
<1>8. Marker' >= 1
  BY <1>1
<1> QED BY <1>2, <1>4, <1>6, <1>7, <1>8 DEF PinsInv

\* The rows and the starts of a step that adds to neither.
LEMMA NoRow ==
  ASSUME PinsInv, UNCHANGED <<starts, rows>>
  PROVE  /\ Marker' = Marker /\ Marker \in Nat /\ Marker >= 1 /\ Loaded' = Loaded
         /\ Loaded \in Weights
         /\ RowsDescribe' /\ RowIsOfOneStart'
BY DEF PinsInv, ScoreTypeOK, RowsDescribe, RowIsOfOneStart, Marker, Loaded

\* The collection: the marker, the fingerprint, the marker again, the dimension.
LEMMA CollectStep ==
  ASSUME PinsInv, Collect \/ Fingerprint \/ Verify \/ Measure \/ CollectFails
  PROVE  PinsInv'
<1>1. UNCHANGED <<starts, rows>>
  BY DEF Collect, Fingerprint, Verify, Measure, CollectFails, GiveUp
<1>2. ASSUME Collect PROVE PinsInv'
  BY <1>1, <1>2, NoRow DEF Collect, PinsInv, ScoreTypeOK, InHand, Describes, Fresh, Scored, Phases, _MAX_TRANSIENT_RETRIES
<1>3. ASSUME Fingerprint PROVE PinsInv'
  BY <1>1, <1>3, NoRow DEF Fingerprint, PinsInv, ScoreTypeOK, InHand, Describes, Fresh, Scored, Phases, _MAX_TRANSIENT_RETRIES
<1>4. ASSUME GiveUp, pc \in {"collect", "fingerprint", "verify", "measure"} PROVE PinsInv'
  BY <1>1, <1>4, NoRow DEF GiveUp, PinsInv, ScoreTypeOK, InHand, Describes, Fresh, Scored, Phases, _MAX_TRANSIENT_RETRIES, attemptVars
<1>5. ASSUME Verify PROVE PinsInv'
  <2>1. CASE Marker # before
    BY <1>4, <1>5, <2>1 DEF Verify
  <2>2. CASE Marker = before
    <3>1. /\ pins' = [pins EXCEPT !.marker = Marker] /\ pc = "verify" /\ pc' = "measure"
          /\ UNCHANGED <<starts, bundle, cache, tries, before, vectors, query, ce>>
      BY <1>5, <2>2 DEF Verify
    <3>2. pins.artifact = Loaded /\ tries < _MAX_TRANSIENT_RETRIES
      BY <2>2, <3>1 DEF PinsInv, InHand, Fresh
    <3>3. pins'.marker = Marker /\ pins'.artifact = pins.artifact /\ pins'.dim = pins.dim
      BY <3>1 DEF PinsInv, ScoreTypeOK
    <3>4. ScoreTypeOK'
      BY <1>1, <3>1, <3>3, NoRow DEF PinsInv, ScoreTypeOK, Phases
    <3>5. InHand'
      BY <1>1, <3>1, <3>2, <3>3, NoRow DEF InHand, Scored, Loaded
    <3> QED BY <1>1, <3>1, <3>4, <3>5, NoRow DEF PinsInv, Describes
  <2> QED BY <2>1, <2>2
<1>6. ASSUME Measure PROVE PinsInv'
  <2>1. /\ bundle' = [pins EXCEPT !.dim = Loaded] /\ pc = "measure" /\ pc' \in {"idle", "attempt"}
        /\ tries' \in {tries, tries + 1}
        /\ UNCHANGED <<starts, cache, before, pins, vectors, query, ce>>
    BY <1>6 DEF Measure, attemptVars
  <2>2. /\ pins.marker \in 1..Marker /\ pins.artifact = starts[pins.marker]
        /\ tries < _MAX_TRANSIENT_RETRIES
    BY <2>1 DEF PinsInv, InHand
  <2>3. pins.artifact \in Weights
    BY <2>2 DEF PinsInv, ScoreTypeOK, Marker
  <2>4. /\ bundle'.marker = pins.marker /\ bundle'.artifact = pins.artifact /\ bundle'.dim = Loaded
        /\ bundle' \in Pins
    BY <1>1, <2>1, <2>3, NoRow DEF PinsInv, ScoreTypeOK, Pins
  <2>5. Describes(bundle)'
    BY <1>1, <2>1, <2>2, <2>4, NoRow DEF Describes
  <2>6. ScoreTypeOK'
    BY <1>1, <2>1, <2>2, <2>4 DEF PinsInv, ScoreTypeOK, Phases, _MAX_TRANSIENT_RETRIES
  <2>7. InHand'
    BY <2>1 DEF InHand, Scored
  <2> QED BY <1>1, <2>5, <2>6, <2>7, NoRow DEF PinsInv
<1> QED BY <1>2, <1>3, <1>4, <1>5, <1>6 DEF CollectFails

\* The steps of an attempt.
LEMMA AttemptStep ==
  ASSUME PinsInv,
         BeginAttempt \/ Embed \/ (\E c \in Card : CachePut(c)) \/ Cached \/ Rerank \/ Check
           \/ AttemptFails \/ Exhausted \/ Take
  PROVE  PinsInv'
<1>1. UNCHANGED <<starts, bundle, rows>>
  BY DEF BeginAttempt, Embed, CachePut, Cached, Rerank, Check, AttemptFails, Exhausted, Take
<1>2. (bundle # NoPins => Describes(bundle))'
  BY <1>1, NoRow DEF PinsInv, Describes
<1>3. SUFFICES ScoreTypeOK' /\ InHand'
  BY <1>1, <1>2, NoRow DEF PinsInv
<1> USE <1>1, NoRow DEF PinsInv, ScoreTypeOK, InHand, Phases, Scored, _MAX_TRANSIENT_RETRIES
<1>4. CASE BeginAttempt
  <2>1. CASE Marker = bundle.marker
    <3>1. bundle # NoPins /\ bundle \in Pins
      BY <2>1, NoPinsTyped
    <3>2. bundle.artifact \in Weights /\ bundle.marker \in Nat
      BY <3>1 DEF Pins
    <3>3. cache[bundle.artifact] \in [Card -> Weights \cup {NoWeights}]
      BY <3>2
    <3>4. Describes(pins)'
      BY <1>4, <3>1 DEF BeginAttempt, Describes
    <3> QED BY <1>4, <2>1, <3>1, <3>2, <3>3, <3>4 DEF BeginAttempt, Pins
  <2>2. CASE Marker # bundle.marker
    <3>1. NoVectors \in [Card -> Weights \cup {NoWeights}]
      BY DEF NoVectors
    <3> QED BY <1>4, <2>2, <3>1, NoPinsTyped DEF BeginAttempt, Pins
  <2> QED BY <2>1, <2>2
<1>5. CASE Embed
  <2>1. vectors' \in [Card -> Weights \cup {NoWeights}]
    BY <1>5 DEF Embed
  <2> QED BY <1>5, <2>1 DEF Embed, Fresh, Describes
<1>6. ASSUME NEW c \in Card, CachePut(c) PROVE ScoreTypeOK' /\ InHand'
  BY <1>6 DEF CachePut, attemptVars, Fresh, Describes
<1>7. CASE Cached
  BY <1>7 DEF Cached, attemptVars, Fresh, Describes
<1>8. CASE Rerank
  BY <1>8 DEF Rerank, Fresh, Describes
<1>9. CASE Check
  <2>1. CASE Marker = before
    BY <1>9, <2>1 DEF Check, attemptVars, Fresh, Describes, Loaded
  <2>2. CASE Marker # before
    BY <1>9, <2>2 DEF Check, attemptVars
  <2> QED BY <2>1, <2>2
<1>10. CASE AttemptFails
  BY <1>10 DEF AttemptFails, attemptVars
<1>11. CASE Exhausted
  BY <1>11 DEF Exhausted, attemptVars
<1>12. CASE Take
  BY <1>12 DEF Take, attemptVars
<1> QED BY <1>4, <1>5, <1>6, <1>7, <1>8, <1>9, <1>10, <1>11, <1>12

\* A row is what the attempt has in hand.
LEMMA SubmitStep ==
  ASSUME PinsInv, Submit
  PROVE  PinsInv'
<1>1. /\ UNCHANGED <<starts, bundle, cache, tries, before, pins, vectors, query, ce>>
      /\ pc = "submit" /\ pc' = "idle"
      /\ rows' = rows \cup {[pins |-> pins, vectors |-> vectors, query |-> query, ce |-> ce]}
  BY DEF Submit, attemptVars
<1>2. /\ pins.marker = before /\ before \in 1..Marker /\ pins.artifact = starts[before]
      /\ pins.dim = starts[before] /\ query = starts[before] /\ ce = starts[before]
  BY <1>1 DEF PinsInv, InHand, Scored, Describes
<1>3. Marker' = Marker /\ Loaded' = Loaded
  BY <1>1 DEF Marker, Loaded
<1>4. RowsDescribe' /\ RowIsOfOneStart'
  BY <1>1, <1>2, <1>3 DEF PinsInv, RowsDescribe, RowIsOfOneStart
<1>5. ScoreTypeOK' /\ InHand' /\ (bundle # NoPins => Describes(bundle))'
  BY <1>1, <1>3 DEF PinsInv, ScoreTypeOK, InHand, Phases, Scored, Describes
<1> QED BY <1>3, <1>4, <1>5 DEF PinsInv

LEMMA ProcessStep ==
  ASSUME PinsInv, Crash \/ Boot
  PROVE  PinsInv'
<1>1. UNCHANGED <<starts, rows>>
  BY DEF Crash, Boot
<1>2. CASE Crash
  <2>1. NoVectors \in [Card -> Weights \cup {NoWeights}]
    BY DEF NoVectors
  <2> QED
    BY <1>1, <1>2, <2>1, NoRow, NoPinsTyped
    DEF Crash, PinsInv, ScoreTypeOK, InHand, Phases, Scored, _MAX_TRANSIENT_RETRIES
<1>3. CASE Boot
  BY <1>1, <1>3, NoRow DEF Boot, PinsInv, ScoreTypeOK, InHand, Phases, Scored, Describes, attemptVars
<1> QED BY <1>2, <1>3

-----------------------------------------------------------------------------
LEMMA PinsStep == PinsInv /\ [ScoreNext]_scoreVars => PinsInv'
<1> SUFFICES ASSUME PinsInv, [ScoreNext]_scoreVars PROVE PinsInv'
  OBVIOUS
<1>1. CASE \E w \in Weights : Start(w)
  BY <1>1, StartStep
<1>2. CASE Take \/ Worker
  BY <1>2, CollectStep, AttemptStep, SubmitStep DEF Worker
<1>3. CASE Crash \/ Boot
  BY <1>3, ProcessStep
<1>4. CASE UNCHANGED scoreVars
  <2>1. /\ UNCHANGED <<starts, bundle, cache, pc, tries, rows>>
        /\ UNCHANGED <<before, pins, vectors, query, ce>>
    BY <1>4 DEF scoreVars, attemptVars
  <2>2. ScoreTypeOK'
    BY <2>1 DEF PinsInv, ScoreTypeOK
  <2>3. InHand' /\ (bundle # NoPins => Describes(bundle))'
    BY <2>1, NoRow DEF PinsInv, InHand, Fresh, Describes
  <2> QED BY <2>1, <2>2, <2>3, NoRow DEF PinsInv
<1> QED BY <1>1, <1>2, <1>3, <1>4 DEF ScoreNext

\* The types of the model, and its inductive invariant.
THEOREM InvHolds == ScoreSpec => [](ScoreTypeOK /\ PinsInv)
<1>1. PinsInv => ScoreTypeOK
  BY DEF PinsInv
<1> QED BY <1>1, PinsInit, PinsStep, PTL DEF ScoreSpec

\* Every row is of the start it names, with all that was asked of the container
\* for it, however often and with whatever weights it is started again
\* (scorer.py: _score_once, _collect_pin_bundle).
THEOREM OneStart == ScoreSpec => []RowIsOfOneStart
<1>1. PinsInv => RowIsOfOneStart
  BY DEF PinsInv
<1> QED BY <1>1, InvHolds, PTL
=============================================================================
