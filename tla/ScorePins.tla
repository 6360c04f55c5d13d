----------------------------- MODULE ScorePins -----------------------------
(***************************************************************************)
(* The score worker's pin bundle and vector cache (everos_mcp/scorer.py):  *)
(* which model a score comes from, and which model its row names.          *)
(*                                                                         *)
(* Scores are computed by a model server in a container that anybody may   *)
(* restart, with other weights, at any moment.  The worker keeps a bundle  *)
(* of pins that describes the container, identified by the container's     *)
(* marker; it reads the marker before and after every attempt and gives    *)
(* the attempt up if it has moved.  Card vectors are cached on disk under  *)
(* the fingerprint of the weights.                                         *)
(*                                                                         *)
(* A vector and a score are modelled by what the properties ask of them:   *)
(* the weights that produced them.  The marker (.Image + .State.StartedAt) *)
(* is the number of the start.                                             *)
(***************************************************************************)
EXTENDS Naturals, Sequences

CONSTANTS Weights,     \* what a container may be started with
          Card,        \* the candidate cards of the scored request
          MaxStarts,   \* bound: container starts
          Rollbacks,   \* may a container return to weights it had before?
          NoWeights    \* nothing produced it yet

ASSUME ScorePinsAssumption ==
  /\ Weights # {} /\ MaxStarts \in Nat \ {0} /\ Rollbacks \in BOOLEAN /\ NoWeights \notin Weights

VARIABLES starts,   \* the weights of every container start so far, in order
          bundle,   \* the worker's pins: [marker, artifact, dim]
          cache,    \* cache[w][c]: what produced the vector kept for card c under w
          pc,       \* where the worker stands
          tries,    \* attempts made for the request at hand
          before,   \* the marker read last, to be compared later
          pins,     \* the pins this attempt, or this collection, will name
          vectors,  \* what produced the vector of each card
          query,    \* what produced the query vector
          ce,       \* what produced the rerank scores
          rows      \* the scored rows with status ok

scoreVars == <<starts, bundle, cache, pc, tries, before, pins, vectors, query, ce, rows>>
attemptVars == <<before, pins, vectors, query, ce>>

_MAX_TRANSIENT_RETRIES == 3

Marker == Len(starts)
Loaded == starts[Marker]

Pins   == [marker : Nat, artifact : Weights, dim : Weights]
NoPins == [marker |-> 0, artifact |-> NoWeights, dim |-> NoWeights]
NoVectors == [c \in Card |-> NoWeights]

Phases == {"idle", "attempt", "embed", "cache", "rerank", "check", "submit",
           "collect", "fingerprint", "verify", "measure", "down"}

ScoreTypeOK ==
  /\ starts \in Seq(Weights)
  /\ bundle \in Pins \cup {NoPins}
  /\ cache \in [Weights -> [Card -> Weights \cup {NoWeights}]]
  /\ pc \in Phases
  /\ tries \in 0.._MAX_TRANSIENT_RETRIES
  /\ before \in Nat
  /\ pins \in [marker : Nat, artifact : Weights \cup {NoWeights}, dim : Weights \cup {NoWeights}]
  /\ vectors \in [Card -> Weights \cup {NoWeights}]
  /\ query \in Weights \cup {NoWeights} /\ ce \in Weights \cup {NoWeights}

\* The process is about to collect its first bundle; the cache directory is empty.
ScoreInit ==
  /\ \E w \in Weights : starts = <<w>>
  /\ bundle = NoPins
  /\ cache = [w \in Weights |-> NoVectors]
  /\ pc = "collect" /\ tries = 0 /\ before = 0
  /\ pins = NoPins /\ vectors = NoVectors /\ query = NoWeights /\ ce = NoWeights
  /\ rows = {}

-----------------------------------------------------------------------------
(* The container.                                                            *)

Start(w) ==
  /\ Marker < MaxStarts
  /\ Rollbacks \/ w = Loaded \/ \A i \in 1..Marker : starts[i] # w
  /\ starts' = Append(starts, w)
  /\ UNCHANGED <<bundle, cache, pc, tries, attemptVars, rows>>

-----------------------------------------------------------------------------
(* _collect_pin_bundle: the container is asked four questions in turn, and   *)
(* may restart between any two of them.                                      *)

\* marker_before
Collect ==
  /\ pc = "collect"
  /\ before' = Marker /\ pc' = "fingerprint"
  /\ UNCHANGED <<starts, bundle, cache, tries, pins, vectors, query, ce, rows>>

\* get_image_digest, compute_model_artifact_fp
Fingerprint ==
  /\ pc = "fingerprint"
  /\ pins' = [pins EXCEPT !.artifact = Loaded] /\ pc' = "verify"
  /\ UNCHANGED <<starts, bundle, cache, tries, before, vectors, query, ce, rows>>

GiveUp_Uncounted ==   \* faulty variant: only attempts that got an answer are counted
  /\ pc' = IF bundle = NoPins THEN "down" ELSE "attempt"
  /\ UNCHANGED <<starts, bundle, cache, tries, attemptVars, rows>>

\* A failed collection ends the process at start-up, and the attempt later on.
GiveUp ==
  /\ pc' = IF bundle = NoPins THEN "down" ELSE "attempt"
  /\ UNCHANGED <<starts, bundle, cache, attemptVars, rows>>
  /\ IF bundle = NoPins THEN tries' = 0 ELSE tries' = tries + 1

\* marker_after
Verify ==
  /\ pc = "verify"
  /\ IF Marker = before
     THEN /\ pins' = [pins EXCEPT !.marker = Marker] /\ pc' = "measure"
          /\ UNCHANGED <<starts, bundle, cache, tries, before, vectors, query, ce, rows>>
     ELSE GiveUp

\* measure_embedding_dim and the window probe come after the second reading of
\* the marker; then the whole bundle is replaced, and the attempt starts over.
Measure ==
  /\ pc = "measure"
  /\ bundle' = [pins EXCEPT !.dim = Loaded]
  /\ IF bundle = NoPins
     THEN pc' = "idle" /\ UNCHANGED tries
     ELSE pc' = "attempt" /\ tries' = tries + 1
  /\ UNCHANGED <<starts, cache, attemptVars, rows>>

\* Any of the four questions may go unanswered.
CollectFails == pc \in {"collect", "fingerprint", "verify", "measure"} /\ GiveUp

-----------------------------------------------------------------------------
(* _score_once: up to three attempts at one request.                         *)

Take ==
  /\ pc = "idle"
  /\ pc' = "attempt" /\ tries' = 0
  /\ UNCHANGED <<starts, bundle, cache, attemptVars, rows>>

\* After the third failure a row with status retryable_error is submitted.
Exhausted ==
  /\ pc = "attempt" /\ tries = _MAX_TRANSIENT_RETRIES
  /\ pc' = "idle"
  /\ UNCHANGED <<starts, bundle, cache, tries, attemptVars, rows>>

\* marker_before of the attempt: a bundle of another start is rebuilt, which
\* costs the attempt.  The vectors kept for these weights are taken.
BeginAttempt ==
  /\ pc = "attempt" /\ tries < _MAX_TRANSIENT_RETRIES
  /\ before' = Marker /\ pins' = bundle
  /\ IF Marker = bundle.marker
     THEN vectors' = cache[bundle.artifact] /\ pc' = "embed"
     ELSE vectors' = NoVectors /\ pc' = "collect"
  /\ UNCHANGED <<starts, bundle, cache, tries, query, ce, rows>>

\* One embed call for the query and the cards the cache does not have.
Embed ==
  /\ pc = "embed"
  /\ query' = Loaded
  /\ vectors' = [c \in Card |-> IF vectors[c] = NoWeights THEN Loaded ELSE vectors[c]]
  /\ pc' = "cache"
  /\ UNCHANGED <<starts, bundle, cache, tries, before, pins, ce, rows>>

\* The new vectors are kept, one file after the other, under the pinned weights.
CachePut(c) ==
  /\ pc = "cache" /\ cache[pins.artifact][c] = NoWeights
  /\ cache' = [cache EXCEPT ![pins.artifact][c] = vectors[c]]
  /\ UNCHANGED <<starts, bundle, pc, tries, attemptVars, rows>>

Cached ==
  /\ pc = "cache" /\ \A c \in Card : cache[pins.artifact][c] # NoWeights
  /\ pc' = "rerank"
  /\ UNCHANGED <<starts, bundle, cache, tries, attemptVars, rows>>

Rerank ==
  /\ pc = "rerank"
  /\ ce' = Loaded /\ pc' = "check"
  /\ UNCHANGED <<starts, bundle, cache, tries, before, pins, vectors, query, rows>>

Check_Never ==   \* faulty variant: no second look at the marker
  /\ pc = "check"
  /\ pc' = "submit"
  /\ UNCHANGED <<starts, bundle, cache, tries, attemptVars, rows>>

\* marker_after of the attempt.
Check ==
  /\ pc = "check"
  /\ pc' = IF Marker = before THEN "submit" ELSE "collect"
  /\ UNCHANGED <<starts, bundle, cache, tries, attemptVars, rows>>

Submit ==
  /\ pc = "submit"
  /\ rows' = rows \cup {[pins |-> pins, vectors |-> vectors, query |-> query, ce |-> ce]}
  /\ pc' = "idle"
  /\ UNCHANGED <<starts, bundle, cache, tries, attemptVars>>

\* The container does not answer, or a file of the cache cannot be written: the
\* attempt is over, and the vectors it has put away by then stay.
AttemptFails ==
  /\ pc \in {"attempt", "embed", "cache", "rerank", "check"} /\ tries < _MAX_TRANSIENT_RETRIES
  /\ pc' = "attempt" /\ tries' = tries + 1
  /\ UNCHANGED <<starts, bundle, cache, attemptVars, rows>>

-----------------------------------------------------------------------------

\* The server process dies and is started again; the cache files stay.
Crash ==
  /\ pc # "down"
  /\ pc' = "down" /\ bundle' = NoPins /\ tries' = 0
  /\ before' = 0 /\ pins' = NoPins /\ vectors' = NoVectors /\ query' = NoWeights /\ ce' = NoWeights
  /\ UNCHANGED <<starts, cache, rows>>

Boot ==
  /\ pc = "down"
  /\ pc' = "collect"
  /\ UNCHANGED <<starts, bundle, cache, tries, attemptVars, rows>>

Worker ==
  \/ Collect \/ Fingerprint \/ Verify \/ Measure \/ CollectFails
  \/ Exhausted \/ BeginAttempt \/ Embed \/ (\E c \in Card : CachePut(c)) \/ Cached
  \/ Rerank \/ Check \/ Submit \/ AttemptFails

ScoreNext ==
  \/ \E w \in Weights : Start(w)
  \/ Take \/ Worker \/ Crash \/ Boot

ScoreSpec == ScoreInit /\ [][ScoreNext]_scoreVars

\* The worker is a running thread.  Container starts, requests and process
\* deaths happen or do not.
FairScoreSpec == ScoreSpec /\ WF_scoreVars(Worker)

-----------------------------------------------------------------------------

\* The two marker readings do their work: the scores of a row come from the
\* container start that its pins describe, and so do all of its pins, although
\* the embedding dimension is measured when the marker has been verified already.
RowIsOfOneStart ==
  \A row \in rows :
    LET w == starts[row.pins.marker] IN
      row.pins.artifact = w /\ row.pins.dim = w /\ row.query = w /\ row.ce = w

\* The same of the card vectors, which may come out of the cache.  scorer.py:16
\* says that the results of an attempt during which the marker moved are dropped;
\* its vectors are not: they were put into the cache, under the weights before the
\* move, before the marker was read again.
VectorsMatchPins ==
  \A row \in rows : \A c \in Card : row.vectors[c] = row.pins.artifact

\* Each request taken up is done with, whatever the container does meanwhile:
\* collections and attempts that fail are counted against the three.
RequestEnds == pc = "attempt" ~> pc \in {"idle", "down"}
=============================================================================
