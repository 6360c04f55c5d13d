----------------------------- MODULE MCServer -----------------------------
(***************************************************************************)
(* What the server owes to those who wait, with the fairness of its threads: *)
(* a search in the ledger, a request in the score worker, and a call at the  *)
(* checkpoint. The three are not interleaved: part says which of them moves. *)
(***************************************************************************)
EXTENDS Checkpoint, ScorePins

CONSTANTS Rid, AbortMayFail

VARIABLES part,
          log, taken, written, synced, syncing, torn, aborts,
          phase, waiting, receipt, outcome, answer, scoreQueue, alive

Ledger == INSTANCE SearchLedger WITH pc <- phase, up <- alive

requestVars == <<log, taken, written, synced, syncing, torn, aborts,
                 phase, waiting, receipt, outcome, answer, scoreQueue, alive>>

-----------------------------------------------------------------------------
ServerInit ==
  /\ part \in {"ledger", "scorer", "gate"}
  /\ Init /\ ScoreInit /\ Ledger!Init
  /\ part # "scorer" => Loaded = CHOOSE w \in Weights : TRUE

LedgerStep == part = "ledger" /\ Ledger!Next /\ UNCHANGED <<part, vars, scoreVars>>
ScorerStep == part = "scorer" /\ ScoreNext /\ UNCHANGED <<part, vars, requestVars>>

\* The wall clock is never set back.
GateStep == part = "gate" /\ Steady /\ UNCHANGED <<part, scoreVars, requestVars>>

ServerNext == LedgerStep \/ ScorerStep \/ GateStep

\* The fairness of the three modules, each for the part that moves.
ServerFairness ==
  /\ \A r \in Rid : WF_requestVars(part = "ledger" /\ Ledger!Handler(r))
  /\ WF_scoreVars(part = "scorer" /\ Worker)
  /\ WF_vars(part = "gate" /\ Launch)
  /\ WF_vars(part = "gate" /\ init_or_load)
  /\ \A p \in Proc : SF_vars(part = "gate" /\ Enter(p))
  /\ \A p \in Handlers \cup {Watchdog} :
       /\ WF_vars(part = "gate" /\ Count(p))
       /\ SF_vars(part = "gate" /\ Lock(p))
       /\ WF_vars(part = "gate" /\ state(p))
  /\ \A v \in Reviewer : WF_vars(part = "gate" /\ record_review(v))

ServerSpec ==
  /\ ServerInit
  /\ [][ServerNext]_<<part, vars, scoreVars, requestVars>>
  /\ ServerFairness

-----------------------------------------------------------------------------
\* A search that was taken is answered, raised or dies with the process, whatever
\* the two writer threads do (Ledger.submit gives up after 5 s).
EveryCallReturns == part = "ledger" => Ledger!EveryCallReturns

\* A server that is down comes up: start-up refuses no file of its own making.
DownServerComesUp == part = "gate" => ServerComesUp
===========================================================================
