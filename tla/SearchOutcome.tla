--------------------------- MODULE SearchOutcome ---------------------------
(***************************************************************************)
(* What an `everos_search` call promises to its client and to the readers  *)
(* of the ledger, without streams, writers or crashes: each request has a  *)
(* verdict, which the ledger's files imply, and at most one answer, which  *)
(* the client gets.  The verdict may move while the call is open; the      *)
(* answer is the verdict of that moment, and from then on neither changes. *)
(***************************************************************************)
CONSTANT Rid

VARIABLES verdict,  \* what the files say of each request
          answer    \* what the client was told

vars == <<verdict, answer>>

Verdicts == {"hit", "abstain_empty", "error"}

Init ==
  /\ verdict = [r \in Rid |-> "error"]
  /\ answer = [r \in Rid |-> "none"]

Open(r) == answer[r] = "none"

\* Rows reach the files, or are lost to a crash: open requests only.
Settle ==
  /\ verdict' \in [Rid -> Verdicts]
  /\ \A r \in Rid : ~Open(r) => verdict'[r] = verdict[r]
  /\ UNCHANGED answer

\* The client gets the verdict; a call that fails with an exception ("raised")
\* is an error to the readers.
Reply(r) ==
  /\ Open(r)
  /\ \/ answer' = [answer EXCEPT ![r] = verdict[r]]
     \/ verdict[r] = "error" /\ answer' = [answer EXCEPT ![r] = "raised"]
  /\ UNCHANGED verdict

Next == Settle \/ \E r \in Rid : Reply(r)

Spec == Init /\ [][Next]_vars
============================================================================
