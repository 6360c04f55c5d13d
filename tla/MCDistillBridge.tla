-------------------------- MODULE MCDistillBridge --------------------------
(* Instances of DistillBridge for the model checker. *)
EXTENDS DistillBridge

CONSTANTS known, other, ws1, ws2

Conv(agent, ws) == [agent |-> agent, ws |-> ws]

\* A known agent, and an unknown one: a session without a workspace, one with.
AbsentWorkspace == <<Conv(known, ws1), Conv(other, NoWs), Conv(other, ws2)>>

OnePage == [m \in Msg |-> "p1"]
============================================================================
