\* A session without a workspace is released, and one with a workspace is not.
SPECIFICATION Spec
CONSTANTS
  Bridge = {b1}
  Agent = {known, other}
  Known = {known}
  known = known
  other = other
  ws1 = ws1
  ws2 = ws2
  Ws = {ws1, ws2}
  NoWs = NoWs
  N = 3
  From <- AbsentWorkspace
  Page = {"p1"}
  PageOf <- OnePage
  Limit = 1
  Cap = 2
  Cost = {1, 3}
  MaxEntities = 1
  MaxFaults = 0
  MaxReplays = 0
  None = None
INVARIANT QuarantineHolds
