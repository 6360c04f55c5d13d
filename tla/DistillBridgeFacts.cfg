\* A known agent, an unknown one with and without a workspace; two bridges, a
\* fault, a replay.
SPECIFICATION FairSpec
CONSTANTS
  Bridge = {b1, b2}
  Agent = {known, other}
  Known = {known}
  known = known
  other = other
  ws1 = ws1
  ws2 = ws2
  Ws = {ws1, ws2}
  NoWs = NoWs
  N = 3
  From <- AbsentWorkspace
  Page = {"p1"}
  PageOf <- OnePage
  Limit = 1
  Cap = 2
  Cost = {1, 3}
  MaxEntities = 1
  MaxFaults = 1
  MaxReplays = 1
  None = None
INVARIANTS
  NothingSkipped
  WrittenAsRecorded
  ReadAsReleased
PROPERTY
  NothingIsForgotten
  EverythingSettles
