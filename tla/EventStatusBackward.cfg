\* A stale copy saved late takes the status back.
SPECIFICATION Spec
CONSTANTS
  Users = {c, u1}
  Creator = c
  None = None
  Slots = {s1, s2}
  Leaked = leaked
  NoInstance = none
  Driver = "cloud-tasks"
  CheckTimes = {1}
  MaxTime = 4
  MaxRows = 3
  MaxRuns = 2
  Faults = {}
  MaxFaults = 0
  Observed = {"ParticipantsCheckPassed", "EventStarted"}
  Prompt = FALSE
PROPERTIES StatusMovesForward
CHECK_DEADLOCK FALSE
