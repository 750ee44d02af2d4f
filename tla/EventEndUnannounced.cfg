\* A departure in flight takes the place of the end in the registry.
SPECIFICATION Spec
CONSTANTS
  Users = {c, u1}
  Creator = c
  None = None
  Slots = {s1, s2}
  Leaked = leaked
  NoInstance = none
  Driver = "cloud-tasks"
  CheckTimes = {1}
  MaxTime = 4
  MaxRows = 3
  MaxRuns = 2
  Faults = {}
  MaxFaults = 0
  Observed = {"ParticipantsCheckPassed", "EventStarted", "EventEnded"}
  Prompt = FALSE
PROPERTIES EndIsAnnounced
CHECK_DEADLOCK FALSE
