\* A job delivered late breaks the chain of jobs.
SPECIFICATION FairSpec
CONSTANTS
  Users = {c, u1, u2}
  Creator = c
  None = None
  Slots = {s1}
  Leaked = leaked
  NoInstance = none
  Driver = "cloud-tasks"
  CheckTimes = {1, 2}
  MaxTime = 6
  MaxRows = 4
  MaxRuns = 1
  Faults = {}
  MaxFaults = 0
  Observed = {"EventCreated", "ParticipantsCheckPassed", "EventStarted", "EventEnded", "EventCancelled", "ParticipantDeparted"}
  Prompt = FALSE
PROPERTIES EventSettles
CHECK_DEADLOCK FALSE
