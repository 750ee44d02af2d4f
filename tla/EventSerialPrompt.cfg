\* One request at a time, no faults, a clock that waits: the design works.
SPECIFICATION FairSpec
CONSTANTS
  Users = {c, u1, u2}
  Creator = c
  None = None
  Slots = {s1}
  Leaked = leaked
  NoInstance = none
  Driver = "cloud-tasks"
  CheckTimes = {1, 2}
  MaxTime = 6
  MaxRows = 4
  MaxRuns = 1
  Faults = {}
  MaxFaults = 0
  Observed = {"EventCreated", "ParticipantsCheckPassed", "EventStarted", "EventEnded", "EventCancelled", "ParticipantDeparted"}
  Prompt = TRUE
INVARIANTS OneParticipation ChainUnbroken
PROPERTIES ChangesAreAnnounced EventSettles
CHECK_DEADLOCK FALSE
