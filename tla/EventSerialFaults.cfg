\* One request at a time, with faults and a clock that runs on: safety holds.
SPECIFICATION Spec
CONSTANTS
  Users = {c, u1, u2}
  Creator = c
  None = None
  Slots = {s1}
  Leaked = leaked
  NoInstance = none
  Driver = "bullmq"
  CheckTimes = {1, 2}
  MaxTime = 6
  MaxRows = 4
  MaxRuns = 2
  Faults = {"save", "ack", "crash"}
  MaxFaults = 1
  Observed = {"ParticipantsCheckPassed", "EventStarted"}
  Prompt = FALSE
INVARIANTS TypeOK StartedWithQuorum AttendanceComplete
PROPERTIES KeepsPromise
SYMMETRY MCSymmetry
CHECK_DEADLOCK FALSE
