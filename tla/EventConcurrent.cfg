\* Two requests in flight, any delay, a failing save or a lost acknowledgement:
\* what holds however they interleave.
SPECIFICATION Spec
CONSTANTS
  Users = {c, u1}
  Creator = c
  None = None
  Slots = {s1, s2}
  Leaked = leaked
  NoInstance = none
  Driver = "cloud-tasks"
  CheckTimes = {1}
  MaxTime = 4
  MaxRows = 2
  MaxRuns = 2
  Faults = {"save", "ack", "crash"}
  MaxFaults = 1
  Observed = {"ParticipantsCheckPassed", "EventStarted"}
  Prompt = FALSE
INVARIANTS CreatorStays EndedHasResults MarkedHasEvents KeysIdentifyRows
PROPERTIES ResultsAreFinal
SYMMETRY MCSlotSymmetry
CHECK_DEADLOCK FALSE
