--------------------------- MODULE MCEventBooking ---------------------------
(***************************************************************************)
(* Small instances of EventBooking and Views for TLC, in four slices:      *)
(* requests one at a time on two events before anybody is on the way;      *)
(* creations, edits, deletions and checks of one group that overlap;       *)
(* requests one at a time, with departures, positions and a restart, until *)
(* something overlaps, what is in flight then, and all that may overtake a *)
(* deletion; and what is shown of events while members come and go.        *)
(***************************************************************************)
EXTENDS Views, TLC

CONSTANTS
  CloseTimes, \* check times of the first slice: their schedules overlap
  FarTimes,   \* check times of the last two: one ends when the other starts
  Early       \* the first two slices end here

VARIABLE slice

TimesWithin(times) ==
  /\ \A e \in Events : events'[e] # None => events'[e].checkTime \in times
  /\ \A s \in Slots : ops'[s] # Idle => ops'[s].copy.checkTime \in times

OneGroup == \A e, f \in Events : events'[e] # None /\ events'[f] # None
                                  => events'[e].group = events'[f].group
InUse == {e \in Events : events'[e] # None \/ \E s \in Slots : ops'[s].event = e}
Doing(kinds) == {s \in Slots : ops'[s].kind \in kinds}

Bookings ==
  /\ Next /\ UNCHANGED <<members, results>>
  /\ ~disturbed' /\ Cardinality(InUse) <= 2
  /\ Doing({"depart"}) = {} /\ now' <= Early /\ TimesWithin(CloseTimes)
Crowded ==
  /\ Next /\ UNCHANGED <<members, results>>
  /\ Doing(Kind \ {"create", "edit", "delete", "check", "start"}) = {}
  /\ OneGroup /\ now' <= Early /\ TimesWithin({1})
OnTheWay ==
  /\ Next /\ UNCHANGED <<members, results>>
  /\ OneGroup /\ TimesWithin(FarTimes) /\ Cardinality(InUse) <= 2
  /\ Cardinality(Doing(Kind \ {"delete"})) <= 1
  /\ Doing({"edit"}) = {}
  /\ disturbed' => Doing(Kind \ (JobKind \cup {"delete", "depart"})) = {}
  /\ ops' # ops => \/ ~disturbed
                   \/ \A s \in Slots : ops[s] = Idle => ops'[s] = Idle
                   \/ \E s \in Slots : ops[s].kind = "delete" /\ ops'[s] = ops[s]
Shown ==
  /\ ViewsNext
  /\ Doing({"depart"}) = {} /\ Cardinality(InUse) <= 2
  /\ ~disturbed' /\ TimesWithin(FarTimes)

MCInit == ViewsInit /\ slice \in {"bookings", "crowded", "positions", "views"}
MCNext ==
  /\ UNCHANGED slice
  /\ \/ slice = "bookings" /\ Bookings
     \/ slice = "crowded" /\ Crowded
     \/ slice = "positions" /\ OnTheWay
     \/ slice = "views" /\ Shown
MCSpec == MCInit /\ [][MCNext]_<<viewVars, slice>>

MCSymmetry == Permutations(Users) \cup Permutations(Events) \cup Permutations(Slots)
                \cup Permutations(RowIds) \cup Permutations(Groups)
=============================================================================
