-------------------------- MODULE LocationTracking --------------------------
(***************************************************************************)
(* The positions of participants on their way (src/module/                 *)
(* location-tracking): a row for each participant who departed, made by    *)
(* the handler of ParticipantDeparted and deleted by that of EventEnded.   *)
(*                                                                         *)
(* A handler is called when the event is saved, starts work that nobody    *)
(* waits for, and logs what goes wrong.  That work, and the requests that  *)
(* move a position, are members of "work" between two awaits.  What an     *)
(* action needs to know of the events comes as a parameter: the module     *)
(* that composes this one with the events supplies it.                     *)
(***************************************************************************)
EXTENDS Naturals, FiniteSets

CONSTANTS
  Users,    \* users who may depart
  Events,   \* ids of events
  RowIds,   \* ids of location_trackings rows: bounds the rows in use at once
  Positions, \* what an update may report
  None      \* "no value": a position not reported yet

ASSUME NoneIsNoPosition == None \notin Positions /\ None \notin RowIds

Tracking == [id : RowIds, event : Events, user : Users,
             position : Positions \cup {None}]

\* Work in progress: a departure to be checked, a row to be inserted, an ended
\* event to be cleaned up, a row an update has read and moved.
Work ==
  [do : {"check"}, event : Events, user : Users]
    \cup [do : {"insert", "update"}, row : Tracking]
    \cup [do : {"clean"}, event : Events]

VARIABLES
  trackings, \* the rows
  work       \* handlers and updates between two awaits

trackingVars == <<trackings, work>>

TrackingInit == trackings = {} /\ work = {}

RowOf(e, u) == {r \in trackings : r.event = e /\ r.user = u}
FreshRow(i) ==
  /\ \A r \in trackings : r.id # i
  /\ \A w \in work : w.do \in {"insert", "update"} => w.row.id # i

Done(w) == work' = work \ {w}
Then(w, next) == work' = (work \ {w}) \cup {next}

(***************************************************************************)
(* What the handlers start.                                                *)
(***************************************************************************)
OnParticipantDeparted(e, u) ==
  /\ work' = work \cup {[do |-> "check", event |-> e, user |-> u]}
  /\ UNCHANGED trackings
IgnoreEventEnded(e) == UNCHANGED trackingVars
OnEventEnded(e) ==
  /\ work' = work \cup {[do |-> "clean", event |-> e]}
  /\ UNCHANGED trackings

(***************************************************************************)
(* CreateLocationTrackingUseCase: the query, then the insert.              *)
(***************************************************************************)
CreateChecks(w, i, inProgress) ==
  /\ w \in work /\ w.do = "check" /\ FreshRow(i)
  /\ IF inProgress
     THEN Then(w, [do |-> "insert", row |-> [id |-> i, event |-> w.event,
                     user |-> w.user, position |-> None]])
     ELSE Done(w)
  /\ UNCHANGED trackings

\* LocationTrackingRepositoryImpl.save: an upsert by id.  A row of the same
\* event and user under another id fails on the unique key, and one whose event
\* is gone on the foreign key; an update of a row that is gone inserts it again.
Conflicting(row) == {r \in RowOf(row.event, row.user) : r.id # row.id}
SaveTrackingOfGoneEvent(w, exists) ==
  /\ w \in work /\ w.do \in {"insert", "update"}
  /\ IF Conflicting(w.row) # {} THEN UNCHANGED trackings
     ELSE trackings' = {r \in trackings : r.id # w.row.id} \cup {w.row}
  /\ Done(w)
SaveTracking(w, exists) ==
  /\ w \in work /\ w.do \in {"insert", "update"}
  /\ IF Conflicting(w.row) # {} \/ ~exists THEN UNCHANGED trackings
     ELSE trackings' = {r \in trackings : r.id # w.row.id} \cup {w.row}
  /\ Done(w)

\* UpdateLocationUseCase reads the caller's row and moves its copy.
UpdateLocation(r, position) ==
  /\ r \in trackings
  /\ work' = work \cup {[do |-> "update", row |-> [r EXCEPT !.position = position]]}
  /\ UNCHANGED trackings

\* deleteByEventId.
DeleteByEventId(w) ==
  /\ w \in work /\ w.do = "clean" /\ Done(w)
  /\ trackings' = {r \in trackings : r.event # w.event}

WorkIsLost == work' = {} /\ UNCHANGED trackings

FindByEventId(e) == {r \in trackings : r.event = e}

TrackingTypeOK == trackings \subseteq Tracking /\ work \subseteq Work
=============================================================================
