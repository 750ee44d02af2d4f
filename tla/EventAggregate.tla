--------------------------- MODULE EventAggregate ---------------------------
(***************************************************************************)
(* The Event aggregate of src/module/event/domain/models/event: an event   *)
(* row with its participants and its attendance results, and the domain    *)
(* methods that change it.  The module has no variables: a method is an    *)
(* operator from an aggregate to an aggregate, and its exceptions are the  *)
(* guard beside it.                                                        *)
(*                                                                         *)
(* Time is a tick count.  EventSchedule keeps three instants in a fixed    *)
(* order and at fixed distances before and after the event time (check     *)
(* -20 min, tracking -15 min, end +1 min); only their order matters to the *)
(* state machine, so a schedule is the tick of its participant check and   *)
(* the other instants are the three ticks that follow.                     *)
(*                                                                         *)
(* An operator that stands just before another one and gets it wrong       *)
(* (CanJoinTwice before CanJoin) is a mutant: see README.md, Runs.         *)
(***************************************************************************)
EXTENDS Naturals, FiniteSets

CONSTANTS
  Users,    \* users who may take part in the event
  Creator,  \* the one who creates it
  None      \* "no value": a missing row, an unmarked registry

ASSUME CreatorIsUser == Creator \in Users

MIN_PARTICIPANTS_FOR_START == 2

EventStatus       == {"RECRUITING", "IN_PROGRESS", "ENDED", "CANCELLED"}
ParticipantStatus == {"PREPARING", "DEPARTED", "ARRIVED"}
AttendanceResult  == {"ARRIVED", "LATE", "ABSENT"}

\* A row of event_participants and one of event_results.  The tables have no
\* unique key on the user, only on the row's own id.  A result's id is the pair
\* of the end() that generated it and the participant row it was made from.
Participant == [id : Nat, user : Users, status : ParticipantStatus]
Result      == [run : Nat, id : Nat, user : Users, result : AttendanceResult]

Event == [status       : EventStatus,
          checked      : BOOLEAN,
          checkTime    : Nat,
          participants : SUBSET Participant,
          results      : SUBSET Result]

ASSUME NoneIsNoEvent == None \notin Event

\* EventSchedule: participantCheckTime is checkTime itself.
TrackingStartsAtCheck(e) == e.checkTime
TrackingStartTime(e) == e.checkTime + 1
EventTime(e)         == e.checkTime + 2
EndsAtStart(e)       == e.checkTime + 1
EndTime(e)           == e.checkTime + 3

UsersOf(e) == {p.user : p \in e.participants}

(***************************************************************************)
(* Joining and withdrawing                                                 *)
(***************************************************************************)

\* CreateEventUseCase: a recruiting event whose only participant is its creator.
NewEvent(id, t) ==
  [status |-> "RECRUITING", checked |-> FALSE, checkTime |-> t,
   participants |-> {[id |-> id, user |-> Creator, status |-> "PREPARING"]},
   results |-> {}]

\* addParticipant, with the status check JoinEventUseCase makes before it.
CanJoinTwice(e, u)   == e.status = "RECRUITING" /\ ~e.checked
CanJoin(e, u) ==
  /\ e.status = "RECRUITING"
  /\ ~e.checked
  /\ u \notin UsersOf(e)

AddParticipantNumbered(e, id, u) ==
  [e EXCEPT !.participants =
     @ \cup {[id |-> Cardinality(@) - 1, user |-> u, status |-> "PREPARING"]}]
AddParticipant(e, id, u) ==
  [e EXCEPT !.participants =
     @ \cup {[id |-> id, user |-> u, status |-> "PREPARING"]}]

\* removeParticipant; p is the row that findIndex picks for the user.
CanWithdrawCreator(e, p) ==
  e.status = "RECRUITING" /\ ~e.checked /\ p \in e.participants
CanWithdraw(e, p) ==
  /\ e.status = "RECRUITING"
  /\ ~e.checked
  /\ p.user # Creator
  /\ p \in e.participants

RemoveParticipant(e, p) == [e EXCEPT !.participants = @ \ {p}]

(***************************************************************************)
(* Editing and deleting                                                    *)
(***************************************************************************)

\* canBeUpdated and canBeDeleted are the same condition; both use cases also
\* require the caller to be the creator, the only caller modelled.
CanBeUpdated(e) == e.status = "RECRUITING" /\ ~e.checked
CanBeDeleted(e) == e.status = "RECRUITING" /\ ~e.checked

\* update() with a schedule: everyone but the creator is dropped.
DroppedBySchedule(e) == {p \in e.participants : p.user # Creator}
Rescheduled(e, t) ==
  [e EXCEPT !.checkTime = t, !.participants = @ \ DroppedBySchedule(e)]

(***************************************************************************)
(* The automatic transitions                                               *)
(***************************************************************************)

\* checkParticipantsForStart: nothing happens unless the event is recruiting,
\* and a second call on a checked event is not refused.
HasQuorumOfOne(e) == Cardinality(e.participants) >= 1
HasQuorum(e) == Cardinality(e.participants) >= MIN_PARTICIPANTS_FOR_START

CheckAnyStatus(e) ==
  [e EXCEPT !.checked = TRUE,
            !.status  = IF HasQuorum(e) THEN "RECRUITING" ELSE "CANCELLED"]
CheckParticipantsForStart(e) ==
  IF e.status # "RECRUITING" THEN e
  ELSE [e EXCEPT !.checked = TRUE,
                 !.status  = IF HasQuorum(e) THEN "RECRUITING" ELSE "CANCELLED"]

CanStart(e) == e.status = "RECRUITING"
Start(e)    == [e EXCEPT !.status = "IN_PROGRESS"]

CanEnd(e) == e.status = "IN_PROGRESS"

MapParticipantStatusToItself(s) == s
MapParticipantStatusToResult(s) ==
  CASE s = "ARRIVED"   -> "ARRIVED"
    [] s = "DEPARTED"  -> "LATE"
    [] s = "PREPARING" -> "ABSENT"

ResultsOf(e, run) ==
  {[run |-> run, id |-> p.id, user |-> p.user,
    result |-> MapParticipantStatusToResult(p.status)] : p \in e.participants}

EndSkipsAbsent(e, run) ==
  [e EXCEPT !.status = "ENDED",
            !.results = {r \in ResultsOf(e, run) : r.result # "ABSENT"}]
EndWithoutResults(e, run) == [e EXCEPT !.status = "ENDED"]
End(e, run) == [e EXCEPT !.status = "ENDED", !.results = ResultsOf(e, run)]

(***************************************************************************)
(* Departure and arrival of one participant                                *)
(***************************************************************************)

CanDepart(e, p) ==
  e.status = "IN_PROGRESS" /\ p \in e.participants /\ p.status = "PREPARING"
CanArrive(e, p) ==
  e.status = "IN_PROGRESS" /\ p \in e.participants /\ p.status = "DEPARTED"

WithStatus(e, p, s) ==
  [e EXCEPT !.participants = (@ \ {p}) \cup {[p EXCEPT !.status = s]}]
DepartParticipant(e, p) == WithStatus(e, p, "DEPARTED")
ArriveParticipant(e, p) == WithStatus(e, p, "ARRIVED")

(***************************************************************************)
(* EventRepositoryImpl: the transaction of save().  The row is overwritten *)
(* whole; participants are deleted by the ids the aggregate removed, then  *)
(* every participant and result of the aggregate is upserted by its id.    *)
(* Rows the aggregate never saw stay.                                      *)
(***************************************************************************)
Ids(rows) == {r.id : r \in rows}

SaveReplacesResults(stored, e, removed) ==
  IF stored = None THEN e
  ELSE [e EXCEPT !.participants =
          {p \in stored.participants : p.id \notin removed \cup Ids(e.participants)}
            \cup @]
Saved(stored, e, removed) ==
  IF stored = None THEN e
  ELSE [e EXCEPT
          !.participants =
             {p \in stored.participants :
                p.id \notin removed \cup Ids(e.participants)} \cup @,
          !.results =
             {r \in stored.results :
                \A n \in @ : <<n.run, n.id>> # <<r.run, r.id>>} \cup @]
=============================================================================
