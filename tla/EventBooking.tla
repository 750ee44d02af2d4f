---------------------------- MODULE EventBooking ----------------------------
(***************************************************************************)
(* Several events of several groups: the limit on recruiting events of a   *)
(* group, the schedules of a user that must not overlap, and the positions *)
(* of those on their way (src/module/event, src/module/location-tracking). *)
(*                                                                         *)
(* What EventLifecycle looks at in detail is coarse here: an event has a   *)
(* set of participants and not rows, its jobs run when they are due, and   *)
(* the queue and the registry do not fail.  What is left is what that      *)
(* module leaves out: queries over several events, each made some awaits   *)
(* before the save that relies on it.  Whatever saves an event, a request  *)
(* or a job, has read it some awaits before and writes its copy back.      *)
(*                                                                         *)
(* A schedule is the tick of its participant check; tracking starts a tick *)
(* later, the event is at the third tick and ends at the fourth, so that a *)
(* new event can overlap one that is in progress, as it can in the code.   *)
(***************************************************************************)
EXTENDS LocationTracking

CONSTANTS
  Groups,        \* groups that hold events
  CheckTimes,    \* check times an event may be given
  MaxRecruiting, \* MAX_RECURRING_EVENTS_PER_GROUP: 3
  MaxTime,       \* bound: the clock stops here
  Slots          \* one for each request or job in flight

ASSUME BookingBounds ==
  /\ CheckTimes \subseteq Nat /\ MaxRecruiting \in Nat \ {0} /\ MaxTime \in Nat

Status == {"RECRUITING", "CHECKED", "IN_PROGRESS", "ENDED", "CANCELLED"}
EventRow == [group : Groups, creator : Users, checkTime : CheckTimes,
             status : Status, participants : SUBSET Users,
             underWay : SUBSET Users] \* participants no longer PREPARING

ASSUME NoneIsNoEventRow == None \notin EventRow
ASSUME SlotsAreFinite == IsFiniteSet(Slots)

VARIABLES
  events,    \* id -> row, or None
  departed,  \* history: <<event, user>> of every departure
  ops,       \* requests and jobs in flight
  now,
  moved,     \* history: events whose time was changed
  revived,   \* history: deleted events that a later save has brought back
  disturbed  \* history: two activities overlapped, or the process stopped

bookingVars == <<events, departed, ops, now, moved, revived>>
vars == <<bookingVars, disturbed, trackingVars>>

Idle == [kind |-> "idle", pc |-> "idle", event |-> None, user |-> None,
         copy |-> None, removed |-> {}]
JobKind == {"check", "start", "end"}
Kind == {"create", "join", "withdraw", "update", "edit", "delete", "depart", "arrive"}
          \cup JobKind
Op == [kind : Kind,
       pc : {"conflict", "save", "delete"},
       event : Events, user : Users, copy : EventRow, removed : SUBSET Users]

-----------------------------------------------------------------------------
\* EventSchedule.create.
TrackingStart(t) == t + 1
EventTime(t) == t + 3
EndTime(t) == t + 4
TooSoon(t) == t <= now

\* A row is RECRUITING to the queries before and after its check.
IsRecruiting(r) == r # None /\ r.status \in {"RECRUITING", "CHECKED"}
IsActive(r) == IsRecruiting(r) \/ (r # None /\ r.status = "IN_PROGRESS")
MayChange(r) == r # None /\ r.status = "RECRUITING"

(***************************************************************************)
(* EventRepositoryImpl: the queries, and a save that overwrites the row    *)
(* and upserts the participants of the copy, with their status.            *)
(***************************************************************************)
FindRecurringEventCountByGroupId(g) ==
  Cardinality({e \in Events : IsRecruiting(events[e]) /\ events[e].group = g})

WithinLimitOrAt(g) == FindRecurringEventCountByGroupId(g) <= MaxRecruiting
WithinLimit(g) == FindRecurringEventCountByGroupId(g) < MaxRecruiting

OverlapAtStart(t, r) == t = r
Overlap(t, r) == ~(EndTime(r) <= TrackingStart(t) \/ TrackingStart(r) >= EndTime(t))
HasScheduleConflict(u, t, except) ==
  \E e \in Events \ {except} :
    /\ IsActive(events[e]) /\ u \in events[e].participants
    /\ Overlap(t, events[e].checkTime)

Saved(e, copy, removed) ==
  IF events[e] = None THEN copy
  ELSE LET staying == events[e].participants \ (copy.participants \cup removed) IN
       [copy EXCEPT !.participants = @ \cup staying,
                    !.underWay = @ \cup (events[e].underWay \cap staying)]

-----------------------------------------------------------------------------
InFlight == {s \in Slots : ops[s] # Idle}
Disturbs(others) == disturbed' = (disturbed \/ others # {})
Begin(s, op) ==
  /\ ops[s] = Idle /\ ops' = [ops EXCEPT ![s] = op]
  /\ Disturbs(InFlight \cup work)
Return(s) == ops' = [ops EXCEPT ![s] = Idle]
Throw(s) ==
  /\ Return(s)
  /\ UNCHANGED <<events, departed, now, moved, revived, disturbed, trackingVars>>
Unmoved == UNCHANGED <<events, departed, now, moved, revived, trackingVars>>

Holding(kind, pc, e, u, copy) ==
  [kind |-> kind, pc |-> pc, event |-> e, user |-> u, copy |-> copy, removed |-> {}]

\* An id nobody refers to stands for a new one.
EventOf(w) == IF w.do \in {"insert", "update"} THEN w.row.event ELSE w.event
FreshEvent(e) ==
  /\ events[e] = None /\ \A s \in Slots : ops[s].event # e
  /\ \A r \in trackings : r.event # e
  /\ \A w \in work : EventOf(w) # e

Init ==
  /\ events = [e \in Events |-> None] /\ departed = {}
  /\ ops = [s \in Slots |-> Idle] /\ now = 0 /\ moved = {} /\ revived = {}
  /\ disturbed = FALSE
  /\ TrackingInit

(***************************************************************************)
(* The use cases up to their first save.                                   *)
(***************************************************************************)
CreateCounts(s, e, g, u, t) ==
  /\ FreshEvent(e) /\ ~TooSoon(t) /\ WithinLimit(g)
  /\ Begin(s, Holding("create", "conflict", e, u,
       [group |-> g, creator |-> u, checkTime |-> t, status |-> "RECRUITING",
        participants |-> {u}, underWay |-> {}]))
  /\ Unmoved

JoinReads(s, e, u) ==
  /\ MayChange(events[e]) /\ u \notin events[e].participants
  /\ Begin(s, Holding("join", "conflict", e, u,
                      [events[e] EXCEPT !.participants = @ \cup {u}]))
  /\ Unmoved

\* hasScheduleConflict, of the user and the copy's times.
ConflictFree(s) ==
  /\ ops[s].pc = "conflict"
  /\ ~HasScheduleConflict(ops[s].user, ops[s].copy.checkTime, ops[s].event)
  /\ ops' = [ops EXCEPT ![s].pc = "save"]
  /\ UNCHANGED <<events, departed, now, moved, revived, disturbed, trackingVars>>
ConflictFound(s) ==
  /\ ops[s].pc = "conflict"
  /\ HasScheduleConflict(ops[s].user, ops[s].copy.checkTime, ops[s].event)
  /\ Throw(s)

WithdrawReads(s, e, u) ==
  /\ MayChange(events[e]) /\ u \in events[e].participants /\ u # events[e].creator
  /\ Begin(s, [Holding("withdraw", "save", e, u,
                 [events[e] EXCEPT !.participants = @ \ {u}, !.underWay = @ \ {u}])
               EXCEPT !.removed = {u}])
  /\ Unmoved

\* UpdateEventUseCase with a new time: nobody but the creator stays, and nobody
\* asks whether the new time suits the creator.
UpdateReads(s, e, t) ==
  /\ MayChange(events[e]) /\ ~TooSoon(t)
  /\ LET u == events[e].creator IN
     Begin(s, [Holding("update", "save", e, u,
                 [events[e] EXCEPT !.checkTime = t, !.participants = {u},
                                   !.underWay = @ \cap {u}])
               EXCEPT !.removed = events[e].participants \ {u}])
  /\ Unmoved

\* UpdateEventUseCase with the time as it was: what it changes is left out
\* here, but all that was read is written back.
EditReads(s, e) ==
  /\ MayChange(events[e])
  /\ Begin(s, Holding("edit", "save", e, events[e].creator, events[e]))
  /\ Unmoved

DeleteReads(s, e) ==
  /\ MayChange(events[e])
  /\ Begin(s, Holding("delete", "delete", e, events[e].creator, events[e]))
  /\ Unmoved

(***************************************************************************)
(* The jobs of an event, and the requests of those on their way, up to     *)
(* their save.                                                             *)
(***************************************************************************)
IsInProgress(e) == events[e] # None /\ events[e].status = "IN_PROGRESS"

DueToCheck(e) ==
  events[e] # None /\ events[e].status = "RECRUITING" /\ now >= events[e].checkTime
DueToStart(e) ==
  /\ events[e] # None /\ events[e].status = "CHECKED"
  /\ now >= TrackingStart(events[e].checkTime)
DueToEnd(e) == IsInProgress(e) /\ now >= EndTime(events[e].checkTime)

JobReads(s, job, e, status) ==
  /\ Begin(s, Holding(job, "save", e, events[e].creator,
                      [events[e] EXCEPT !.status = status]))
  /\ Unmoved

HandleParticipantCheck(s, e) ==
  /\ DueToCheck(e)
  /\ JobReads(s, "check", e, IF Cardinality(events[e].participants) >= 2
                             THEN "CHECKED" ELSE "CANCELLED")
HandleLocationSharingStart(s, e) == DueToStart(e) /\ JobReads(s, "start", e, "IN_PROGRESS")
HandleEventEnd(s, e) == DueToEnd(e) /\ JobReads(s, "end", e, "ENDED")

DepartReads(s, e, u) ==
  /\ IsInProgress(e) /\ u \in events[e].participants \ events[e].underWay
  /\ Begin(s, Holding("depart", "save", e, u, [events[e] EXCEPT !.underWay = @ \cup {u}]))
  /\ Unmoved

\* Who arrives is under way as before.
ArriveReads(s, e, u) ==
  /\ IsInProgress(e) /\ u \in events[e].participants \cap events[e].underWay
  /\ Begin(s, Holding("arrive", "save", e, u, events[e]))
  /\ Unmoved

(***************************************************************************)
(* The saves, with the calls of the handlers, and the deletion.            *)
(***************************************************************************)
CallsHandlers(op) ==
  CASE op.kind = "depart" -> OnParticipantDeparted(op.event, op.user)
    [] op.kind = "end" -> OnEventEnded(op.event)
    [] OTHER -> UNCHANGED trackingVars

Save(s) ==
  LET op == ops[s] IN
  /\ op.pc = "save"
  /\ events' = [events EXCEPT ![op.event] = Saved(op.event, op.copy, op.removed)]
  /\ departed' = IF op.kind = "depart" THEN departed \cup {<<op.event, op.user>>}
                 ELSE departed
  /\ moved' = IF op.kind = "update" THEN moved \cup {op.event} ELSE moved
  /\ revived' = IF op.kind = "create" THEN revived \ {op.event}
                ELSE IF events[op.event] = None THEN revived \cup {op.event}
                ELSE revived
  /\ CallsHandlers(op)
  /\ Return(s)
  /\ UNCHANGED <<now, disturbed>>

\* The rows of an event go with it.
DeleteCommits(s) ==
  LET e == ops[s].event IN
  /\ ops[s].pc = "delete" /\ events[e] # None
  /\ events' = [events EXCEPT ![e] = None]
  /\ trackings' = {r \in trackings : r.event # e}
  /\ moved' = moved \ {e}
  /\ departed' = {d \in departed : d[1] # e}
  /\ Return(s)
  /\ UNCHANGED <<now, revived, disturbed, work>>
DeleteFails(s) == ops[s].pc = "delete" /\ events[ops[s].event] = None /\ Throw(s)

(***************************************************************************)
(* The work of the handlers, requests that move a position, faults, time.  *)
(***************************************************************************)
Handle(w) ==
  /\ \/ \E i \in RowIds : CreateChecks(w, i, IsInProgress(w.event))
     \/ SaveTracking(w, events[EventOf(w)] # None)
     \/ DeleteByEventId(w)
  /\ UNCHANGED <<bookingVars, disturbed>>

PatchLocation(r, p) ==
  /\ UpdateLocation(r, p)
  /\ Disturbs(InFlight \cup work)
  /\ UNCHANGED bookingVars

Crash ==
  /\ InFlight # {} \/ work # {}
  /\ ops' = [s \in Slots |-> Idle] /\ WorkIsLost /\ disturbed' = TRUE
  /\ UNCHANGED <<events, departed, now, moved, revived>>

\* Jobs run and handlers are done before the next tick.
Tick ==
  /\ now < MaxTime /\ work = {}
  /\ \A e \in Events : ~DueToCheck(e) /\ ~DueToStart(e) /\ ~DueToEnd(e)
  /\ now' = now + 1
  /\ UNCHANGED <<events, departed, ops, moved, revived, disturbed, trackingVars>>

(***************************************************************************)
(* The endpoints of UserEventController and LocationTrackingController.    *)
(***************************************************************************)
CreateEvent(s) == \E e \in Events, g \in Groups, u \in Users, t \in CheckTimes :
                    CreateCounts(s, e, g, u, t)
JoinEvent(s) == \E e \in Events, u \in Users : JoinReads(s, e, u)
WithdrawEvent(s) == \E e \in Events, u \in Users : WithdrawReads(s, e, u)
UpdateEvent(s) == \E e \in Events, t \in CheckTimes : UpdateReads(s, e, t)
DeleteEvent(s) == \E e \in Events : DeleteReads(s, e)
EditEvent(s) == \E e \in Events : EditReads(s, e)
DepartEvent(s) == \E e \in Events, u \in Users : DepartReads(s, e, u)
ArriveEvent(s) == \E e \in Events, u \in Users : ArriveReads(s, e, u)
UpdateMyLocation == \E r \in trackings, p \in Positions : PatchLocation(r, p)

RunJob(s) == \E e \in Events : \/ HandleParticipantCheck(s, e)
                               \/ HandleLocationSharingStart(s, e)
                               \/ HandleEventEnd(s, e)
Next ==
  \/ \E s \in Slots : \/ CreateEvent(s) \/ JoinEvent(s) \/ WithdrawEvent(s)
                      \/ UpdateEvent(s) \/ EditEvent(s) \/ DeleteEvent(s)
                      \/ DepartEvent(s) \/ ArriveEvent(s) \/ RunJob(s)
                      \/ ConflictFree(s) \/ ConflictFound(s)
                      \/ Save(s) \/ DeleteCommits(s) \/ DeleteFails(s)
  \/ UpdateMyLocation
  \/ \E w \in work : Handle(w)
  \/ Crash \/ Tick
Spec == Init /\ [][Next]_vars

-----------------------------------------------------------------------------
TypeOK ==
  /\ events \in [Events -> EventRow \cup {None}]
  /\ departed \subseteq Events \X Users
  /\ ops \in [Slots -> Op \cup {Idle}]
  /\ now \in Nat /\ moved \subseteq Events /\ revived \subseteq Events
  /\ disturbed \in BOOLEAN
  /\ TrackingTypeOK

\* Nobody takes part in two events whose times overlap, unless he moved one of
\* them there himself: hasScheduleConflict is asked when creating and joining,
\* not when an event is given a new time (update-event.usecase.ts:62).
Busy(r) == TrackingStart(r.checkTime)..(EndTime(r.checkTime) - 1)
NoDoubleBooking ==
  ~disturbed => \A e, f \in Events : \A u \in Users :
    e # f /\ IsActive(events[e]) /\ IsActive(events[f])
      /\ u \in events[e].participants \cap events[f].participants
      /\ Busy(events[e]) \cap Busy(events[f]) # {}
    => \E m \in {e, f} \cap moved : events[m].creator = u

\* A row exists for each departure and for no event that is over, once the
\* handlers are done and unless something overlapped or was lost ("the row
\* exists" is how the specification tells a valid state).
TrackedWhileOnTheWay ==
  ~disturbed /\ work = {} =>
    /\ \A e \in Events : FindByEventId(e) # {} => IsInProgress(e)
    /\ \A d \in departed : IsInProgress(d[1]) => RowOf(d[1], d[2]) # {}

\* However updates, clean-up, deletions and restarts interleave, a row is one
\* of somebody who departed to that event, and there is one of each; unless a
\* save that had read the event before its deletion has brought the event
\* back, and with it what was on its way to the old one.
RowsAreOfDepartures ==
  /\ \A r \in trackings :
       r.event \notin revived => <<r.event, r.user>> \in departed
  /\ \A r, q \in trackings : r.event = q.event /\ r.user = q.user => r = q

\* A group has no more recruiting events than the limit; where creations, or
\* saves of what was read before, overlap, each request or job in flight but
\* one can add one above it, and no more however long they go on: nobody asks
\* again at the save (create-event.usecase.ts:72).
LimitIsKept ==
  \A g \in Groups :
    FindRecurringEventCountByGroupId(g)
      <= IF disturbed THEN MaxRecruiting + Cardinality(Slots) - 1 ELSE MaxRecruiting
=============================================================================
