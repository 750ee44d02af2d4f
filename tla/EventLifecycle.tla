--------------------------- MODULE EventLifecycle ---------------------------
(***************************************************************************)
(* The life of one event (src/module/event): the requests of its users,    *)
(* the delayed jobs that check, start and end it, the in-process registry  *)
(* of domain events, and faults.                                           *)
(*                                                                         *)
(* The process is single-threaded but every request awaits the database    *)
(* and the queue, so requests interleave at their awaits.  A request reads *)
(* the whole aggregate (findById), changes its own copy, and writes the    *)
(* whole copy back (save).  Between the two it is a record in "ops"; each  *)
(* action below runs from one await to the next, "pc" naming the call that *)
(* comes next.  A request that is refused changes nothing and is not a     *)
(* step.                                                                   *)
(***************************************************************************)
EXTENDS EventAggregate, DomainEvents, EventQueue

CONSTANTS
  CheckTimes, \* participant check times an event may be given
  MaxTime,    \* bound: the clock stops here
  MaxRows,    \* bound: participant rows ever created
  MaxRuns,    \* bound: how often end() runs
  Faults,     \* which faults may happen: subset of {"save", "ack", "crash"}
  MaxFaults,  \* bound: how many of them
  Prompt,     \* the clock waits for due jobs, requests and handlers
  Observed    \* domain events whose handlers are followed

ASSUME BoundsAreNumbers ==
  /\ CheckTimes \subseteq Nat
  /\ {MaxTime, MaxRows, MaxRuns, MaxFaults} \subseteq Nat
  /\ Prompt \in BOOLEAN
  /\ Faults \subseteq {"save", "ack", "crash"}

DomainEventType == {"EventCreated", "ParticipantsCheckPassed", "EventStarted",
                    "EventEnded", "EventCancelled", "ParticipantDeparted"}

\* The handlers of the other types notify users and keep location tracking;
\* they change nothing here, and an instance may leave them out.
ASSUME SchedulersAreObserved ==
  /\ {"ParticipantsCheckPassed", "EventStarted"} \subseteq Observed
  /\ Observed \subseteq DomainEventType

VARIABLES
  db,      \* the event with its participants and results, or None
  ops,     \* the requests in flight
  nextRow, \* the next participant id
  nextRun, \* the next result batch
  faults   \* faults so far

queueVars == <<now, jobs>>
countVars == <<nextRow, nextRun, faults>>
vars == <<db, ops, countVars, queueVars, registryVars>>

Request == {"create", "join", "withdraw", "leave", "update", "reschedule",
            "delete", "depart", "arrive"}
Pc == {"schedule", "apply", "unschedule", "save", "delete", "withdraw",
       "rollback", "restore"}

DomainEvent == [type : DomainEventType, at : Nat]
Handled == [type : Observed, at : Nat]
Announcing(type) == [type |-> type, at |-> 0]
AnnouncingAt(type, at) == [type |-> type, at |-> at]

\* A request: its copy of the event, the participant ids it has removed from
\* the copy, and the instant that belongs to it: that of the running job, or
\* the check time a failed reschedule goes back to.
Idle == [kind |-> "idle", pc |-> "idle", user |-> Creator, at |-> 0,
         event |-> None, removed |-> {}]
Op == [kind : Request \cup JobName, pc : Pc, user : Users, at : Nat,
       event : Event, removed : SUBSET Nat]

Holding(kind, pc, e) == [Idle EXCEPT !.kind = kind, !.pc = pc, !.event = e]

At(s, pc)     == ops[s].pc = pc
Begin(s, op)  == ops[s] = Idle /\ ops' = [ops EXCEPT ![s] = op]
Goto(s, pc)   == ops' = [ops EXCEPT ![s].pc = pc]
Return(s)     == ops' = [ops EXCEPT ![s] = Idle]
Throw(s)      == Return(s) /\ Forget(s)

Fault(f) == f \in Faults /\ faults < MaxFaults /\ faults' = faults + 1

Init ==
  /\ db = None
  /\ ops = [s \in Slots |-> Idle]
  /\ nextRow = 0 /\ nextRun = 0 /\ faults = 0
  /\ QueueInit /\ RegistryInit

-----------------------------------------------------------------------------
(***************************************************************************)
(* The request reads the event and changes its copy.                       *)
(***************************************************************************)

\* CreateEventUseCase up to markAsCreated.  EventSchedule.create requires the
\* event to be more than 20 minutes away: its check lies in the future.
CreateBegins(s, t) ==
  /\ nextRow = 0 /\ t > now
  /\ Begin(s, Holding("create", "schedule", NewEvent(0, t)))
  /\ AddDomainEvent(s, Announcing("EventCreated"))
  /\ nextRow' = 1
  /\ UNCHANGED <<db, nextRun, faults, queueVars>>

JoinReads(s, u) ==
  /\ db # None /\ CanJoin(db, u)
  /\ nextRow < MaxRows
  /\ Begin(s, Holding("join", "save", AddParticipant(db, nextRow, u)))
  /\ nextRow' = nextRow + 1
  /\ UNCHANGED <<db, nextRun, faults, queueVars, registryVars>>

WithdrawReads(s, p) ==
  /\ db # None /\ CanWithdraw(db, p)
  /\ Begin(s, [Holding("withdraw", "save", RemoveParticipant(db, p))
               EXCEPT !.removed = {p.id}])
  /\ UNCHANGED <<db, countVars, queueVars, registryVars>>

\* LeaveGroupUseCase, the part that concerns the event: the member must not
\* have created it nor be in it once it is checked, and is withdrawn from it
\* by a delete of the user's rows, without the aggregate.
LeaveGroupReads(s, u) ==
  /\ db # None
  /\ db.status = "RECRUITING" /\ ~db.checked
  /\ u # Creator /\ u \in UsersOf(db)
  /\ Begin(s, [Holding("leave", "withdraw", db) EXCEPT !.user = u])
  /\ UNCHANGED <<db, countVars, queueVars, registryVars>>

\* UpdateEventUseCase without, then with, a new event time.
UpdateReads(s) ==
  /\ db # None /\ CanBeUpdated(db)
  /\ Begin(s, Holding("update", "save", db))
  /\ UNCHANGED <<db, countVars, queueVars, registryVars>>

RescheduleReads(s, t) ==
  /\ db # None /\ CanBeUpdated(db) /\ t > now
  /\ Begin(s, [Holding("reschedule", "unschedule", Rescheduled(db, t))
               EXCEPT !.at = db.checkTime, !.removed = Ids(DroppedBySchedule(db))])
  /\ UNCHANGED <<db, countVars, queueVars, registryVars>>

DeleteReads(s) ==
  /\ db # None /\ CanBeDeleted(db)
  /\ Begin(s, Holding("delete", "apply", db))
  /\ UNCHANGED <<db, countVars, queueVars, registryVars>>

DepartReads(s, p) ==
  /\ db # None /\ CanDepart(db, p)
  /\ Begin(s, Holding("depart", "save", DepartParticipant(db, p)))
  /\ AddDomainEvent(s, Announcing("ParticipantDeparted"))
  /\ UNCHANGED <<db, countVars, queueVars>>

\* A caller more than 50 m away is refused, which is not a step.
ArriveReads(s, p) ==
  /\ db # None /\ CanArrive(db, p)
  /\ Begin(s, Holding("arrive", "save", ArriveParticipant(db, p)))
  /\ UNCHANGED <<db, countVars, queueVars, registryVars>>

-----------------------------------------------------------------------------
(***************************************************************************)
(* The calls in the middle of a request.                                   *)
(***************************************************************************)

\* JoinEventUseCase: the user takes part in another event at that time.
JoinConflicts(s) ==
  /\ ops[s].kind = "join" /\ At(s, "save")
  /\ Throw(s)
  /\ UNCHANGED <<db, countVars, queueVars>>

LeaveGroupWithdraws(s) ==
  /\ At(s, "withdraw")
  /\ db' = IF db = None THEN None
           ELSE [db EXCEPT !.participants = {p \in @ : p.user # ops[s].user}]
  /\ Return(s)
  /\ UNCHANGED <<countVars, queueVars, registryVars>>

\* DeleteEventUseCase after its second await: markAsDeleted.
DeleteMarks(s) ==
  /\ ops[s].kind = "delete" /\ At(s, "apply")
  /\ Goto(s, "unschedule")
  /\ AddDomainEvent(s, Announcing("EventCancelled"))
  /\ UNCHANGED <<db, countVars, queueVars>>

\* cancelParticipantCheck before a delete or a reschedule.
Unschedule(s) ==
  /\ At(s, "unschedule")
  /\ \/ /\ CanRemove("PARTICIPANT_CHECK")
        /\ jobs' = WithoutJob("PARTICIPANT_CHECK")
        /\ Goto(s, IF ops[s].kind = "delete" THEN "delete" ELSE "schedule")
        /\ UNCHANGED registryVars
     \/ /\ ~CanRemove("PARTICIPANT_CHECK")
        /\ Throw(s)
        /\ UNCHANGED jobs
  /\ UNCHANGED <<db, countVars, now>>

\* scheduleParticipantCheck of a create or a reschedule.
ScheduleCheck(s) ==
  LET t == ops[s].event.checkTime IN
  /\ At(s, "schedule")
  /\ \/ /\ CanSchedule("PARTICIPANT_CHECK", t)
        /\ jobs' = WithJob("PARTICIPANT_CHECK", t)
        /\ Goto(s, "save")
        /\ UNCHANGED registryVars
     \/ /\ ~CanSchedule("PARTICIPANT_CHECK", t)
        /\ IF ops[s].kind = "create"
           THEN Throw(s)
           ELSE Goto(s, "restore") /\ UNCHANGED registryVars
        /\ UNCHANGED jobs
  /\ UNCHANGED <<db, countVars, now>>

\* The save of a create or a reschedule failed: the new job is cancelled.
Rollback(s) ==
  /\ At(s, "rollback")
  /\ jobs' = IF CanRemove("PARTICIPANT_CHECK") THEN WithoutJob("PARTICIPANT_CHECK")
             ELSE jobs
  /\ IF ops[s].kind = "reschedule" /\ CanRemove("PARTICIPANT_CHECK")
     THEN Goto(s, "restore") /\ UNCHANGED registryVars
     ELSE Throw(s)
  /\ UNCHANGED <<db, countVars, now>>

\* The old check is put back if its time has not passed; the request throws.
Restore(s) ==
  /\ At(s, "restore")
  /\ jobs' = IF CanSchedule("PARTICIPANT_CHECK", ops[s].at)
             THEN WithJob("PARTICIPANT_CHECK", ops[s].at) ELSE jobs
  /\ Throw(s)
  /\ UNCHANGED <<db, countVars, now>>

-----------------------------------------------------------------------------
(***************************************************************************)
(* EventSchedulerService: the queue delivers a job, the handler reads the  *)
(* event, awaits the group's name, changes its copy and saves it.          *)
(***************************************************************************)

\* The guard each handler checks on the event it has just read.
Accepts(name) ==
  /\ db # None
  /\ name = "LOCATION_SHARING_START" => CanStart(db)
  /\ name = "END" => CanEnd(db)

\* The BullMQ worker runs one job at a time; Cloud Tasks calls are concurrent.
CanRun(j) ==
  /\ j \in jobs /\ Due(j)
  /\ Driver = "bullmq" => \A s \in Slots : ops[s].kind \notin JobName

JobReads(s, j) ==
  /\ CanRun(j) /\ Accepts(j.name)
  /\ Begin(s, [Holding(j.name, "apply", db) EXCEPT !.at = j.at])
  /\ jobs' = Activated(j)
  /\ UNCHANGED <<db, countVars, now, registryVars>>

JobIgnored(j) ==
  /\ CanRun(j) /\ ~Accepts(j.name)
  /\ jobs' = jobs \ {j}
  /\ UNCHANGED <<db, ops, countVars, now, registryVars>>

Applied(s, e) == ops' = [ops EXCEPT ![s].pc = "save", ![s].event = e]

CheckApplies(s) ==
  LET e == ops[s].event IN
  /\ ops[s].kind = "PARTICIPANT_CHECK" /\ At(s, "apply")
  /\ Applied(s, CheckParticipantsForStart(e))
  /\ \/ /\ e.status = "RECRUITING" /\ HasQuorum(e)
        /\ AddDomainEvent(s, AnnouncingAt("ParticipantsCheckPassed",
                                          TrackingStartTime(e)))
     \/ /\ e.status = "RECRUITING" /\ ~HasQuorum(e)
        /\ AddDomainEvent(s, Announcing("EventCancelled"))
     \/ e.status # "RECRUITING" /\ UNCHANGED registryVars
  /\ UNCHANGED <<db, countVars, queueVars>>

StartApplies(s) ==
  /\ ops[s].kind = "LOCATION_SHARING_START" /\ At(s, "apply")
  /\ Applied(s, Start(ops[s].event))
  /\ AddDomainEvent(s, AnnouncingAt("EventStarted", EndTime(ops[s].event)))
  /\ UNCHANGED <<db, countVars, queueVars>>

EndApplies(s) ==
  /\ ops[s].kind = "END" /\ At(s, "apply")
  /\ nextRun < MaxRuns
  /\ Applied(s, End(ops[s].event, nextRun))
  /\ AddDomainEvent(s, Announcing("EventEnded"))
  /\ nextRun' = nextRun + 1
  /\ UNCHANGED <<db, nextRow, faults, queueVars>>

-----------------------------------------------------------------------------
(***************************************************************************)
(* The database transaction that ends a request, and its failures.         *)
(***************************************************************************)

\* save(): the transaction, then the dispatch of the domain events.
Stored(s) ==
  /\ At(s, "save")
  /\ db' = Saved(db, ops[s].event, ops[s].removed)
  /\ DispatchEventsForAggregate(s, Handled)
  /\ Return(s)
  /\ UNCHANGED <<nextRow, nextRun, now>>

\* When the request is a job, its handler returns and the job is done.
Commit(s) ==
  /\ Stored(s)
  /\ jobs' = Finished(ops[s].kind, ops[s].at)
  /\ UNCHANGED faults

\* The acknowledgement of a job is lost: it will be delivered again.
CommitUnacknowledged(s) ==
  /\ ops[s].kind \in JobName
  /\ Fault("ack")
  /\ Stored(s)
  /\ jobs' = Deactivated(ops[s].kind)

SaveFails(s) ==
  /\ At(s, "save")
  /\ Fault("save")
  /\ IF ops[s].kind \in {"create", "reschedule"}
     THEN Goto(s, "rollback") /\ UNCHANGED registryVars
     ELSE Throw(s)
  /\ jobs' = Deactivated(ops[s].kind)
  /\ UNCHANGED <<db, nextRow, nextRun, now>>

\* delete(): the row must exist, else the transaction throws.
DeleteCommits(s) ==
  /\ At(s, "delete") /\ db # None
  /\ db' = None
  /\ DispatchEventsForAggregate(s, Handled)
  /\ Return(s)
  /\ UNCHANGED <<countVars, queueVars>>

DeleteFails(s) ==
  /\ At(s, "delete")
  /\ \/ db = None /\ UNCHANGED faults
     \/ Fault("save")
  /\ Throw(s)
  /\ UNCHANGED <<db, nextRow, nextRun, queueVars>>

\* The process restarts: requests, registry and pending handlers are gone.
Crash ==
  /\ Fault("crash")
  /\ ops' = [s \in Slots |-> Idle]
  /\ marked' = NoInstance
  /\ domainEvents' = [i \in Instances |-> {}]
  /\ deliveries' = {}
  /\ jobs' = Orphaned
  /\ UNCHANGED <<db, nextRow, nextRun, now>>

-----------------------------------------------------------------------------
(***************************************************************************)
(* Handlers of domain events, and the clock.                               *)
(***************************************************************************)

\* scheduleLocationSharingStart and scheduleEventEnd: an error is only logged.
ScheduledBy(d, name) ==
  jobs' = IF CanSchedule(name, d.at) THEN WithJob(name, d.at) ELSE jobs

CheckPassedHandled(d) ==
  /\ d.type = "ParticipantsCheckPassed"
  /\ ScheduledBy(d, "LOCATION_SHARING_START")

StartedHandled(d) ==
  /\ d.type = "EventStarted"
  /\ ScheduledBy(d, "END")

\* Notifications and location tracking: nothing of the event changes.
ElsewhereHandled(d) ==
  /\ d.type \notin {"ParticipantsCheckPassed", "EventStarted"}
  /\ UNCHANGED jobs

Handle(d) ==
  /\ d \in deliveries
  /\ deliveries' = deliveries \ {d}
  /\ CheckPassedHandled(d) \/ StartedHandled(d) \/ ElsewhereHandled(d)
  /\ UNCHANGED <<db, ops, countVars, now, marked, domainEvents>>

Quiet ==
  /\ \A s \in Slots : ops[s] = Idle
  /\ deliveries = {}
  /\ \A j \in jobs : ~Due(j)

Tick ==
  /\ now < MaxTime
  /\ Prompt => Quiet
  /\ now' = now + 1
  /\ UNCHANGED <<db, ops, countVars, jobs, registryVars>>

-----------------------------------------------------------------------------
Reads(s) ==
  \/ \E t \in CheckTimes : CreateBegins(s, t) \/ RescheduleReads(s, t)
  \/ \E u \in Users : JoinReads(s, u) \/ LeaveGroupReads(s, u)
  \/ UpdateReads(s) \/ DeleteReads(s)
  \/ db # None /\ \E p \in db.participants :
       WithdrawReads(s, p) \/ DepartReads(s, p) \/ ArriveReads(s, p)

Continues(s) ==
  \/ JoinConflicts(s) \/ LeaveGroupWithdraws(s) \/ DeleteMarks(s)
  \/ Unschedule(s) \/ ScheduleCheck(s) \/ Rollback(s) \/ Restore(s)
  \/ CheckApplies(s) \/ StartApplies(s) \/ EndApplies(s)
  \/ Commit(s) \/ DeleteCommits(s) \/ DeleteFails(s)

JobDelivered(j) == JobIgnored(j) \/ \E s \in Slots : JobReads(s, j)

Fails(s) == CommitUnacknowledged(s) \/ SaveFails(s)

Next ==
  \/ \E s \in Slots : Reads(s) \/ Continues(s) \/ Fails(s)
  \/ \E j \in jobs : JobDelivered(j)
  \/ \E d \in deliveries : Handle(d)
  \/ Crash
  \/ Tick

Spec == Init /\ [][Next]_vars

(***************************************************************************)
(* A request that has begun goes on, a handler that was called runs.  The  *)
(* clock and the queue do not depend on the requests, but with Prompt the  *)
(* clock waits for them and a job waits for a slot; both get their turn    *)
(* however many requests there are.                                        *)
(***************************************************************************)
Fairness ==
  /\ \A s \in Slots : WF_vars(Continues(s))
  /\ WF_vars(\E d \in deliveries : Handle(d))
  /\ \A name \in JobName :
       SF_vars(\E j \in jobs : j.name = name /\ JobDelivered(j))
  /\ SF_vars(Tick)

FairSpec == Spec /\ Fairness

-----------------------------------------------------------------------------
(***************************************************************************)
(* What is checked of it.                                                  *)
(***************************************************************************)

\* The shape of the state.
TypeOK ==
  /\ db \in Event \cup {None}
  /\ ops \in [Slots -> Op \cup {Idle}]
  /\ {nextRow, nextRun, faults, now} \subseteq Nat
  /\ jobs \subseteq Job
  /\ marked \in Instances \cup {NoInstance}
  /\ domainEvents \in [Instances -> SUBSET DomainEvent]
  /\ deliveries \subseteq DomainEvent

HasCreator(e) == \E p \in e.participants : p.user = Creator

\* removeParticipant, update and findWithdrawableEventIds all spare the
\* creator: however requests interleave, the event and every copy of it that
\* may yet be saved keep the creator's participation.
CreatorStays ==
  /\ db # None => HasCreator(db)
  /\ \A s \in Slots : ops[s] # Idle => HasCreator(ops[s].event)

\* end() makes the results in the same transaction as the status: an event
\* that is ENDED has a result for its creator at least, in the database and in
\* any copy of it, whatever stale copies were saved before or after.
EndedHasResults ==
  /\ db # None /\ db.status = "ENDED" => \E r \in db.results : r.user = Creator
  /\ \A s \in Slots : ops[s] # Idle /\ ops[s].event.status = "ENDED"
       => \E r \in ops[s].event.results : r.user = Creator

\* Attendance results are final (docs/features/event/SPEC.md:152): no save,
\* not even of a stale copy, changes or loses a result of an existing event.
ResultsAreFinal ==
  [][db # None /\ db' # None => db.results \subseteq db'.results]_vars

\* Every event there is: the saved one and the copies in flight.
Copies == (IF db = None THEN {} ELSE {db})
            \cup {ops[s].event : s \in {t \in Slots : ops[t] # Idle}}

\* The upserts of save() are keyed by row ids: within one event an id belongs to
\* one participant, and in all copies together a result key belongs to one
\* result, so no save merges two different rows into one.
KeysIdentifyRows ==
  /\ \A e \in Copies : \A p, q \in e.participants : p.id = q.id => p = q
  /\ \A e, f \in Copies : \A r \in e.results, n \in f.results :
       r.run = n.run /\ r.id = n.id => r = n

\* An instance in the registry has events to dispatch: a dispatch for the event
\* never picks up an empty instance in place of the one that has events.
MarkedHasEvents == marked # NoInstance => domainEvents[marked] # {}

\* An event only starts, and so only ends, after a check it passed with at
\* least MIN_PARTICIPANTS_FOR_START participants, who are still there.
StartedWithQuorum ==
  db # None /\ db.status \in {"IN_PROGRESS", "ENDED"}
    => db.checked /\ Cardinality(UsersOf(db)) >= MIN_PARTICIPANTS_FOR_START

\* A user takes part in an event once (ALREADY_PARTICIPATING).
OneParticipation ==
  db # None => \A p, q \in db.participants : p.user = q.user => p = q

\* An ended event has exactly one result for each participant, the one its
\* final status deserves, and no other.
AttendanceComplete ==
  db # None /\ db.status = "ENDED" =>
    /\ \A p \in db.participants : \E r \in db.results :
         r.user = p.user /\ r.result = MapParticipantStatusToResult(p.status)
    /\ Cardinality(db.results) = Cardinality(UsersOf(db))
    /\ \A r \in db.results : r.user \in UsersOf(db)

Pending(type) == \E d \in deliveries : d.type = type
Handling(kinds) == \E s \in Slots : ops[s].kind \in kinds

\* The chain that drives an event: whatever state it is in, the job or the
\* handler that takes it further exists.
ChainUnbroken ==
  db # None =>
    /\ db.status = "RECRUITING" /\ ~db.checked =>
         \/ Scheduled("PARTICIPANT_CHECK")
         \/ Handling({"reschedule", "delete"})
    /\ db.status = "RECRUITING" /\ db.checked =>
         Scheduled("LOCATION_SHARING_START") \/ Pending("ParticipantsCheckPassed")
    /\ db.status = "IN_PROGRESS" =>
         Scheduled("END") \/ Pending("EventStarted")

\* A status change of the saved event is announced to its handlers: the check
\* that passes, the cancellation, the start and the end each dispatch their
\* domain event with the commit.
Announced(type) == \E d \in deliveries' : d.type = type
ChangesAreAnnounced ==
  [][db # None /\ db' # None =>
       /\ ~db.checked /\ db'.checked /\ db'.status = "RECRUITING"
            => Announced("ParticipantsCheckPassed")
       /\ db.status # "CANCELLED" /\ db'.status = "CANCELLED"
            => Announced("EventCancelled")
       /\ db.status = "RECRUITING" /\ db'.status = "IN_PROGRESS"
            => Announced("EventStarted")
       /\ db.status = "IN_PROGRESS" /\ db'.status = "ENDED"
            => Announced("EventEnded")]_vars

\* The automatic transitions finish every event: once it exists it ends, is
\* cancelled or is deleted (docs/features/event/SPEC.md:5).
Settled == db = None \/ db.status \in {"ENDED", "CANCELLED"}
EventSettles == (db # None) ~> Settled

\* The end of an event is announced, so that attendance is pushed and the
\* location tracking is cleared (event-scheduler.service.ts:89).
EndIsAnnounced ==
  [][db # None /\ db' # None =>
       (db.status = "IN_PROGRESS" /\ db'.status = "ENDED"
          => Announced("EventEnded"))]_vars

\* The status goes from RECRUITING to IN_PROGRESS to ENDED, or from RECRUITING
\* to CANCELLED, never back (docs/features/event/SPEC.md:5).
StatusOrder == [RECRUITING |-> 0, IN_PROGRESS |-> 1, ENDED |-> 2, CANCELLED |-> 3]
StatusMovesForward ==
  [][db # None /\ db' # None
       => StatusOrder[db.status] <= StatusOrder[db'.status]]_vars

\* A participant is only recorded as arrived from the start of tracking to the
\* time of the event (docs/features/event/SPEC.md:7).
Arrived == {p.id : p \in {q \in db.participants : q.status = "ARRIVED"}}
ArrivedBefore == IF db = None THEN {} ELSE Arrived
ArrivalsInTime ==
  [][db' # None /\ ArrivedBefore # Arrived'
       => now \in TrackingStartTime(db') .. EventTime(db')]_vars

-----------------------------------------------------------------------------
(***************************************************************************)
(* One request at a time keeps the promise of EventPromise.                *)
(***************************************************************************)
PhaseOf ==
  IF db = None
  THEN IF nextRow = 0 \/ \E s \in Slots : ops[s].kind = "create"
       THEN "none" ELSE "gone"
  ELSE CASE db.status = "RECRUITING" /\ ~db.checked -> "recruiting"
         [] db.status = "RECRUITING" /\ db.checked  -> "checked"
         [] db.status = "IN_PROGRESS" -> "inProgress"
         [] db.status = "ENDED"       -> "ended"
         [] db.status = "CANCELLED"   -> "cancelled"

StandingOf ==
  [u \in Users |->
     IF db # None /\ u \in UsersOf(db)
     THEN (CHOOSE p \in db.participants : p.user = u).status ELSE "out"]

VerdictOf ==
  [u \in Users |->
     IF db # None /\ \E r \in db.results : r.user = u
     THEN (CHOOSE r \in db.results : r.user = u).result ELSE "none"]

Promise == INSTANCE EventPromise
             WITH phase <- PhaseOf, standing <- StandingOf, verdict <- VerdictOf

\* Requests that do not overlap, with any fault and any delay, take the event
\* only through the steps of EventPromise.
KeepsPromise == Promise!Spec
=============================================================================
