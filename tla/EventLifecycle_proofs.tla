------------------------ MODULE EventLifecycle_proofs ------------------------
(***************************************************************************)
(* Proofs about EventLifecycle, for every set of users, any number of      *)
(* requests in flight, either queue driver, any schedule and any faults.   *)
(***************************************************************************)
EXTENDS EventLifecycle, TLAPS

(***************************************************************************)
(* The domain methods and save() give events back.                         *)
(***************************************************************************)

\* Event.create with the creator as its only participant.
LEMMA NewEventType ==
  ASSUME NEW id \in Nat, NEW t \in Nat
  PROVE  NewEvent(id, t) \in Event
BY CreatorIsUser DEF NewEvent, Event, Participant, Result, EventStatus,
                     ParticipantStatus

\* addParticipant appends a row to the participants.
LEMMA AddParticipantType ==
  ASSUME NEW e \in Event, NEW id \in Nat, NEW u \in Users
  PROVE  AddParticipant(e, id, u) \in Event
BY DEF AddParticipant, Event, Participant, ParticipantStatus

\* removeParticipant removes one row.
LEMMA RemoveParticipantType ==
  ASSUME NEW e \in Event, NEW p
  PROVE  RemoveParticipant(e, p) \in Event
BY DEF RemoveParticipant, Event

\* update() with a new schedule.
LEMMA RescheduledType ==
  ASSUME NEW e \in Event, NEW t \in Nat
  PROVE  Rescheduled(e, t) \in Event
BY DEF Rescheduled, Event

\* depart() and arrive() rewrite one row.
LEMMA WithStatusType ==
  ASSUME NEW e \in Event, NEW p \in e.participants, NEW st \in ParticipantStatus
  PROVE  WithStatus(e, p, st) \in Event
BY DEF WithStatus, Event, Participant

\* checkParticipantsForStart changes the flag and the status.
LEMMA CheckType ==
  ASSUME NEW e \in Event
  PROVE  CheckParticipantsForStart(e) \in Event
BY DEF CheckParticipantsForStart, Event, EventStatus

\* start() changes the status.
LEMMA StartType == ASSUME NEW e \in Event PROVE Start(e) \in Event
BY DEF Start, Event, EventStatus

\* end() makes a result of each participant.
LEMMA EndType ==
  ASSUME NEW e \in Event, NEW run \in Nat
  PROVE  End(e, run) \in Event
<1>1. \A s \in ParticipantStatus : MapParticipantStatusToResult(s) \in AttendanceResult
  BY DEF MapParticipantStatusToResult, ParticipantStatus, AttendanceResult
<1>2. \A p \in e.participants : p \in Participant
  BY DEF Event
<1>3. ResultsOf(e, run) \subseteq Result
  BY <1>1, <1>2 DEF ResultsOf, Result, Participant
<1>. QED
  BY <1>3 DEF End, Event, EventStatus

\* save() merges the rows of a copy into the stored ones.
LEMMA SavedType ==
  ASSUME NEW stored \in Event \cup {None}, NEW e \in Event, NEW removed
  PROVE  Saved(stored, e, removed) \in Event
BY DEF Saved, Event

-----------------------------------------------------------------------------
(***************************************************************************)
(* Parts of the state keep their types.                                    *)
(***************************************************************************)
OpsType      == ops \in [Slots -> Op \cup {Idle}]
RegistryType == /\ marked \in Instances \cup {NoInstance}
                /\ domainEvents \in [Instances -> SUBSET DomainEvent]
                /\ deliveries \subseteq DomainEvent

\* A fresh request is well typed.
LEMMA HoldingType ==
  ASSUME NEW kind \in Request \cup JobName, NEW pc \in Pc, NEW e \in Event
  PROVE  Holding(kind, pc, e) \in Op
BY CreatorIsUser DEF Holding, Idle, Op

\* A request that is not idle is an Op.
LEMMA NotIdle ==
  ASSUME OpsType, NEW s \in Slots, ops[s] # Idle
  PROVE  ops[s] \in Op
BY DEF OpsType

\* A request whose next call is named is not idle.
LEMMA AtCall ==
  ASSUME OpsType, NEW s \in Slots, NEW pc \in Pc, At(s, pc)
  PROVE  ops[s] \in Op
BY NotIdle DEF At, Idle, Pc

LEMMA BeginType ==
  ASSUME OpsType, NEW s \in Slots, NEW op \in Op, Begin(s, op)
  PROVE  OpsType'
BY DEF OpsType, Begin

LEMMA GotoType ==
  ASSUME OpsType, NEW s \in Slots, NEW pc \in Pc, ops[s] \in Op, Goto(s, pc)
  PROVE  OpsType'
<1>1. [ops[s] EXCEPT !.pc = pc] \in Op
  BY DEF Op
<1>. QED
  BY <1>1 DEF OpsType, Goto

LEMMA ReturnType ==
  ASSUME OpsType, NEW s \in Slots, Return(s)
  PROVE  OpsType'
BY DEF OpsType, Return

LEMMA AppliedType ==
  ASSUME OpsType, NEW s \in Slots, ops[s] \in Op, NEW e \in Event, Applied(s, e)
  PROVE  OpsType'
<1>1. [[ops[s] EXCEPT !.pc = "save"] EXCEPT !.event = e] \in Op
  BY DEF Op, Pc
<1>. QED
  BY <1>1 DEF OpsType, Applied

LEMMA AddDomainEventType ==
  ASSUME RegistryType, NEW s \in Slots, NEW d \in DomainEvent, AddDomainEvent(s, d)
  PROVE  RegistryType'
BY DEF RegistryType, AddDomainEvent, Instances

LEMMA DispatchType ==
  ASSUME RegistryType, NEW s \in Slots, NEW handled,
         DispatchEventsForAggregate(s, handled)
  PROVE  RegistryType'
<1>1. CASE domainEvents[s] = {} \/ marked = NoInstance
  BY <1>1 DEF RegistryType, DispatchEventsForAggregate, Instances
<1>2. CASE ~(domainEvents[s] = {} \/ marked = NoInstance)
  <2>1. marked \in Instances
    BY <1>2 DEF RegistryType
  <2>. QED
    BY <1>2, <2>1 DEF RegistryType, DispatchEventsForAggregate, Instances
<1>. QED
  BY <1>1, <1>2

LEMMA ForgetType ==
  ASSUME RegistryType, NEW s \in Slots, Forget(s)
  PROVE  RegistryType'
BY DEF RegistryType, Forget, Instances

LEMMA RegistryUnchanged ==
  ASSUME RegistryType, UNCHANGED registryVars
  PROVE  RegistryType'
BY DEF RegistryType, registryVars

\* What a request adds to its instance is a domain event.
LEMMA AnnouncementType ==
  ASSUME NEW type \in DomainEventType, NEW at \in Nat
  PROVE  Announcing(type) \in DomainEvent /\ AnnouncingAt(type, at) \in DomainEvent
BY DEF Announcing, AnnouncingAt, DomainEvent

\* Whatever the queue is asked, it holds jobs.
LEMMA QueueType ==
  ASSUME jobs \subseteq Job, NEW name \in JobName, NEW at \in Nat, NEW any
  PROVE  /\ WithJob(name, at) \subseteq Job
         /\ WithoutJob(any) \subseteq Job
         /\ Finished(any, at) \subseteq Job
         /\ Deactivated(any) \subseteq Job
         /\ Orphaned \subseteq Job
         /\ \A j \in jobs : Activated(j) \subseteq Job
<1>1. \A j \in Job, b \in BOOLEAN : [j EXCEPT !.active = b] \in Job
  BY DEF Job
<1>2. WithJob(name, at) \subseteq Job
  <2>1. [name |-> name, at |-> at, active |-> FALSE] \in Job
    BY DEF Job
  <2>. QED
    BY <2>1 DEF WithJob
<1>3. WithoutJob(any) \subseteq Job /\ Finished(any, at) \subseteq Job
  BY DEF WithoutJob, Finished
<1>4. Deactivated(any) \subseteq Job
  BY <1>1 DEF Deactivated, Job
<1>5. Orphaned \subseteq Job
  BY <1>1 DEF Orphaned
<1>6. \A j \in jobs : Activated(j) \subseteq Job
  BY <1>1 DEF Activated
<1>. QED
  BY <1>2, <1>3, <1>4, <1>5, <1>6

-----------------------------------------------------------------------------
(***************************************************************************)
(* TypeOK is inductive.                                                    *)
(***************************************************************************)
DbType   == db \in Event \cup {None}
NumType  == nextRow \in Nat /\ nextRun \in Nat /\ faults \in Nat /\ now \in Nat
JobsType == jobs \subseteq Job

\* TypeOK by its parts.
LEMMA TypeParts == TypeOK <=> DbType /\ OpsType /\ NumType /\ JobsType /\ RegistryType
BY DEF TypeOK, DbType, OpsType, NumType, JobsType, RegistryType

\* The same in the next state.
LEMMA TypeAgain ==
  ASSUME DbType', OpsType', NumType', JobsType', RegistryType'
  PROVE  TypeOK'
BY DEF TypeOK, DbType, OpsType, NumType, JobsType, RegistryType

\* The parts a step leaves alone.
LEMMA Untouched ==
  /\ DbType /\ UNCHANGED db => DbType'
  /\ OpsType /\ UNCHANGED ops => OpsType'
  /\ JobsType /\ UNCHANGED jobs => JobsType'
  /\ NumType /\ UNCHANGED <<countVars, now>> => NumType'
  /\ RegistryType /\ UNCHANGED registryVars => RegistryType'
BY RegistryUnchanged DEF DbType, OpsType, JobsType, NumType, countVars

\* Save and dispatch, in both of its uses.
LEMMA StoredType ==
  ASSUME TypeOK, NEW s \in Slots, Stored(s)
  PROVE  DbType' /\ OpsType' /\ RegistryType' /\ ops[s] \in Op
<1>a. DbType /\ OpsType /\ RegistryType
  BY TypeParts
<1>1. ops[s] \in Op
  BY <1>a, AtCall DEF Stored, Pc
<1>2. ops[s].event \in Event
  BY <1>1 DEF Op
<1>3. DbType'
  BY <1>a, <1>2, SavedType DEF Stored, DbType
<1>4. OpsType'
  BY <1>a, ReturnType DEF Stored
<1>5. RegistryType'
  BY <1>a, DispatchType DEF Stored
<1>. QED
  BY <1>1, <1>3, <1>4, <1>5

\* The requests that read the event.
LEMMA ReadsType ==
  ASSUME TypeOK, NEW s \in Slots, Reads(s)
  PROVE  TypeOK'
<1>a. DbType /\ OpsType /\ NumType /\ JobsType /\ RegistryType
  BY TypeParts
<1>b. \A t \in CheckTimes : t \in Nat
  BY BoundsAreNumbers
<1>c. db # None => db \in Event
  BY <1>a DEF DbType
<1>1. ASSUME NEW t \in CheckTimes, CreateBegins(s, t)
      PROVE  TypeOK'
  <2>1. Holding("create", "schedule", NewEvent(0, t)) \in Op
    BY <1>b, HoldingType, NewEventType DEF Request, Pc
  <2>2. OpsType'
    BY <1>a, <1>1, <2>1, BeginType DEF CreateBegins
  <2>3. RegistryType'
    BY <1>a, <1>1, AddDomainEventType, AnnouncementType
    DEF CreateBegins, DomainEventType
  <2>4. NumType'
    BY <1>a, <1>1 DEF CreateBegins, NumType, countVars, queueVars
  <2>. QED
    BY <1>a, <1>1, <2>2, <2>3, <2>4, Untouched, TypeAgain DEF CreateBegins, queueVars
<1>2. ASSUME NEW u \in Users, JoinReads(s, u)
      PROVE  TypeOK'
  <2>1. Holding("join", "save", AddParticipant(db, nextRow, u)) \in Op
    BY <1>a, <1>2, <1>c, HoldingType, AddParticipantType DEF JoinReads, NumType, Request, Pc
  <2>2. OpsType'
    BY <1>a, <1>2, <2>1, BeginType DEF JoinReads
  <2>3. RegistryType'
    BY <1>a, <1>2, Untouched DEF JoinReads
  <2>4. NumType'
    BY <1>a, <1>2 DEF JoinReads, NumType, countVars, queueVars
  <2>. QED
    BY <1>a, <1>2, <2>2, <2>3, <2>4, Untouched, TypeAgain DEF JoinReads, queueVars
<1>3. ASSUME NEW p, WithdrawReads(s, p)
      PROVE  TypeOK'
  <2>1. [Holding("withdraw", "save", RemoveParticipant(db, p)) EXCEPT !.removed = {p.id}] \in Op
    <3>1. Holding("withdraw", "save", RemoveParticipant(db, p)) \in Op
      BY <1>3, <1>c, HoldingType, RemoveParticipantType DEF WithdrawReads, Request, Pc
    <3>2. p.id \in Nat
      BY <1>3, <1>c DEF WithdrawReads, CanWithdraw, Event, Participant
    <3>. QED
      BY <3>1, <3>2 DEF Op
  <2>2. OpsType'
    BY <1>a, <1>3, <2>1, BeginType DEF WithdrawReads
  <2>3. RegistryType'
    BY <1>a, <1>3, Untouched DEF WithdrawReads
  <2>4. NumType'
    BY <1>a, <1>3 DEF WithdrawReads, NumType, countVars, queueVars
  <2>. QED
    BY <1>a, <1>3, <2>2, <2>3, <2>4, Untouched, TypeAgain DEF WithdrawReads, queueVars
<1>4. ASSUME NEW u \in Users, LeaveGroupReads(s, u)
      PROVE  TypeOK'
  <2>1. [Holding("leave", "withdraw", db) EXCEPT !.user = u] \in Op
    <3>1. Holding("leave", "withdraw", db) \in Op
      BY <1>4, <1>c, HoldingType DEF LeaveGroupReads, Request, Pc
    <3>. QED
      BY <3>1 DEF Op
  <2>2. OpsType'
    BY <1>a, <1>4, <2>1, BeginType DEF LeaveGroupReads
  <2>3. RegistryType'
    BY <1>a, <1>4, Untouched DEF LeaveGroupReads
  <2>4. NumType'
    BY <1>a, <1>4 DEF LeaveGroupReads, NumType, countVars, queueVars
  <2>. QED
    BY <1>a, <1>4, <2>2, <2>3, <2>4, Untouched, TypeAgain DEF LeaveGroupReads, queueVars
<1>5. ASSUME UpdateReads(s)
      PROVE  TypeOK'
  <2>1. Holding("update", "save", db) \in Op
    BY <1>5, <1>c, HoldingType DEF UpdateReads, Request, Pc
  <2>2. OpsType'
    BY <1>a, <1>5, <2>1, BeginType DEF UpdateReads
  <2>3. RegistryType'
    BY <1>a, <1>5, Untouched DEF UpdateReads
  <2>4. NumType'
    BY <1>a, <1>5 DEF UpdateReads, NumType, countVars, queueVars
  <2>. QED
    BY <1>a, <1>5, <2>2, <2>3, <2>4, Untouched, TypeAgain DEF UpdateReads, queueVars
<1>6. ASSUME NEW t \in CheckTimes, RescheduleReads(s, t)
      PROVE  TypeOK'
  <2>1. [Holding("reschedule", "unschedule", Rescheduled(db, t))
           EXCEPT !.at = db.checkTime, !.removed = Ids(DroppedBySchedule(db))] \in Op
    <3>1. Holding("reschedule", "unschedule", Rescheduled(db, t)) \in Op
      BY <1>6, <1>b, <1>c, HoldingType, RescheduledType DEF RescheduleReads, Request, Pc
    <3>2. db.checkTime \in Nat /\ Ids(DroppedBySchedule(db)) \subseteq Nat
      BY <1>6, <1>c DEF RescheduleReads, Event, Participant, Ids, DroppedBySchedule
    <3>. QED
      BY <3>1, <3>2 DEF Op
  <2>2. OpsType'
    BY <1>a, <1>6, <2>1, BeginType DEF RescheduleReads
  <2>3. RegistryType'
    BY <1>a, <1>6, Untouched DEF RescheduleReads
  <2>4. NumType'
    BY <1>a, <1>6 DEF RescheduleReads, NumType, countVars, queueVars
  <2>. QED
    BY <1>a, <1>6, <2>2, <2>3, <2>4, Untouched, TypeAgain DEF RescheduleReads, queueVars
<1>7. ASSUME DeleteReads(s)
      PROVE  TypeOK'
  <2>1. Holding("delete", "apply", db) \in Op
    BY <1>7, <1>c, HoldingType DEF DeleteReads, Request, Pc
  <2>2. OpsType'
    BY <1>a, <1>7, <2>1, BeginType DEF DeleteReads
  <2>3. RegistryType'
    BY <1>a, <1>7, Untouched DEF DeleteReads
  <2>4. NumType'
    BY <1>a, <1>7 DEF DeleteReads, NumType, countVars, queueVars
  <2>. QED
    BY <1>a, <1>7, <2>2, <2>3, <2>4, Untouched, TypeAgain DEF DeleteReads, queueVars
<1>8. ASSUME NEW p, DepartReads(s, p)
      PROVE  TypeOK'
  <2>1. Holding("depart", "save", DepartParticipant(db, p)) \in Op
    BY <1>8, <1>c, HoldingType, WithStatusType
    DEF DepartReads, CanDepart, DepartParticipant, ParticipantStatus, Request, Pc
  <2>2. OpsType'
    BY <1>a, <1>8, <2>1, BeginType DEF DepartReads
  <2>3. RegistryType'
    BY <1>a, <1>8, AddDomainEventType, AnnouncementType
    DEF DepartReads, DomainEventType
  <2>4. NumType'
    BY <1>a, <1>8 DEF DepartReads, NumType, countVars, queueVars
  <2>. QED
    BY <1>a, <1>8, <2>2, <2>3, <2>4, Untouched, TypeAgain DEF DepartReads, queueVars
<1>9. ASSUME NEW p, ArriveReads(s, p)
      PROVE  TypeOK'
  <2>1. Holding("arrive", "save", ArriveParticipant(db, p)) \in Op
    BY <1>9, <1>c, HoldingType, WithStatusType
    DEF ArriveReads, CanArrive, ArriveParticipant, ParticipantStatus, Request, Pc
  <2>2. OpsType'
    BY <1>a, <1>9, <2>1, BeginType DEF ArriveReads
  <2>3. RegistryType'
    BY <1>a, <1>9, Untouched DEF ArriveReads
  <2>4. NumType'
    BY <1>a, <1>9 DEF ArriveReads, NumType, countVars, queueVars
  <2>. QED
    BY <1>a, <1>9, <2>2, <2>3, <2>4, Untouched, TypeAgain DEF ArriveReads, queueVars
<1>. QED
  BY <1>1, <1>2, <1>3, <1>4, <1>5, <1>6, <1>7, <1>8, <1>9 DEF Reads

\* The calls in the middle of a request, and those that end it.
LEMMA ContinuesType ==
  ASSUME TypeOK, NEW s \in Slots, Continues(s)
  PROVE  TypeOK'
<1>a. DbType /\ OpsType /\ NumType /\ JobsType /\ RegistryType
  BY TypeParts
<1>b. ASSUME ops[s] \in Op
      PROVE  /\ ops[s].event \in Event
             /\ ops[s].at \in Nat
             /\ ops[s].event.checkTime \in Nat
  BY <1>b DEF Op, Event
<1>c. ASSUME Throw(s) PROVE OpsType' /\ RegistryType'
  BY <1>a, <1>c, ReturnType, ForgetType DEF Throw
<1>1. ASSUME JoinConflicts(s) PROVE TypeOK'
  BY <1>a, <1>c, <1>1, Untouched, TypeAgain DEF JoinConflicts, queueVars
<1>2. ASSUME LeaveGroupWithdraws(s) PROVE TypeOK'
  <2>1. DbType'
    BY <1>a, <1>2 DEF LeaveGroupWithdraws, DbType, Event
  <2>2. OpsType'
    BY <1>a, <1>2, ReturnType DEF LeaveGroupWithdraws
  <2>. QED
    BY <1>a, <1>2, <2>1, <2>2, Untouched, TypeAgain DEF LeaveGroupWithdraws, queueVars
<1>3. ASSUME DeleteMarks(s) PROVE TypeOK'
  <2>1. OpsType'
    BY <1>a, <1>3, AtCall, GotoType DEF DeleteMarks, Pc
  <2>2. RegistryType'
    BY <1>a, <1>3, AddDomainEventType, AnnouncementType DEF DeleteMarks, DomainEventType
  <2>. QED
    BY <1>a, <1>3, <2>1, <2>2, Untouched, TypeAgain DEF DeleteMarks, queueVars
<1>4. ASSUME Unschedule(s) PROVE TypeOK'
  <2>1. ops[s] \in Op
    BY <1>a, <1>4, AtCall DEF Unschedule, Pc
  <2>2. OpsType' /\ RegistryType'
    BY <1>a, <1>c, <1>4, <2>1, GotoType, Untouched DEF Unschedule, Pc
  <2>3. JobsType'
    BY <1>a, <1>4, QueueType, Untouched DEF Unschedule, JobsType, JobName
  <2>. QED
    BY <1>a, <1>4, <2>2, <2>3, Untouched, TypeAgain DEF Unschedule
<1>5. ASSUME ScheduleCheck(s) PROVE TypeOK'
  <2>1. ops[s] \in Op
    BY <1>a, <1>5, AtCall DEF ScheduleCheck, Pc
  <2>2. OpsType' /\ RegistryType'
    BY <1>a, <1>c, <1>5, <2>1, GotoType, Untouched DEF ScheduleCheck, Pc
  <2>3. JobsType'
    BY <1>a, <1>b, <1>5, <2>1, QueueType, Untouched DEF ScheduleCheck, JobsType, JobName
  <2>. QED
    BY <1>a, <1>5, <2>2, <2>3, Untouched, TypeAgain DEF ScheduleCheck
<1>6. ASSUME Rollback(s) PROVE TypeOK'
  <2>1. ops[s] \in Op
    BY <1>a, <1>6, AtCall DEF Rollback, Pc
  <2>2. OpsType' /\ RegistryType'
    BY <1>a, <1>c, <1>6, <2>1, GotoType, Untouched DEF Rollback, Pc
  <2>3. JobsType'
    BY <1>a, <1>6, QueueType, Untouched DEF Rollback, JobsType, JobName
  <2>. QED
    BY <1>a, <1>6, <2>2, <2>3, Untouched, TypeAgain DEF Rollback
<1>7. ASSUME Restore(s) PROVE TypeOK'
  <2>1. ops[s] \in Op
    BY <1>a, <1>7, AtCall DEF Restore, Pc
  <2>2. JobsType'
    BY <1>a, <1>b, <1>7, <2>1, QueueType, Untouched DEF Restore, JobsType, JobName
  <2>. QED
    BY <1>a, <1>c, <1>7, <2>2, Untouched, TypeAgain DEF Restore
<1>8. ASSUME CheckApplies(s) PROVE TypeOK'
  <2>1. ops[s] \in Op /\ CheckParticipantsForStart(ops[s].event) \in Event
    BY <1>a, <1>b, <1>8, AtCall, CheckType DEF CheckApplies, Pc
  <2>2. OpsType'
    BY <1>a, <1>8, <2>1, AppliedType DEF CheckApplies
  <2>3. TrackingStartTime(ops[s].event) \in Nat
    BY <1>b, <2>1 DEF TrackingStartTime
  <2>4. RegistryType'
    BY <1>a, <1>8, <2>3, AddDomainEventType, AnnouncementType, Untouched
    DEF CheckApplies, DomainEventType
  <2>. QED
    BY <1>a, <1>8, <2>2, <2>4, Untouched, TypeAgain DEF CheckApplies, queueVars
<1>9. ASSUME StartApplies(s) PROVE TypeOK'
  <2>1. ops[s] \in Op /\ Start(ops[s].event) \in Event
    BY <1>a, <1>b, <1>9, AtCall, StartType DEF StartApplies, Pc
  <2>2. OpsType'
    BY <1>a, <1>9, <2>1, AppliedType DEF StartApplies
  <2>3. EndTime(ops[s].event) \in Nat
    BY <1>b, <2>1 DEF EndTime
  <2>4. RegistryType'
    BY <1>a, <1>9, <2>3, AddDomainEventType, AnnouncementType DEF StartApplies, DomainEventType
  <2>. QED
    BY <1>a, <1>9, <2>2, <2>4, Untouched, TypeAgain DEF StartApplies, queueVars
<1>10. ASSUME EndApplies(s) PROVE TypeOK'
  <2>1. ops[s] \in Op /\ End(ops[s].event, nextRun) \in Event
    BY <1>a, <1>b, <1>10, AtCall, EndType DEF EndApplies, Pc, NumType
  <2>2. OpsType'
    BY <1>a, <1>10, <2>1, AppliedType DEF EndApplies
  <2>3. RegistryType'
    BY <1>a, <1>10, AddDomainEventType, AnnouncementType DEF EndApplies, DomainEventType
  <2>4. NumType'
    BY <1>a, <1>10 DEF EndApplies, NumType, queueVars
  <2>. QED
    BY <1>a, <1>10, <2>2, <2>3, <2>4, Untouched, TypeAgain DEF EndApplies, queueVars
<1>11. ASSUME Commit(s) PROVE TypeOK'
  <2>1. DbType' /\ OpsType' /\ RegistryType' /\ ops[s] \in Op
    BY <1>11, StoredType DEF Commit
  <2>2. JobsType'
    BY <1>a, <1>b, <1>11, <2>1, QueueType DEF Commit, JobsType, JobName
  <2>3. NumType'
    BY <1>a, <1>11 DEF Commit, Stored, NumType
  <2>. QED
    BY <2>1, <2>2, <2>3, TypeAgain
<1>12. ASSUME DeleteCommits(s) PROVE TypeOK'
  <2>1. DbType'
    BY <1>12 DEF DeleteCommits, DbType
  <2>2. OpsType' /\ RegistryType'
    BY <1>a, <1>12, ReturnType, DispatchType DEF DeleteCommits
  <2>. QED
    BY <1>a, <1>12, <2>1, <2>2, Untouched, TypeAgain DEF DeleteCommits, queueVars
<1>13. ASSUME DeleteFails(s) PROVE TypeOK'
  <2>1. NumType'
    BY <1>a, <1>13 DEF DeleteFails, Fault, NumType, queueVars
  <2>. QED
    BY <1>a, <1>c, <1>13, <2>1, Untouched, TypeAgain DEF DeleteFails, queueVars
<1>. QED
  BY <1>1, <1>2, <1>3, <1>4, <1>5, <1>6, <1>7, <1>8, <1>9, <1>10, <1>11, <1>12, <1>13
  DEF Continues

\* The faults that hit a save.
LEMMA FailsType ==
  ASSUME TypeOK, NEW s \in Slots, Fails(s)
  PROVE  TypeOK'
<1>a. DbType /\ OpsType /\ NumType /\ JobsType /\ RegistryType
  BY TypeParts
<1>1. ASSUME CommitUnacknowledged(s) PROVE TypeOK'
  <2>1. DbType' /\ OpsType' /\ RegistryType'
    BY <1>1, StoredType DEF CommitUnacknowledged
  <2>2. JobsType'
    BY <1>a, <1>1, QueueType DEF CommitUnacknowledged, JobsType, JobName
  <2>3. NumType'
    BY <1>a, <1>1 DEF CommitUnacknowledged, Stored, Fault, NumType
  <2>. QED
    BY <2>1, <2>2, <2>3, TypeAgain
<1>2. ASSUME SaveFails(s) PROVE TypeOK'
  <2>1. ops[s] \in Op
    BY <1>a, <1>2, AtCall DEF SaveFails, Pc
  <2>2. OpsType' /\ RegistryType'
    BY <1>a, <1>2, <2>1, GotoType, ReturnType, ForgetType, Untouched
    DEF SaveFails, Throw, Pc
  <2>3. JobsType'
    BY <1>a, <1>2, QueueType DEF SaveFails, JobsType, JobName
  <2>4. NumType'
    BY <1>a, <1>2 DEF SaveFails, Fault, NumType
  <2>. QED
    BY <1>a, <1>2, <2>2, <2>3, <2>4, Untouched, TypeAgain DEF SaveFails
<1>. QED
  BY <1>1, <1>2 DEF Fails

\* The queue delivers a job.
LEMMA JobDeliveredType ==
  ASSUME TypeOK, NEW j \in jobs, JobDelivered(j)
  PROVE  TypeOK'
<1>a. DbType /\ OpsType /\ NumType /\ JobsType /\ RegistryType
  BY TypeParts
<1>b. j \in Job
  BY <1>a DEF JobsType
<1>1. ASSUME JobIgnored(j) PROVE TypeOK'
  <2>1. JobsType'
    BY <1>a, <1>1 DEF JobIgnored, JobsType
  <2>. QED
    BY <1>a, <1>1, <2>1, Untouched, TypeAgain DEF JobIgnored
<1>2. ASSUME NEW s \in Slots, JobReads(s, j) PROVE TypeOK'
  <2>1. Holding(j.name, "apply", db) \in Op
    BY <1>a, <1>b, <1>2, HoldingType DEF JobReads, Accepts, DbType, Job, Pc
  <2>2. [Holding(j.name, "apply", db) EXCEPT !.at = j.at] \in Op
    BY <1>b, <2>1 DEF Op, Job
  <2>3. OpsType'
    BY <1>a, <1>2, <2>2, BeginType DEF JobReads
  <2>4. JobsType'
    BY <1>a, <1>2, QueueType DEF JobReads, JobsType, JobName
  <2>. QED
    BY <1>a, <1>2, <2>3, <2>4, Untouched, TypeAgain DEF JobReads
<1>. QED
  BY <1>1, <1>2 DEF JobDelivered

\* A handler of a domain event runs.
LEMMA HandleType ==
  ASSUME TypeOK, NEW d \in deliveries, Handle(d)
  PROVE  TypeOK'
<1>a. DbType /\ OpsType /\ NumType /\ JobsType /\ RegistryType
  BY TypeParts
<1>1. d.at \in Nat
  BY <1>a DEF RegistryType, DomainEvent
<1>2. ASSUME NEW name \in JobName, ScheduledBy(d, name) PROVE JobsType'
  BY <1>a, <1>1, <1>2, QueueType DEF ScheduledBy, JobsType
<1>3. JobsType'
  BY <1>a, <1>2, Untouched
  DEF Handle, CheckPassedHandled, StartedHandled, ElsewhereHandled, JobName
<1>4. RegistryType'
  BY <1>a DEF Handle, RegistryType
<1>. QED
  BY <1>a, <1>3, <1>4, Untouched, TypeAgain DEF Handle

LEMMA CrashType ==
  ASSUME TypeOK, Crash
  PROVE  TypeOK'
<1>a. DbType /\ OpsType /\ NumType /\ JobsType /\ RegistryType
  BY TypeParts
<1>1. OpsType'
  BY DEF Crash, OpsType
<1>2. RegistryType'
  BY DEF Crash, RegistryType
<1>3. JobsType'
  BY <1>a, QueueType DEF Crash, JobsType, JobName
<1>4. NumType'
  BY <1>a DEF Crash, Fault, NumType
<1>. QED
  BY <1>a, <1>1, <1>2, <1>3, <1>4, Untouched, TypeAgain DEF Crash

LEMMA TickType ==
  ASSUME TypeOK, Tick
  PROVE  TypeOK'
<1>a. DbType /\ OpsType /\ NumType /\ JobsType /\ RegistryType
  BY TypeParts
<1>1. NumType'
  BY <1>a DEF Tick, NumType, countVars
<1>. QED
  BY <1>a, <1>1, Untouched, TypeAgain DEF Tick

LEMMA InitType == Init => TypeOK
BY DEF Init, QueueInit, RegistryInit, TypeOK

LEMMA TypeStep == TypeOK /\ [Next]_vars => TypeOK'
<1>. SUFFICES ASSUME TypeOK, [Next]_vars PROVE TypeOK'
  OBVIOUS
<1>1. CASE Next
  BY <1>1, ReadsType, ContinuesType, FailsType, JobDeliveredType, HandleType,
     CrashType, TickType
  DEF Next
<1>2. CASE UNCHANGED vars
  BY <1>2, TypeParts, Untouched, TypeAgain DEF vars, queueVars
<1>. QED
  BY <1>1, <1>2

\* The shape of the state holds in every run.
THEOREM TypeCorrect == Spec => []TypeOK
BY InitType, TypeStep, PTL DEF Spec

-----------------------------------------------------------------------------
(***************************************************************************)
(* What a step can do to the event and to the copies of it in flight.  The *)
(* invariants about copies need nothing else of the thirty actions.        *)
(***************************************************************************)
Others(s) == \A r \in Slots \ {s} : ops'[r] = ops[r]

\* The copy a request takes, changed by the domain method it calls at once.
FreshCopy(e) ==
  \/ \E t \in CheckTimes : nextRow = 0 /\ nextRow' = 1 /\ e = NewEvent(0, t)
  \/ /\ db # None
     /\ \/ e = db /\ nextRow' = nextRow
        \/ \E u \in Users : e = AddParticipant(db, nextRow, u) /\ nextRow' = nextRow + 1
        \/ \E p \in db.participants :
             p.user # Creator /\ e = RemoveParticipant(db, p) /\ nextRow' = nextRow
        \/ \E t \in CheckTimes : e = Rescheduled(db, t) /\ nextRow' = nextRow
        \/ \E p \in db.participants, st \in ParticipantStatus :
             e = WithStatus(db, p, st) /\ nextRow' = nextRow

Reading(s) ==
  /\ db' = db /\ Others(s) /\ nextRun' = nextRun
  /\ ops'[s] # Idle
  /\ FreshCopy(ops'[s].event)
  /\ ops'[s].pc = "withdraw" => ops'[s].user # Creator

\* The copy a job changes after its second await.
AppliedCopy(e, f) ==
  \/ f \in {CheckParticipantsForStart(e), Start(e)} /\ nextRun' = nextRun
  \/ f = End(e, nextRun) /\ nextRun' = nextRun + 1

Applying(s) ==
  /\ db' = db /\ Others(s) /\ nextRow' = nextRow
  /\ ops[s] # Idle /\ ops'[s] # Idle /\ ops'[s].pc = "save"
  /\ AppliedCopy(ops[s].event, ops'[s].event)

\* A request goes on with the copy it has, or ends.
Kept(s) ==
  \/ ops'[s] = Idle
  \/ /\ ops[s] # Idle /\ ops'[s] # Idle
     /\ ops'[s].event = ops[s].event /\ ops'[s].user = ops[s].user
     /\ ops'[s].pc = "withdraw" => ops[s].pc = "withdraw"

Counted == nextRow' = nextRow /\ nextRun' = nextRun
Waiting == db' = db /\ Counted /\ \A s \in Slots : Kept(s)

Ending(s) == ops[s] # Idle /\ Others(s) /\ ops'[s] = Idle /\ Counted
Saving(s) == Ending(s) /\ db' = Saved(db, ops[s].event, ops[s].removed)
Leaving(s) ==
  /\ Ending(s) /\ ops[s].pc = "withdraw"
  /\ db' = IF db = None THEN None
           ELSE [db EXCEPT !.participants = {p \in @ : p.user # ops[s].user}]
Deleting(s) == Ending(s) /\ db' = None

Shape ==
  \/ Waiting
  \/ \E s \in Slots : \/ Reading(s) \/ Applying(s) \/ Saving(s)
                      \/ Leaving(s) \/ Deleting(s)

LEMMA OpNotIdle == ASSUME NEW op \in Op PROVE op # Idle
<1>1. op.pc \in Pc
  BY DEF Op
<1>2. Idle.pc \notin Pc
  BY DEF Idle, Pc
<1>. QED
  BY <1>1, <1>2

\* Beginning, going on and ending, seen on the requests themselves.
LEMMA BeginShape ==
  ASSUME OpsType, NEW s \in Slots, NEW op, Begin(s, op)
  PROVE  Others(s) /\ ops'[s] = op
BY DEF OpsType, Begin, Others

LEMMA GotoShape ==
  ASSUME OpsType, NEW s \in Slots, NEW pc \in Pc \ {"withdraw"}, ops[s] \in Op,
         Goto(s, pc)
  PROVE  \A r \in Slots : Kept(r)
<1>1. ops'[s] = [ops[s] EXCEPT !.pc = pc] /\ \A r \in Slots \ {s} : ops'[r] = ops[r]
  BY DEF OpsType, Goto
<1>2. ops[s] # Idle /\ ops'[s] # Idle
  BY <1>1 DEF Op, Idle, Pc
<1>3. Kept(s)
  BY <1>1, <1>2 DEF Kept, Op
<1>. QED
  BY <1>1, <1>3 DEF Kept, OpsType

LEMMA ReturnShape ==
  ASSUME OpsType, NEW s \in Slots, Return(s)
  PROVE  /\ Others(s) /\ ops'[s] = Idle
         /\ \A r \in Slots : Kept(r)
BY DEF OpsType, Return, Others, Kept

LEMMA AppliedShape ==
  ASSUME OpsType, NEW s \in Slots, ops[s] \in Op, NEW e, Applied(s, e)
  PROVE  /\ Others(s) /\ ops[s] # Idle /\ ops'[s] # Idle
         /\ ops'[s].pc = "save" /\ ops'[s].event = e
<1>1. ops'[s] = [[ops[s] EXCEPT !.pc = "save"] EXCEPT !.event = e] /\ Others(s)
  BY DEF OpsType, Applied, Others
<1>2. ops'[s].pc = "save" /\ ops'[s].event = e
  BY <1>1 DEF Op
<1>3. ops[s] # Idle
  BY OpNotIdle
<1>4. ops'[s] # Idle
  BY <1>2 DEF Idle
<1>. QED
  BY <1>1, <1>2, <1>3, <1>4

\* A request that has just begun carries what it was given.
LEMMA HoldingShape ==
  ASSUME NEW kind, NEW pc, NEW e
  PROVE  /\ Holding(kind, pc, e).event = e
         /\ Holding(kind, pc, e).pc = pc
         /\ Holding(kind, pc, e) \in [kind : {kind}, pc : {pc}, user : {Creator},
                                      at : {0}, event : {e}, removed : {{}}]
BY DEF Holding, Idle

\* The requests that read the event take fresh copies of it.
LEMMA ReadsShape ==
  ASSUME TypeOK, NEW s \in Slots, Reads(s)
  PROVE  Reading(s)
<1>a. OpsType /\ NumType
  BY TypeParts
<1>1. ASSUME NEW t \in CheckTimes, CreateBegins(s, t) PROVE Reading(s)
  <2>1. Others(s) /\ ops'[s] = Holding("create", "schedule", NewEvent(0, t))
    BY <1>a, <1>1, BeginShape DEF CreateBegins
  <2>2. ops'[s].event = NewEvent(0, t) /\ ops'[s].pc = "schedule"
    BY <2>1, HoldingShape
  <2>3. ops'[s] # Idle
    BY <2>2 DEF Idle
  <2>. QED
    BY <1>1, <2>1, <2>2, <2>3 DEF CreateBegins, Reading, FreshCopy
<1>2. ASSUME NEW u \in Users, JoinReads(s, u) PROVE Reading(s)
  <2>1. Others(s) /\ ops'[s] = Holding("join", "save", AddParticipant(db, nextRow, u))
    BY <1>a, <1>2, BeginShape DEF JoinReads
  <2>2. ops'[s].event = AddParticipant(db, nextRow, u) /\ ops'[s].pc = "save"
    BY <2>1, HoldingShape
  <2>3. ops'[s] # Idle
    BY <2>2 DEF Idle
  <2>. QED
    BY <1>2, <2>1, <2>2, <2>3 DEF JoinReads, Reading, FreshCopy
<1>3. ASSUME NEW p \in db.participants, WithdrawReads(s, p) PROVE Reading(s)
  <2>1. /\ Others(s)
        /\ ops'[s] = [Holding("withdraw", "save", RemoveParticipant(db, p))
                      EXCEPT !.removed = {p.id}]
    BY <1>a, <1>3, BeginShape DEF WithdrawReads
  <2>2. ops'[s].event = RemoveParticipant(db, p) /\ ops'[s].pc = "save"
    BY <2>1 DEF Holding, Idle
  <2>3. ops'[s] # Idle
    BY <2>2 DEF Idle
  <2>. QED
    BY <1>3, <2>1, <2>2, <2>3
    DEF WithdrawReads, CanWithdraw, Reading, FreshCopy, countVars
<1>4. ASSUME NEW u \in Users, LeaveGroupReads(s, u) PROVE Reading(s)
  <2>1. Others(s) /\ ops'[s] = [Holding("leave", "withdraw", db) EXCEPT !.user = u]
    BY <1>a, <1>4, BeginShape DEF LeaveGroupReads
  <2>2. ops'[s].event = db /\ ops'[s].pc = "withdraw" /\ ops'[s].user = u
    BY <2>1 DEF Holding, Idle
  <2>3. ops'[s] # Idle
    BY <2>2 DEF Idle
  <2>. QED
    BY <1>4, <2>1, <2>2, <2>3 DEF LeaveGroupReads, Reading, FreshCopy, countVars
<1>5. ASSUME UpdateReads(s) PROVE Reading(s)
  <2>1. Others(s) /\ ops'[s] = Holding("update", "save", db)
    BY <1>a, <1>5, BeginShape DEF UpdateReads
  <2>2. ops'[s].event = db /\ ops'[s].pc = "save"
    BY <2>1, HoldingShape
  <2>3. ops'[s] # Idle
    BY <2>2 DEF Idle
  <2>. QED
    BY <1>5, <2>1, <2>2, <2>3 DEF UpdateReads, Reading, FreshCopy, countVars
<1>6. ASSUME NEW t \in CheckTimes, RescheduleReads(s, t) PROVE Reading(s)
  <2>1. /\ Others(s)
        /\ ops'[s] = [Holding("reschedule", "unschedule", Rescheduled(db, t))
             EXCEPT !.at = db.checkTime, !.removed = Ids(DroppedBySchedule(db))]
    BY <1>a, <1>6, BeginShape DEF RescheduleReads
  <2>2. ops'[s].event = Rescheduled(db, t) /\ ops'[s].pc = "unschedule"
    BY <2>1 DEF Holding, Idle
  <2>3. ops'[s] # Idle
    BY <2>2 DEF Idle
  <2>. QED
    BY <1>6, <2>1, <2>2, <2>3 DEF RescheduleReads, Reading, FreshCopy, countVars
<1>7. ASSUME DeleteReads(s) PROVE Reading(s)
  <2>1. Others(s) /\ ops'[s] = Holding("delete", "apply", db)
    BY <1>a, <1>7, BeginShape DEF DeleteReads
  <2>2. ops'[s].event = db /\ ops'[s].pc = "apply"
    BY <2>1, HoldingShape
  <2>3. ops'[s] # Idle
    BY <2>2 DEF Idle
  <2>. QED
    BY <1>7, <2>1, <2>2, <2>3 DEF DeleteReads, Reading, FreshCopy, countVars
<1>8. ASSUME NEW p \in db.participants, DepartReads(s, p) PROVE Reading(s)
  <2>1. Others(s) /\ ops'[s] = Holding("depart", "save", DepartParticipant(db, p))
    BY <1>a, <1>8, BeginShape DEF DepartReads
  <2>2. ops'[s].event = WithStatus(db, p, "DEPARTED") /\ ops'[s].pc = "save"
    BY <2>1, HoldingShape DEF DepartParticipant
  <2>3. ops'[s] # Idle
    BY <2>2 DEF Idle
  <2>. QED
    BY <1>8, <2>1, <2>2, <2>3
    DEF DepartReads, Reading, FreshCopy, countVars, ParticipantStatus
<1>9. ASSUME NEW p \in db.participants, ArriveReads(s, p) PROVE Reading(s)
  <2>1. Others(s) /\ ops'[s] = Holding("arrive", "save", ArriveParticipant(db, p))
    BY <1>a, <1>9, BeginShape DEF ArriveReads
  <2>2. ops'[s].event = WithStatus(db, p, "ARRIVED") /\ ops'[s].pc = "save"
    BY <2>1, HoldingShape DEF ArriveParticipant
  <2>3. ops'[s] # Idle
    BY <2>2 DEF Idle
  <2>. QED
    BY <1>9, <2>1, <2>2, <2>3
    DEF ArriveReads, Reading, FreshCopy, countVars, ParticipantStatus
<1>. QED
  BY <1>1, <1>2, <1>3, <1>4, <1>5, <1>6, <1>7, <1>8, <1>9 DEF Reads

\* The calls that follow.
LEMMA ContinuesShape ==
  ASSUME TypeOK, NEW s \in Slots, Continues(s)
  PROVE  Shape
<1>a. OpsType
  BY TypeParts
<1>b. ASSUME Throw(s) PROVE (\A r \in Slots : Kept(r)) /\ Others(s) /\ ops'[s] = Idle
  BY <1>a, <1>b, ReturnShape DEF Throw
<1>c. ASSUME NEW pc \in Pc, At(s, pc) PROVE ops[s] \in Op /\ ops[s] # Idle
  BY <1>a, <1>c, AtCall, OpNotIdle
<1>1. ASSUME JoinConflicts(s) PROVE Waiting
  BY <1>b, <1>1 DEF JoinConflicts, Waiting, Counted, countVars
<1>2. ASSUME LeaveGroupWithdraws(s) PROVE Leaving(s)
  BY <1>a, <1>c, <1>2, ReturnShape
  DEF LeaveGroupWithdraws, Leaving, Ending, Counted, countVars, At, Pc
<1>3. ASSUME DeleteMarks(s) PROVE Waiting
  BY <1>a, <1>c, <1>3, GotoShape DEF DeleteMarks, Waiting, Counted, countVars, Pc
<1>4. ASSUME Unschedule(s) PROVE Waiting
  BY <1>a, <1>b, <1>c, <1>4, GotoShape DEF Unschedule, Waiting, Counted, countVars, Pc
<1>5. ASSUME ScheduleCheck(s) PROVE Waiting
  BY <1>a, <1>b, <1>c, <1>5, GotoShape DEF ScheduleCheck, Waiting, Counted, countVars, Pc
<1>6. ASSUME Rollback(s) PROVE Waiting
  BY <1>a, <1>b, <1>c, <1>6, GotoShape DEF Rollback, Waiting, Counted, countVars, Pc
<1>7. ASSUME Restore(s) PROVE Waiting
  BY <1>b, <1>7 DEF Restore, Waiting, Counted, countVars
<1>8. ASSUME CheckApplies(s) PROVE Applying(s)
  <2>1. ops[s] \in Op
    BY <1>c, <1>8 DEF CheckApplies, Pc
  <2>. QED
    BY <1>a, <1>8, <2>1, AppliedShape DEF CheckApplies, Applying, AppliedCopy, countVars
<1>9. ASSUME StartApplies(s) PROVE Applying(s)
  <2>1. ops[s] \in Op
    BY <1>c, <1>9 DEF StartApplies, Pc
  <2>. QED
    BY <1>a, <1>9, <2>1, AppliedShape DEF StartApplies, Applying, AppliedCopy, countVars
<1>10. ASSUME EndApplies(s) PROVE Applying(s)
  <2>1. ops[s] \in Op
    BY <1>c, <1>10 DEF EndApplies, Pc
  <2>. QED
    BY <1>a, <1>10, <2>1, AppliedShape DEF EndApplies, Applying, AppliedCopy
<1>11. ASSUME Commit(s) PROVE Saving(s)
  BY <1>a, <1>c, <1>11, ReturnShape DEF Commit, Stored, Saving, Ending, Counted, Pc
<1>12. ASSUME DeleteCommits(s) PROVE Deleting(s)
  BY <1>a, <1>c, <1>12, ReturnShape
  DEF DeleteCommits, Deleting, Ending, Counted, countVars, Pc
<1>13. ASSUME DeleteFails(s) PROVE Waiting
  BY <1>b, <1>13 DEF DeleteFails, Waiting, Counted
<1>. QED
  BY <1>1, <1>2, <1>3, <1>4, <1>5, <1>6, <1>7, <1>8, <1>9, <1>10, <1>11, <1>12, <1>13
  DEF Continues, Shape

\* Every step has a shape.
LEMMA StepShape == TypeOK /\ [Next]_vars => Shape
<1>. SUFFICES ASSUME TypeOK, [Next]_vars PROVE Shape
  OBVIOUS
<1>a. OpsType
  BY TypeParts
<1>b. ASSUME ops' = ops PROVE \A r \in Slots : Kept(r)
  BY <1>a, <1>b, OpNotIdle DEF OpsType, Kept
<1>1. ASSUME NEW s \in Slots, Reads(s) PROVE Shape
  BY <1>1, ReadsShape DEF Shape
<1>2. ASSUME NEW s \in Slots, Continues(s) PROVE Shape
  BY <1>2, ContinuesShape
<1>3. ASSUME NEW s \in Slots, CommitUnacknowledged(s) PROVE Saving(s)
  BY <1>a, <1>3, AtCall, OpNotIdle, ReturnShape
  DEF CommitUnacknowledged, Stored, Saving, Ending, Counted, Pc
<1>4. ASSUME NEW s \in Slots, SaveFails(s) PROVE Waiting
  <2>1. ops[s] \in Op
    BY <1>a, <1>4, AtCall DEF SaveFails, Pc
  <2>2. \A r \in Slots : Kept(r)
    BY <1>a, <1>4, <2>1, GotoShape, ReturnShape DEF SaveFails, Throw, Pc
  <2>. QED
    BY <1>4, <2>2 DEF SaveFails, Waiting, Counted
<1>5. ASSUME NEW j \in jobs, JobIgnored(j) PROVE Waiting
  BY <1>b, <1>5 DEF JobIgnored, Waiting, Counted, countVars
<1>6. ASSUME NEW j \in jobs, NEW s \in Slots, JobReads(s, j) PROVE Reading(s)
  <2>1. Others(s) /\ ops'[s] = [Holding(j.name, "apply", db) EXCEPT !.at = j.at]
    BY <1>a, <1>6, BeginShape DEF JobReads
  <2>2. ops'[s].event = db /\ ops'[s].pc = "apply"
    BY <2>1 DEF Holding, Idle
  <2>3. ops'[s] # Idle
    BY <2>2 DEF Idle
  <2>. QED
    BY <1>6, <2>1, <2>2, <2>3 DEF JobReads, Accepts, Reading, FreshCopy, countVars
<1>7. ASSUME NEW d \in deliveries, Handle(d) PROVE Waiting
  BY <1>b, <1>7 DEF Handle, Waiting, Counted, countVars
<1>8. ASSUME Crash PROVE Waiting
  BY <1>8 DEF Crash, Waiting, Counted, Kept
<1>9. ASSUME Tick PROVE Waiting
  BY <1>b, <1>9 DEF Tick, Waiting, Counted, countVars
<1>10. ASSUME UNCHANGED vars PROVE Waiting
  BY <1>b, <1>10 DEF vars, Waiting, Counted, countVars
<1>. QED
  BY <1>1, <1>2, <1>3, <1>4, <1>5, <1>6, <1>7, <1>8, <1>9, <1>10
  DEF Next, Fails, JobDelivered, Shape

-----------------------------------------------------------------------------
(***************************************************************************)
(* The creator stays, and an ended event has results.                      *)
(***************************************************************************)

\* A request about to withdraw a member who leaves the group never withdraws
\* the creator.
SparesCreator == \A s \in Slots : ops[s].pc = "withdraw" => ops[s].user # Creator

HasResult(e) == \E r \in e.results : r.user = Creator
EndedHasResult(e) == e.status = "ENDED" => HasResult(e)

\* The invariants of single copies, in the form the proof uses.
GoodCopy(e)  == HasCreator(e) /\ EndedHasResult(e)
GoodCopies   == /\ db # None => GoodCopy(db)
                /\ \A s \in Slots : ops[s] # Idle => GoodCopy(ops[s].event)
CopyInv == GoodCopies /\ SparesCreator

LEMMA GoodCopiesMeans == GoodCopies <=> CreatorStays /\ EndedHasResults
BY DEF GoodCopies, GoodCopy, EndedHasResult, HasResult, CreatorStays, EndedHasResults

\* A fresh copy is as good as the event it was made from.
LEMMA FreshIsGood ==
  ASSUME TypeOK, GoodCopies, NEW e, FreshCopy(e)
  PROVE  GoodCopy(e)
<1>1. CASE \E t \in CheckTimes : e = NewEvent(0, t)
  <2>1. PICK t \in CheckTimes : e = NewEvent(0, t)
    BY <1>1
  <2>2. /\ e.participants = {[id |-> 0, user |-> Creator, status |-> "PREPARING"]}
        /\ e.status = "RECRUITING"
    BY <2>1 DEF NewEvent
  <2>3. HasCreator(e)
    BY <2>2 DEF HasCreator
  <2>. QED
    BY <2>2, <2>3 DEF GoodCopy, EndedHasResult
<1>2. CASE db # None /\ e = db
  BY <1>2 DEF GoodCopies
<1>3. ASSUME db # None, NEW u \in Users, e = AddParticipant(db, nextRow, u)
      PROVE  GoodCopy(e)
  BY <1>3 DEF GoodCopies, GoodCopy, HasCreator, EndedHasResult, HasResult,
              AddParticipant, TypeOK, Event
<1>4. ASSUME db # None, NEW p \in db.participants, p.user # Creator,
             e = RemoveParticipant(db, p)
      PROVE  GoodCopy(e)
  BY <1>4 DEF GoodCopies, GoodCopy, HasCreator, EndedHasResult, HasResult,
              RemoveParticipant, TypeOK, Event
<1>5. ASSUME db # None, NEW t \in CheckTimes, e = Rescheduled(db, t)
      PROVE  GoodCopy(e)
  BY <1>5 DEF GoodCopies, GoodCopy, HasCreator, EndedHasResult, HasResult,
              Rescheduled, DroppedBySchedule, TypeOK, Event
<1>6. ASSUME db # None, NEW p \in db.participants, NEW st \in ParticipantStatus,
             e = WithStatus(db, p, st)
      PROVE  GoodCopy(e)
  <2>1. db \in Event /\ GoodCopy(db)
    BY <1>6 DEF TypeOK, GoodCopies
  <2>2. [p EXCEPT !.status = st].user = p.user
    BY <2>1 DEF Event, Participant
  <2>3. /\ e.participants = (db.participants \ {p}) \cup {[p EXCEPT !.status = st]}
        /\ e.status = db.status /\ e.results = db.results
    BY <1>6, <2>1 DEF WithStatus, Event
  <2>. QED
    BY <2>1, <2>2, <2>3 DEF GoodCopy, HasCreator, EndedHasResult, HasResult
<1>. QED
  BY <1>1, <1>2, <1>3, <1>4, <1>5, <1>6 DEF FreshCopy

\* The automatic transitions keep a copy good; end() gives the creator a result.
LEMMA AppliedIsGood ==
  ASSUME NEW e \in Event, GoodCopy(e), NEW f, AppliedCopy(e, f)
  PROVE  GoodCopy(f)
<1>1. CASE f = CheckParticipantsForStart(e)
  BY <1>1 DEF CheckParticipantsForStart, GoodCopy, HasCreator, EndedHasResult,
              HasResult, Event
<1>2. CASE f = Start(e)
  BY <1>2 DEF Start, GoodCopy, HasCreator, EndedHasResult, Event
<1>3. CASE f = End(e, nextRun)
  <2>1. f.participants = e.participants /\ f.results = ResultsOf(e, nextRun)
    BY <1>3 DEF End, Event
  <2>2. PICK p \in e.participants : p.user = Creator
    BY DEF GoodCopy, HasCreator
  <2>3. [run |-> nextRun, id |-> p.id, user |-> p.user,
         result |-> MapParticipantStatusToResult(p.status)] \in f.results
    BY <2>1, <2>2 DEF ResultsOf
  <2>4. HasResult(f)
    BY <2>2, <2>3 DEF HasResult
  <2>. QED
    BY <2>1, <2>2, <2>4 DEF GoodCopy, HasCreator, EndedHasResult
<1>. QED
  BY <1>1, <1>2, <1>3 DEF AppliedCopy

\* save() keeps all that is in the copy it saves.
LEMMA SavedIsGood ==
  ASSUME NEW stored \in Event \cup {None}, NEW e \in Event, NEW removed, GoodCopy(e)
  PROVE  GoodCopy(Saved(stored, e, removed))
<1>1. /\ e.participants \subseteq Saved(stored, e, removed).participants
      /\ e.results \subseteq Saved(stored, e, removed).results
      /\ Saved(stored, e, removed).status = e.status
  BY DEF Saved, Event
<1>. QED
  BY <1>1 DEF GoodCopy, HasCreator, EndedHasResult, HasResult

LEMMA CopyStep == TypeOK /\ CopyInv /\ [Next]_vars => CopyInv'
<1>. SUFFICES ASSUME TypeOK, CopyInv, [Next]_vars PROVE CopyInv'
  OBVIOUS
<1>a. Shape
  BY StepShape
<1>b. \A s \in Slots : ops[s] # Idle => ops[s].event \in Event /\ GoodCopy(ops[s].event)
  BY DEF TypeOK, Op, CopyInv, GoodCopies
<1>c. db \in Event \cup {None} /\ (db # None => GoodCopy(db))
  BY DEF TypeOK, CopyInv, GoodCopies
<1>d. Idle.pc # "withdraw"
  BY DEF Idle
<1>1. CASE Waiting
  BY <1>1, <1>d DEF Waiting, Kept, CopyInv, GoodCopies, GoodCopy, HasCreator,
                    EndedHasResult, HasResult, SparesCreator
<1>2. ASSUME NEW s \in Slots, Reading(s) PROVE CopyInv'
  <2>1. GoodCopy(ops'[s].event)
    BY <1>2, FreshIsGood DEF Reading, CopyInv
  <2>. QED
    BY <1>2, <2>1 DEF Reading, Others, CopyInv, GoodCopies, GoodCopy, HasCreator,
                      EndedHasResult, HasResult, SparesCreator
<1>3. ASSUME NEW s \in Slots, Applying(s) PROVE CopyInv'
  <2>1. GoodCopy(ops'[s].event)
    BY <1>3, <1>b, AppliedIsGood DEF Applying
  <2>. QED
    BY <1>3, <2>1 DEF Applying, Others, CopyInv, GoodCopies, GoodCopy, HasCreator,
                      EndedHasResult, HasResult, SparesCreator
<1>4. ASSUME NEW s \in Slots, Ending(s), db' = None \/ GoodCopy(db') PROVE CopyInv'
  BY <1>4, <1>d DEF Ending, Others, CopyInv, GoodCopies, GoodCopy, HasCreator,
                    EndedHasResult, HasResult, SparesCreator
<1>5. ASSUME NEW s \in Slots, Saving(s) PROVE GoodCopy(db')
  BY <1>5, <1>b, <1>c, SavedIsGood DEF Saving, Ending
<1>6. ASSUME NEW s \in Slots, Leaving(s) PROVE db' = None \/ GoodCopy(db')
  <2>1. ops[s].user # Creator
    BY <1>6 DEF Leaving, CopyInv, SparesCreator
  <2>. QED
    BY <1>6, <1>c, <2>1 DEF Leaving, GoodCopy, HasCreator, EndedHasResult, HasResult, Event
<1>. QED
  BY <1>a, <1>1, <1>2, <1>3, <1>4, <1>5, <1>6 DEF Shape, Saving, Leaving, Deleting

LEMMA CopyInit == Init => CopyInv
BY DEF Init, CopyInv, GoodCopies, SparesCreator, Idle

LEMMA CopyCorrect == Spec => []CopyInv
<1>1. Spec => []TypeOK
  BY TypeCorrect
<1>2. TypeOK /\ CopyInv /\ [Next]_vars => CopyInv'
  BY CopyStep
<1>. QED
  BY <1>1, <1>2, CopyInit, PTL DEF Spec

\* However many requests interleave, fail or are retried, the creator's
\* participation is in the event and in every copy that may yet be saved.
THEOREM CreatorAlwaysStays == Spec => []CreatorStays
<1>1. CopyInv => CreatorStays
  BY GoodCopiesMeans DEF CopyInv
<1>. QED
  BY <1>1, CopyCorrect, PTL

\* However stale the copies are that are saved, an ended event has results.
THEOREM EndedAlwaysHasResults == Spec => []EndedHasResults
<1>1. CopyInv => EndedHasResults
  BY GoodCopiesMeans DEF CopyInv
<1>. QED
  BY <1>1, CopyCorrect, PTL

-----------------------------------------------------------------------------
(***************************************************************************)
(* Row ids and result keys are never reused, so results are final.         *)
(*                                                                         *)
(* KeysIdentifyRows is not inductive: a new row or batch must not collide  *)
(* with one that a copy still holds.  The strengthening bounds every id by *)
(* the counter that makes the next one.                                    *)
(***************************************************************************)
RowsOK(e) == /\ \A p, q \in e.participants : p.id = q.id => p = q
             /\ \A p \in e.participants : p.id < nextRow

SameKey(r, n) == r.run = n.run /\ r.id = n.id
Results == UNION {e.results : e \in Copies}
ResultsOK == /\ \A r, n \in Results : SameKey(r, n) => r = n
             /\ \A r \in Results : r.run < nextRun

KeyInv == (\A e \in Copies : RowsOK(e)) /\ ResultsOK

LEMMA KeyInvMeans == KeyInv => KeysIdentifyRows
BY DEF KeyInv, RowsOK, ResultsOK, Results, SameKey, KeysIdentifyRows

LEMMA CopyType == ASSUME TypeOK, NEW e \in Copies PROVE e \in Event
BY DEF TypeOK, Copies, Op

\* Each domain method keeps the ids of a copy distinct and below the counter.
LEMMA FreshRows ==
  ASSUME TypeOK, KeyInv, NEW e, FreshCopy(e)
  PROVE  RowsOK(e)'
<1>a. nextRow \in Nat
  BY DEF TypeOK
<1>b. db # None => db \in Event /\ RowsOK(db)
  BY DEF TypeOK, KeyInv, Copies
<1>1. CASE \E t \in CheckTimes : nextRow' = 1 /\ e = NewEvent(0, t)
  <2>1. e.participants = {[id |-> 0, user |-> Creator, status |-> "PREPARING"]}
    BY <1>1 DEF NewEvent
  <2>. QED
    BY <1>1, <2>1 DEF RowsOK
<1>2. CASE db # None /\ e = db /\ nextRow' = nextRow
  BY <1>2, <1>b DEF RowsOK
<1>3. ASSUME db # None, NEW u \in Users, e = AddParticipant(db, nextRow, u),
             nextRow' = nextRow + 1
      PROVE  RowsOK(e)'
  <2>1. /\ e.participants = db.participants
             \cup {[id |-> nextRow, user |-> u, status |-> "PREPARING"]}
        /\ \A p \in db.participants : p.id \in Nat /\ p.id < nextRow
        /\ \A p, q \in db.participants : p.id = q.id => p = q
    BY <1>3, <1>b DEF AddParticipant, RowsOK, Event, Participant
  <2>. QED
    BY <1>a, <1>3, <2>1 DEF RowsOK
<1>4. ASSUME db # None, nextRow' = nextRow, e.participants \subseteq db.participants
      PROVE  RowsOK(e)'
  BY <1>4, <1>b DEF RowsOK
<1>5. ASSUME db # None, NEW p \in db.participants, e = RemoveParticipant(db, p)
      PROVE  e.participants \subseteq db.participants
  BY <1>5, <1>b DEF RemoveParticipant, Event
<1>6. ASSUME db # None, NEW t \in CheckTimes, e = Rescheduled(db, t)
      PROVE  e.participants \subseteq db.participants
  BY <1>6, <1>b DEF Rescheduled, Event
<1>7. ASSUME db # None, NEW p \in db.participants, NEW st \in ParticipantStatus,
             e = WithStatus(db, p, st), nextRow' = nextRow
      PROVE  RowsOK(e)'
  <2>1. [p EXCEPT !.status = st].id = p.id
    BY <1>7, <1>b DEF Event, Participant
  <2>2. e.participants = (db.participants \ {p}) \cup {[p EXCEPT !.status = st]}
    BY <1>7, <1>b DEF WithStatus, Event
  <2>. QED
    BY <1>7, <1>b, <2>1, <2>2 DEF RowsOK
<1>. QED
  BY <1>1, <1>2, <1>3, <1>4, <1>5, <1>6, <1>7 DEF FreshCopy

LEMMA AppliedRows ==
  ASSUME NEW e \in Event, RowsOK(e), NEW f, AppliedCopy(e, f), nextRow' = nextRow
  PROVE  RowsOK(f)'
<1>1. f.participants = e.participants
  BY DEF AppliedCopy, CheckParticipantsForStart, Start, End, Event
<1>. QED
  BY <1>1 DEF RowsOK

LEMMA SavedRows ==
  ASSUME NEW stored \in Event \cup {None}, NEW e \in Event, NEW removed,
         stored # None => RowsOK(stored), RowsOK(e), nextRow' = nextRow
  PROVE  RowsOK(Saved(stored, e, removed))'
<1>1. CASE stored = None
  BY <1>1 DEF Saved, RowsOK
<1>2. CASE stored # None
  <2>1. Saved(stored, e, removed).participants =
          {p \in stored.participants : p.id \notin removed \cup Ids(e.participants)}
            \cup e.participants
    BY <1>2 DEF Saved, Event
  <2>2. \A p \in e.participants : p.id \in Ids(e.participants)
    BY DEF Ids
  <2>. QED
    BY <1>2, <2>1, <2>2 DEF RowsOK
<1>. QED
  BY <1>1, <1>2

\* The rows of every copy after a step.
LEMMA RowsStep ==
  ASSUME TypeOK, KeyInv, Shape
  PROVE  (\A e \in Copies : RowsOK(e))'
<1>a. \A e \in Copies : e \in Event /\ RowsOK(e)
  BY CopyType DEF KeyInv
<1>b. db \in Event \cup {None} /\ (db # None => RowsOK(db))
  BY <1>a DEF TypeOK, Copies
<1>c. \A s \in Slots : ops[s] # Idle => ops[s].event \in Event /\ RowsOK(ops[s].event)
  BY <1>a DEF Copies
<1>1. CASE Waiting
  BY <1>1, <1>b, <1>c DEF Waiting, Counted, Kept, Copies, RowsOK
<1>2. ASSUME NEW s \in Slots, Reading(s) PROVE (\A e \in Copies : RowsOK(e))'
  <2>1. RowsOK(ops[s].event)'
    BY <1>2, FreshRows DEF Reading, RowsOK
  <2>2. nextRow' >= nextRow /\ nextRow \in Nat /\ nextRow' \in Nat
    BY <1>2 DEF Reading, FreshCopy, TypeOK
  <2>3. \A e \in Copies : RowsOK(e)'
    BY <1>a, <2>2 DEF RowsOK, Event, Participant
  <2>. QED
    BY <1>2, <2>1, <2>3 DEF Reading, Others, Copies
<1>3. ASSUME NEW s \in Slots, Applying(s) PROVE (\A e \in Copies : RowsOK(e))'
  <2>1. RowsOK(ops[s].event)'
    BY <1>3, <1>c, AppliedRows DEF Applying, RowsOK
  <2>. QED
    BY <1>3, <1>b, <1>c, <2>1 DEF Applying, Others, Copies, RowsOK
<1>4. ASSUME NEW s \in Slots, Ending(s), db' = None \/ RowsOK(db)'
      PROVE  (\A e \in Copies : RowsOK(e))'
  BY <1>4, <1>c DEF Ending, Counted, Others, Copies, RowsOK
<1>5. ASSUME NEW s \in Slots, Saving(s) PROVE RowsOK(db)'
  BY <1>5, <1>b, <1>c, SavedRows DEF Saving, Ending, Counted, RowsOK
<1>6. ASSUME NEW s \in Slots, Leaving(s) PROVE db' = None \/ RowsOK(db)'
  BY <1>6, <1>b DEF Leaving, Ending, Counted, RowsOK, Event
<1>. QED
  BY <1>1, <1>2, <1>3, <1>4, <1>5, <1>6 DEF Shape, Saving, Leaving, Deleting

\* A batch of results has one result for each row, under keys never used before.
LEMMA BatchKeys ==
  ASSUME NEW e \in Event, RowsOK(e)
  PROVE  /\ \A r, n \in ResultsOf(e, nextRun) : SameKey(r, n) => r = n
         /\ \A r \in ResultsOf(e, nextRun) : r.run = nextRun
<1>. DEFINE result(p) == [run |-> nextRun, id |-> p.id, user |-> p.user,
                          result |-> MapParticipantStatusToResult(p.status)]
<1>1. ResultsOf(e, nextRun) = {result(p) : p \in e.participants}
  BY DEF ResultsOf
<1>2. \A p \in e.participants : result(p).run = nextRun /\ result(p).id = p.id
  OBVIOUS
<1>3. \A p, q \in e.participants : p.id = q.id => result(p) = result(q)
  BY DEF RowsOK
<1>. HIDE DEF result
<1>. QED
  BY <1>1, <1>2, <1>3 DEF SameKey

\* Without end(), a step adds no result to those there are.
LEMMA ResultsKept ==
  ASSUME TypeOK, Shape, nextRun' = nextRun
  PROVE  Results' \subseteq Results
<1>a. db # None => db \in Event /\ db \in Copies
  BY DEF TypeOK, Copies
<1>b. \A s \in Slots : ops[s] # Idle => ops[s].event \in Event /\ ops[s].event \in Copies
  BY DEF TypeOK, Copies, Op
<1>c. nextRun \in Nat
  BY DEF TypeOK
<1>1. SUFFICES ASSUME NEW f \in Copies', NEW r \in f.results
               PROVE  r \in Results
  BY DEF Results
<1>2. CASE f \in Copies
  BY <1>2 DEF Results
<1>3. ASSUME NEW e, FreshCopy(e), r \in e.results PROVE r \in Results
  <2>1. CASE \E t \in CheckTimes : e = NewEvent(0, t)
    BY <1>3, <2>1 DEF NewEvent
  <2>2. CASE db # None /\ e.results = db.results
    BY <1>3, <1>a, <2>2 DEF Results
  <2>3. ASSUME db # None PROVE
          /\ \A u \in Users : AddParticipant(db, nextRow, u).results = db.results
          /\ \A p \in db.participants : RemoveParticipant(db, p).results = db.results
          /\ \A t \in CheckTimes : Rescheduled(db, t).results = db.results
          /\ \A p \in db.participants, st \in ParticipantStatus :
               WithStatus(db, p, st).results = db.results
    BY <1>a, <2>3 DEF AddParticipant, RemoveParticipant, Rescheduled, WithStatus, Event
  <2>. QED
    BY <1>3, <2>1, <2>2, <2>3 DEF FreshCopy
<1>4. ASSUME NEW s \in Slots, Applying(s), f = ops'[s].event PROVE r \in Results
  <2>1. ops[s].event \in Event /\ ops[s].event \in Copies
    BY <1>4, <1>b DEF Applying
  <2>2. f \in {CheckParticipantsForStart(ops[s].event), Start(ops[s].event)}
    BY <1>4, <1>c DEF Applying, AppliedCopy
  <2>3. f.results = ops[s].event.results
    BY <2>1, <2>2 DEF CheckParticipantsForStart, Start, Event
  <2>. QED
    BY <2>1, <2>3 DEF Results
<1>5. ASSUME NEW s \in Slots, Saving(s), f = db' PROVE r \in Results
  <2>1. ops[s].event \in Event /\ ops[s].event \in Copies
    BY <1>5, <1>b DEF Saving, Ending
  <2>2. db # None => r \in db.results \/ r \in ops[s].event.results
    BY <1>5, <1>a, <2>1 DEF Saving, Saved, Event
  <2>3. db = None => r \in ops[s].event.results
    BY <1>5 DEF Saving, Saved
  <2>. QED
    BY <1>a, <2>1, <2>2, <2>3 DEF Results
<1>6. ASSUME NEW s \in Slots, Leaving(s), f = db', db' # None PROVE r \in Results
  <2>1. db # None /\ f.results = db.results
    BY <1>6, <1>a DEF Leaving, Event
  <2>. QED
    BY <1>a, <2>1 DEF Results
<1>7. CASE Waiting
  <2>1. f \in Copies
    BY <1>7 DEF Waiting, Kept, Copies
  <2>. QED
    BY <1>2, <2>1
<1>8. ASSUME NEW s \in Slots, Reading(s) PROVE r \in Results
  <2>1. f \in Copies \/ f = ops'[s].event
    BY <1>8 DEF Reading, Others, Copies
  <2>. QED
    BY <1>2, <1>3, <1>8, <2>1 DEF Reading
<1>9. ASSUME NEW s \in Slots, Applying(s) PROVE r \in Results
  <2>1. f \in Copies \/ f = ops'[s].event
    BY <1>9 DEF Applying, Others, Copies
  <2>. QED
    BY <1>2, <1>4, <1>9, <2>1
<1>10. ASSUME NEW s \in Slots, Ending(s) PROVE f \in Copies \/ (f = db' /\ db' # None)
  BY <1>10 DEF Ending, Others, Copies
<1>. QED
  BY <1>2, <1>5, <1>6, <1>7, <1>8, <1>9, <1>10 DEF Shape, Saving, Leaving, Deleting

\* When end() runs on the copy of request s, its batch is all that is new.
LEMMA ResultsAdded ==
  ASSUME TypeOK, NEW s \in Slots, Applying(s),
         ops'[s].event = End(ops[s].event, nextRun)
  PROVE  Results' \subseteq Results \cup ResultsOf(ops[s].event, nextRun)
<1>1. ops[s].event \in Event
  BY DEF TypeOK, Op, Applying
<1>2. End(ops[s].event, nextRun).results = ResultsOf(ops[s].event, nextRun)
  BY <1>1 DEF End, Event
<1>3. \A f \in Copies' : f \in Copies \/ f = ops'[s].event
  BY DEF Applying, Others, Copies
<1>. QED
  BY <1>2, <1>3 DEF Results

LEMMA ResultsStep ==
  ASSUME TypeOK, KeyInv, Shape
  PROVE  ResultsOK'
<1>a. nextRun \in Nat /\ nextRun' \in Nat /\ \A r \in Results : r.run \in Nat
  <2>1. \A e \in Copies : \A r \in e.results : r.run \in Nat
    BY CopyType DEF Event, Result
  <2>2. nextRun \in Nat
    BY DEF TypeOK
  <2>. QED
    BY <2>1, <2>2 DEF Results, Shape, Waiting, Counted, Reading, Applying,
                      AppliedCopy, Saving, Leaving, Deleting, Ending
<1>1. CASE nextRun' = nextRun
  BY <1>1, ResultsKept DEF KeyInv, ResultsOK
<1>2. ASSUME NEW s \in Slots, Applying(s), nextRun' = nextRun + 1,
             ops'[s].event = End(ops[s].event, nextRun)
      PROVE  ResultsOK'
  <2>. DEFINE batch == ResultsOf(ops[s].event, nextRun)
  <2>1. Results' \subseteq Results \cup batch
    BY <1>2, ResultsAdded
  <2>2. ops[s].event \in Event /\ RowsOK(ops[s].event)
    BY <1>2 DEF TypeOK, Op, Applying, KeyInv, Copies
  <2>3. /\ \A r, n \in batch : SameKey(r, n) => r = n
        /\ \A r \in batch : r.run = nextRun
    BY <2>2, BatchKeys
  <2>4. \A r \in Results, n \in batch : ~SameKey(r, n) /\ ~SameKey(n, r)
    BY <1>a, <2>3 DEF KeyInv, ResultsOK, SameKey
  <2>. HIDE DEF batch
  <2>. QED
    BY <1>a, <1>2, <2>1, <2>3, <2>4 DEF KeyInv, ResultsOK, SameKey
<1>. QED
  BY <1>1, <1>2 DEF Shape, Waiting, Counted, Reading, Applying, AppliedCopy, Saving,
                    Leaving, Deleting, Ending

LEMMA KeyStep == TypeOK /\ KeyInv /\ [Next]_vars => KeyInv'
<1>. SUFFICES ASSUME TypeOK, KeyInv, [Next]_vars PROVE KeyInv'
  OBVIOUS
<1>1. Shape
  BY StepShape
<1>2. (\A e \in Copies : RowsOK(e))'
  BY <1>1, RowsStep
<1>3. ResultsOK'
  BY <1>1, ResultsStep
<1>. QED
  BY <1>2, <1>3 DEF KeyInv

LEMMA KeyInit == Init => KeyInv
BY DEF Init, KeyInv, ResultsOK, Results, Copies

LEMMA KeyCorrect == Spec => []KeyInv
<1>1. TypeOK /\ KeyInv /\ [Next]_vars => KeyInv'
  BY KeyStep
<1>. QED
  BY <1>1, TypeCorrect, KeyInit, PTL DEF Spec

\* No save ever merges two rows or two results that are not the same one.
THEOREM KeysAlwaysIdentify == Spec => []KeysIdentifyRows
BY KeyCorrect, KeyInvMeans, PTL

\* Results of an existing event are never changed nor lost.
THEOREM ResultsStayFinal == Spec => ResultsAreFinal
<1>1. ASSUME TypeOK, KeyInv, [Next]_vars
      PROVE  [db # None /\ db' # None => db.results \subseteq db'.results]_vars
  <2>1. SUFFICES ASSUME db # None, db' # None, NEW r \in db.results
                 PROVE  r \in db'.results
    OBVIOUS
  <2>2. Shape
    BY <1>1, StepShape
  <2>3. db \in Event /\ db \in Copies
    BY <1>1, <2>1 DEF TypeOK, Copies
  <2>4. ASSUME NEW s \in Slots, Saving(s) PROVE r \in db'.results
    <3>1. ops[s].event \in Event /\ ops[s].event \in Copies
      BY <1>1, <2>4 DEF TypeOK, Op, Copies, Saving, Ending
    <3>2. db'.results = {x \in db.results : \A n \in ops[s].event.results :
                           <<n.run, n.id>> # <<x.run, x.id>>} \cup ops[s].event.results
      BY <2>1, <2>3, <2>4, <3>1 DEF Saving, Saved, Event
    <3>3. \A n \in ops[s].event.results : <<n.run, n.id>> = <<r.run, r.id>> => n = r
      BY <1>1, <2>3, <3>1 DEF KeyInv, ResultsOK, Results, SameKey
    <3>. QED
      BY <3>2, <3>3
  <2>5. ASSUME NEW s \in Slots, Leaving(s) PROVE r \in db'.results
    BY <2>1, <2>3, <2>5 DEF Leaving, Event
  <2>. QED
    BY <2>1, <2>2, <2>4, <2>5 DEF Shape, Waiting, Reading, Applying, Deleting
<1>. QED
  BY <1>1, TypeCorrect, KeyCorrect, PTL DEF Spec, ResultsAreFinal

-----------------------------------------------------------------------------
(***************************************************************************)
(* The registry.                                                           *)
(***************************************************************************)
Same == UNCHANGED <<marked, domainEvents>>

\* The registry changes by its four operations only.
LEMMA RegistryStep ==
  ASSUME TypeOK, Next
  PROVE  \/ Same \/ marked' = NoInstance
         \/ \E s \in Slots : \/ \E d \in DomainEvent : AddDomainEvent(s, d)
                             \/ DispatchEventsForAggregate(s, Handled)
                             \/ Forget(s)
<1>a. OpsType
  BY TypeParts
<1>1. ASSUME NEW s \in Slots, Reads(s)
      PROVE  Same \/ \E d \in DomainEvent : AddDomainEvent(s, d)
  BY <1>1, AnnouncementType
  DEF Reads, CreateBegins, JoinReads, WithdrawReads, LeaveGroupReads, UpdateReads,
      RescheduleReads, DeleteReads, DepartReads, ArriveReads, registryVars, Same,
      DomainEventType
<1>2. ASSUME NEW s \in Slots, Continues(s)
      PROVE  \/ Same \/ \E d \in DomainEvent : AddDomainEvent(s, d)
             \/ DispatchEventsForAggregate(s, Handled) \/ Forget(s)
  <2>1. CASE CheckApplies(s)
    <3>1. TrackingStartTime(ops[s].event) \in Nat
      BY <1>a, <2>1, AtCall DEF CheckApplies, TrackingStartTime, Op, Event, Pc
    <3>. QED
      BY <2>1, <3>1, AnnouncementType DEF CheckApplies, registryVars, Same, DomainEventType
  <2>2. CASE StartApplies(s)
    <3>1. EndTime(ops[s].event) \in Nat
      BY <1>a, <2>2, AtCall DEF StartApplies, EndTime, Op, Event, Pc
    <3>. QED
      BY <2>2, <3>1, AnnouncementType DEF StartApplies, DomainEventType
  <2>3. CASE EndApplies(s) \/ DeleteMarks(s)
    BY <2>3, AnnouncementType DEF EndApplies, DeleteMarks, DomainEventType
  <2>. QED
    BY <1>2, <2>1, <2>2, <2>3
    DEF Continues, JoinConflicts, LeaveGroupWithdraws, Unschedule, ScheduleCheck,
        Rollback, Restore, Commit, Stored, DeleteCommits, DeleteFails, Throw,
        registryVars, Same
<1>3. ASSUME NEW s \in Slots, Fails(s)
      PROVE  Same \/ DispatchEventsForAggregate(s, Handled) \/ Forget(s)
  BY <1>3 DEF Fails, CommitUnacknowledged, Stored, SaveFails, Throw, registryVars, Same
<1>4. ASSUME NEW j \in jobs, JobDelivered(j) PROVE Same
  BY <1>4 DEF JobDelivered, JobIgnored, JobReads, registryVars, Same
<1>5. ASSUME NEW d \in deliveries, Handle(d) PROVE Same
  BY <1>5 DEF Handle, Same
<1>6. ASSUME Crash PROVE marked' = NoInstance
  BY <1>6 DEF Crash
<1>7. ASSUME Tick PROVE Same
  BY <1>7 DEF Tick, registryVars, Same
<1>. QED
  BY <1>1, <1>2, <1>3, <1>4, <1>5, <1>6, <1>7 DEF Next

\* An instance waiting in the registry has events to dispatch.
THEOREM MarkedAlwaysHasEvents == Spec => []MarkedHasEvents
<1>1. Init => MarkedHasEvents
  BY DEF Init, RegistryInit, MarkedHasEvents
<1>2. ASSUME TypeOK, MarkedHasEvents, [Next]_vars PROVE MarkedHasEvents'
  <2>a. /\ marked \in Instances \cup {NoInstance} /\ NoInstance \notin Instances
        /\ domainEvents \in [Instances -> SUBSET DomainEvent]
    BY <1>2, InstanceNames DEF TypeOK
  <2>1. CASE Same \/ marked' = NoInstance
    BY <1>2, <2>1 DEF Same, MarkedHasEvents
  <2>2. ASSUME NEW s \in Slots, NEW d \in DomainEvent, AddDomainEvent(s, d)
        PROVE  MarkedHasEvents'
    BY <1>2, <2>a, <2>2 DEF AddDomainEvent, MarkedHasEvents, Instances
  <2>3. ASSUME NEW s \in Slots, DispatchEventsForAggregate(s, Handled)
        PROVE  MarkedHasEvents'
    BY <1>2, <2>a, <2>3 DEF DispatchEventsForAggregate, MarkedHasEvents, Instances
  <2>4. ASSUME NEW s \in Slots, Forget(s) PROVE MarkedHasEvents'
    BY <1>2, <2>a, <2>4 DEF Forget, MarkedHasEvents, Instances
  <2>5. CASE UNCHANGED vars
    BY <1>2, <2>5 DEF vars, registryVars, MarkedHasEvents
  <2>. QED
    BY <1>2, <2>1, <2>2, <2>3, <2>4, <2>5, RegistryStep
<1>. QED
  BY <1>1, <1>2, TypeCorrect, PTL DEF Spec
=============================================================================
