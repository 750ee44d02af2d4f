------------------------- MODULE EventSerial_proofs -------------------------
(***************************************************************************)
(* Proofs about EventLifecycle when its requests do not overlap, for every *)
(* set of users, either queue driver and any schedule.  The state of the   *)
(* event and the refinement of EventPromise hold with any delay and any    *)
(* fault.  Every change of status is announced if no transaction fails; if *)
(* some do, one announcement at most is lost, and never those of what      *)
(* finishes the event.  The chain of jobs needs that they are on time and  *)
(* nothing but an acknowledgement is lost.                                 *)
(***************************************************************************)
EXTENDS EventLifecycle_proofs, FiniteSetTheorems

\* At most one request or job is in flight.
NoOverlap == \A s, t \in Slots : ops[s] # Idle /\ ops[t] # Idle => s = t

\* The list of participants is still open.
Open(e) == e.status = "RECRUITING" /\ ~e.checked

OneRowEach(e) == \A p, q \in e.participants : p.user = q.user => p = q
TwoThere(e)   == \E p, q \in e.participants : p # q

\* What is true of the saved event, and of a copy when it is saved.
Sound(e) ==
  /\ IsFiniteSet(e.participants)
  /\ OneRowEach(e)
  /\ HasCreator(e)
  /\ e.status = "RECRUITING" => \A p \in e.participants : p.status = "PREPARING"
  /\ e.status # "RECRUITING" => e.checked
  /\ e.checked /\ e.status # "CANCELLED" => TwoThere(e)
  /\ e.status # "ENDED" => e.results = {}
  /\ e.status = "ENDED" => \E run \in Nat : e.results = ResultsOf(e, run)

\* The copy in flight is what its request makes of the event d that is saved
\* now: nothing has been saved since the request read it.
CreateInFlight(d, op) ==
  /\ op.kind = "create" /\ op.pc \in {"schedule", "save", "rollback"}
  /\ d = None /\ op.removed = {}
  /\ op.event = NewEvent(0, op.event.checkTime)

JoinInFlight(d, op) ==
  /\ op.kind = "join" /\ op.pc = "save" /\ op.removed = {}
  /\ Open(d)
  /\ \E u \in Users \ UsersOf(d), n \in Nat : op.event = AddParticipant(d, n, u)

WithdrawInFlight(d, op) ==
  /\ op.kind = "withdraw" /\ op.pc = "save"
  /\ Open(d)
  /\ \E p \in d.participants :
       /\ p.user # Creator
       /\ op.removed = {p.id}
       /\ op.event = RemoveParticipant(d, p)

LeaveInFlight(d, op) ==
  /\ op.kind = "leave" /\ op.pc = "withdraw"
  /\ Open(d) /\ op.user \in UsersOf(d) \ {Creator}

EditInFlight(d, op) ==
  /\ Open(d)
  /\ \/ op.kind = "update" /\ op.pc = "save" /\ op.removed = {} /\ op.event = d
     \/ /\ op.kind = "reschedule"
        /\ op.pc \in {"unschedule", "schedule", "save", "rollback", "restore"}
        /\ op.removed = Ids(DroppedBySchedule(d))
        /\ op.event = Rescheduled(d, op.event.checkTime)
     \/ op.kind = "delete" /\ op.pc \in {"apply", "unschedule", "delete"}

ProgressInFlight(d, op) ==
  /\ op.pc = "save" /\ op.removed = {}
  /\ d.status = "IN_PROGRESS"
  /\ \E p \in d.participants :
       \/ /\ op.kind = "depart" /\ p.status = "PREPARING"
          /\ op.event = WithStatus(d, p, "DEPARTED")
       \/ /\ op.kind = "arrive" /\ p.status = "DEPARTED"
          /\ op.event = WithStatus(d, p, "ARRIVED")

JobInFlight(d, op) ==
  /\ op.kind \in JobName /\ op.removed = {}
  /\ op.kind = "LOCATION_SHARING_START" => CanStart(d) /\ d.checked
  /\ op.kind = "END" => CanEnd(d)
  /\ \/ op.pc = "apply" /\ op.event = d
     \/ /\ op.pc = "save"
        /\ \/ op.kind = "PARTICIPANT_CHECK" /\ op.event = CheckParticipantsForStart(d)
           \/ op.kind = "LOCATION_SHARING_START" /\ op.event = Start(d)
           \/ op.kind = "END" /\ \E run \in Nat : op.event = End(d, run)

Derived(d, op) ==
  \/ CreateInFlight(d, op)
  \/ /\ d # None
     /\ \/ JoinInFlight(d, op) \/ WithdrawInFlight(d, op) \/ LeaveInFlight(d, op)
        \/ EditInFlight(d, op) \/ ProgressInFlight(d, op) \/ JobInFlight(d, op)

\* The requests that add domain events to their instance.
Announcers == {"create", "delete", "depart"} \cup JobName

\* The creation is to come or in flight.
NotYet == nextRow = 0 \/ Handling({"create"})

DbSound    == db # None => Sound(db) /\ ~NotYet
Counting   == Handling({"create"}) => nextRow # 0
OpsDerived == \A s \in Slots : ops[s] # Idle => Derived(db, ops[s])
FewAnnounce == \A s \in Slots : domainEvents[s] # {} => ops[s].kind \in Announcers

\* What starts the event only exists once the check has closed the list.
PassedIn(i) == \E d \in domainEvents[i] : d.type = "ParticipantsCheckPassed"
StartComesAfterCheck ==
  /\ Scheduled("LOCATION_SHARING_START") \/ Pending("ParticipantsCheckPassed")
       => ~NotYet /\ (db # None => db.checked)
  /\ NotYet => \A i \in Instances : ~PassedIn(i)

SerialInv ==
  TypeOK /\ DbSound /\ Counting /\ OpsDerived /\ FewAnnounce /\ StartComesAfterCheck

-----------------------------------------------------------------------------
(***************************************************************************)
(* What is saved when requests do not overlap.                             *)
(***************************************************************************)

\* The ways the saved event changes from d to e.
Changed(d, e) ==
  \/ e = d
  \/ Open(d) /\ \E u \in Users \ UsersOf(d), n \in Nat : e = AddParticipant(d, n, u)
  \/ Open(d) /\ \E p \in d.participants : p.user # Creator /\ e = RemoveParticipant(d, p)
  \/ Open(d) /\ \E t \in Nat : e = Rescheduled(d, t)
  \/ /\ d.status = "IN_PROGRESS"
     /\ \E p \in d.participants :
          \/ p.status = "PREPARING" /\ e = WithStatus(d, p, "DEPARTED")
          \/ p.status = "DEPARTED" /\ e = WithStatus(d, p, "ARRIVED")
  \/ e = CheckParticipantsForStart(d)
  \/ CanStart(d) /\ d.checked /\ e = Start(d)
  \/ CanEnd(d) /\ \E run \in Nat : e = End(d, run)

\* save() of a copy that covers every stored row stores the copy.
LEMMA SavedIsCopy ==
  ASSUME NEW d \in Event, NEW e \in Event, NEW removed,
         Ids(d.participants) \subseteq removed \cup Ids(e.participants),
         d.results \subseteq e.results
  PROVE  Saved(d, e, removed) = e
<1>1. {p \in d.participants : p.id \notin removed \cup Ids(e.participants)} = {}
  BY DEF Ids
<1>2. {r \in d.results : \A n \in e.results : <<n.run, n.id>> # <<r.run, r.id>>} = {}
  OBVIOUS
<1>3. d # None
  BY NoneIsNoEvent
<1>4. Saved(d, e, removed)
        = [e EXCEPT !.participants = e.participants, !.results = e.results]
  BY <1>1, <1>2, <1>3 DEF Saved
<1>. QED
  BY <1>4 DEF Event

\* A copy that is being saved covers every row, and is one of the changes.
LEMMA CopyIsChange ==
  ASSUME NEW d \in Event, NEW op \in Op, Derived(d, op), op.pc = "save", Sound(d)
  PROVE  Changed(d, op.event) /\ Saved(d, op.event, op.removed) = op.event
<1>a. op.event \in Event /\ op.event.checkTime \in Nat /\ d # None
  BY NoneIsNoEvent DEF Op, Event
<1>b. ASSUME Ids(d.participants) \subseteq op.removed \cup Ids(op.event.participants),
             d.results \subseteq op.event.results
      PROVE  Saved(d, op.event, op.removed) = op.event
  BY <1>a, <1>b, SavedIsCopy
<1>1. CASE JoinInFlight(d, op)
  <2>1. PICK u \in Users \ UsersOf(d), n \in Nat : op.event = AddParticipant(d, n, u)
    BY <1>1 DEF JoinInFlight
  <2>2. d.participants \subseteq op.event.participants /\ op.event.results = d.results
    BY <2>1 DEF AddParticipant, Event
  <2>. QED
    BY <1>1, <1>b, <2>1, <2>2 DEF JoinInFlight, Changed, Ids
<1>2. CASE WithdrawInFlight(d, op)
  <2>1. PICK p \in d.participants : /\ p.user # Creator
                                    /\ op.removed = {p.id}
                                    /\ op.event = RemoveParticipant(d, p)
    BY <1>2 DEF WithdrawInFlight
  <2>2. op.event.participants = d.participants \ {p} /\ op.event.results = d.results
    BY <2>1 DEF RemoveParticipant, Event
  <2>. QED
    BY <1>2, <1>b, <2>1, <2>2 DEF WithdrawInFlight, Changed, Ids
<1>3. CASE LeaveInFlight(d, op)
  BY <1>3 DEF LeaveInFlight
<1>4. CASE EditInFlight(d, op)
  <2>1. CASE op.removed = {} /\ op.event = d
    BY <1>b, <2>1 DEF Changed
  <2>2. CASE /\ op.removed = Ids(DroppedBySchedule(d))
             /\ op.event = Rescheduled(d, op.event.checkTime)
    <3>1. /\ op.event.participants = d.participants \ DroppedBySchedule(d)
          /\ op.event.results = d.results
      BY <2>2 DEF Rescheduled, Event
    <3>. QED
      BY <1>a, <1>4, <1>b, <2>2, <3>1 DEF EditInFlight, Changed, Ids
  <2>. QED
    BY <1>4, <2>1, <2>2 DEF EditInFlight
<1>5. CASE ProgressInFlight(d, op)
  <2>1. PICK p \in d.participants, st \in ParticipantStatus :
          op.event = WithStatus(d, p, st)
    BY <1>5 DEF ProgressInFlight, ParticipantStatus
  <2>2. /\ op.event.participants = (d.participants \ {p}) \cup {[p EXCEPT !.status = st]}
        /\ op.event.results = d.results
    BY <2>1 DEF WithStatus, Event
  <2>3. [p EXCEPT !.status = st].id = p.id
    BY DEF Event, Participant
  <2>. QED
    BY <1>5, <1>b, <2>2, <2>3 DEF ProgressInFlight, Changed, Ids
<1>6. CASE JobInFlight(d, op)
  <2>1. CASE op.event = CheckParticipantsForStart(d)
    <3>1. op.event.participants = d.participants /\ op.event.results = d.results
      BY <2>1 DEF CheckParticipantsForStart, Event
    <3>. QED
      BY <1>b, <2>1, <3>1 DEF Changed
  <2>2. CASE op.kind = "LOCATION_SHARING_START" /\ op.event = Start(d)
    <3>1. op.event.participants = d.participants /\ op.event.results = d.results
      BY <2>2 DEF Start, Event
    <3>. QED
      BY <1>6, <1>b, <2>2, <3>1 DEF Changed, JobInFlight
  <2>3. CASE op.kind = "END" /\ \E run \in Nat : op.event = End(d, run)
    <3>1. PICK run \in Nat : op.event = End(d, run)
      BY <2>3
    <3>2. op.event.participants = d.participants
      BY <3>1 DEF End, Event
    <3>3. d.results = {}
      BY <1>6, <2>3 DEF JobInFlight, CanEnd, Sound
    <3>. QED
      BY <1>6, <1>b, <2>3, <3>2, <3>3 DEF Changed, JobInFlight
  <2>. QED
    BY <1>6, <2>1, <2>2, <2>3 DEF JobInFlight
<1>. QED
  BY <1>a, <1>1, <1>2, <1>3, <1>4, <1>5, <1>6 DEF Derived, CreateInFlight

\* MIN_PARTICIPANTS_FOR_START participants are two of them.
LEMMA QuorumMeansTwo ==
  ASSUME NEW e \in Event, IsFiniteSet(e.participants)
  PROVE  HasQuorum(e) <=> TwoThere(e)
<1>. DEFINE S == e.participants
<1>0. Cardinality(S) \in Nat /\ IsFiniteSet(S)
  BY FS_CardinalityType
<1>1. ASSUME NEW p \in S, NEW q \in S, p # q PROVE Cardinality(S) >= 2
  <2>1. IsFiniteSet({p, q}) /\ Cardinality({p, q}) = 2
    <3>1. IsFiniteSet({p}) /\ Cardinality({p}) = 1
      BY FS_Singleton
    <3>2. IsFiniteSet({p} \cup {q}) /\ Cardinality({p} \cup {q}) = 1 + 1
      BY <1>1, <3>1, FS_AddElement
    <3>3. {p} \cup {q} = {p, q}
      OBVIOUS
    <3>. QED
      BY <3>2, <3>3
  <2>. QED
    BY <1>0, <2>1, FS_Subset
<1>2. ASSUME Cardinality(S) >= 2 PROVE \E p, q \in S : p # q
  <2>1. S # {}
    BY <1>0, <1>2, FS_EmptySet
  <2>2. PICK p \in S : TRUE
    BY <2>1
  <2>3. S # {p}
    BY <1>2, FS_Singleton
  <2>. QED
    BY <2>2, <2>3
<1>. QED
  BY <1>1, <1>2 DEF HasQuorum, TwoThere, MIN_PARTICIPANTS_FOR_START

\* An event that has just been made.
LEMMA NewIsSound == ASSUME NEW t \in Nat PROVE Sound(NewEvent(0, t))
<1>. DEFINE row == [id |-> 0, user |-> Creator, status |-> "PREPARING"]
            e == NewEvent(0, t)
<1>1. /\ e.participants = {row} /\ row.user = Creator /\ row.status = "PREPARING"
      /\ e.status = "RECRUITING" /\ ~e.checked /\ e.results = {}
  BY DEF NewEvent
<1>. HIDE DEF e, row
<1>2. IsFiniteSet(e.participants)
  BY <1>1, FS_Singleton
<1>3. Sound(e)
  BY <1>1, <1>2 DEF Sound, OneRowEach, HasCreator
<1>. QED
  BY <1>3 DEF e

\* Every change takes a sound event to a sound event.
LEMMA ChangeIsSound ==
  ASSUME NEW d \in Event, NEW e \in Event, Sound(d), Changed(d, e)
  PROVE  Sound(e)
<1>1. CASE e = d
  BY <1>1
<1>2. ASSUME Open(d), NEW u \in Users \ UsersOf(d), NEW n \in Nat,
             e = AddParticipant(d, n, u)
      PROVE  Sound(e)
  <2>. DEFINE row == [id |-> n, user |-> u, status |-> "PREPARING"]
  <2>1. /\ e.participants = d.participants \cup {row}
        /\ row.user = u /\ row.status = "PREPARING"
        /\ e.status = d.status /\ e.checked = d.checked /\ e.results = d.results
    BY <1>2 DEF AddParticipant, Event
  <2>. HIDE DEF row
  <2>2. IsFiniteSet(e.participants)
    BY <2>1, FS_AddElement DEF Sound
  <2>. QED
    BY <1>2, <2>1, <2>2 DEF Sound, Open, OneRowEach, HasCreator, UsersOf
<1>3. ASSUME Open(d), NEW p \in d.participants, p.user # Creator,
             e = RemoveParticipant(d, p)
      PROVE  Sound(e)
  <2>1. /\ e.participants = d.participants \ {p}
        /\ e.status = d.status /\ e.checked = d.checked /\ e.results = d.results
    BY <1>3 DEF RemoveParticipant, Event
  <2>2. IsFiniteSet(e.participants)
    BY <2>1, FS_Subset DEF Sound
  <2>. QED
    BY <1>3, <2>1, <2>2 DEF Sound, Open, OneRowEach, HasCreator
<1>4. ASSUME Open(d), NEW t \in Nat, e = Rescheduled(d, t)
      PROVE  Sound(e)
  <2>1. /\ e.participants = {p \in d.participants : p.user = Creator}
        /\ e.status = d.status /\ e.checked = d.checked /\ e.results = d.results
    BY <1>4 DEF Rescheduled, DroppedBySchedule, Event
  <2>2. IsFiniteSet(e.participants)
    BY <2>1, FS_Subset DEF Sound
  <2>. QED
    BY <1>4, <2>1, <2>2 DEF Sound, Open, OneRowEach, HasCreator
<1>5. ASSUME d.status = "IN_PROGRESS", NEW p \in d.participants,
             NEW st \in ParticipantStatus, e = WithStatus(d, p, st)
      PROVE  Sound(e)
  <2>. DEFINE q == [p EXCEPT !.status = st]
  <2>1. /\ e.participants = (d.participants \ {p}) \cup {q}
        /\ e.status = d.status /\ e.checked = d.checked /\ e.results = d.results
    BY <1>5 DEF WithStatus, Event
  <2>2. q.user = p.user
    BY DEF Event, Participant
  <2>. HIDE DEF q
  <2>3. IsFiniteSet(e.participants)
    <3>1. IsFiniteSet(d.participants \ {p})
      BY FS_Subset DEF Sound
    <3>. QED
      BY <2>1, <3>1, FS_AddElement
  <2>4. OneRowEach(e) /\ HasCreator(e)
    BY <2>1, <2>2 DEF Sound, OneRowEach, HasCreator
  <2>5. TwoThere(e)
    <3>1. PICK x, y \in d.participants : x # y
      BY <1>5 DEF Sound, TwoThere
    <3>2. \A z \in d.participants : z # p => z \in e.participants /\ z # q
      BY <2>1, <2>2 DEF Sound, OneRowEach
    <3>. QED
      BY <2>1, <3>1, <3>2 DEF TwoThere
  <2>. QED
    BY <1>5, <2>1, <2>3, <2>4, <2>5 DEF Sound
<1>6. CASE e = CheckParticipantsForStart(d)
  <2>1. CASE d.status # "RECRUITING"
    BY <1>6, <2>1 DEF CheckParticipantsForStart
  <2>2. CASE d.status = "RECRUITING"
    <3>1. /\ e.participants = d.participants /\ e.results = d.results /\ e.checked
          /\ e.status = IF HasQuorum(d) THEN "RECRUITING" ELSE "CANCELLED"
      BY <1>6, <2>2 DEF CheckParticipantsForStart, Event
    <3>2. HasQuorum(d) <=> TwoThere(d)
      BY QuorumMeansTwo DEF Sound
    <3>. QED
      BY <2>2, <3>1, <3>2 DEF Sound, OneRowEach, HasCreator, TwoThere
  <2>. QED
    BY <2>1, <2>2
<1>7. CASE CanStart(d) /\ d.checked /\ e = Start(d)
  <2>1. /\ e.participants = d.participants /\ e.results = d.results
        /\ e.checked = d.checked /\ e.status = "IN_PROGRESS"
    BY <1>7 DEF Start, Event
  <2>. QED
    BY <1>7, <2>1 DEF CanStart, Sound, OneRowEach, HasCreator, TwoThere
<1>8. ASSUME CanEnd(d), NEW run \in Nat, e = End(d, run)
      PROVE  Sound(e)
  <2>1. /\ e.participants = d.participants /\ e.results = ResultsOf(d, run)
        /\ e.checked = d.checked /\ e.status = "ENDED"
    BY <1>8 DEF End, Event
  <2>2. ResultsOf(e, run) = ResultsOf(d, run)
    BY <2>1 DEF ResultsOf
  <2>. QED
    BY <1>8, <2>1, <2>2 DEF CanEnd, Sound, OneRowEach, HasCreator, TwoThere
<1>. QED
  BY <1>1, <1>2, <1>3, <1>4, <1>5, <1>6, <1>7, <1>8 DEF Changed, ParticipantStatus

\* Leaving the group removes the one row of the user.
LEMMA LeavingIsChange ==
  ASSUME NEW d \in Event, NEW u, u \in UsersOf(d) \ {Creator}, Open(d), Sound(d)
  PROVE  Changed(d, [d EXCEPT !.participants = {p \in @ : p.user # u}])
<1>1. PICK p \in d.participants : p.user = u
  BY DEF UsersOf
<1>2. {q \in d.participants : q.user # u} = d.participants \ {p}
  BY <1>1 DEF Sound, OneRowEach
<1>3. [d EXCEPT !.participants = {q \in @ : q.user # u}] = RemoveParticipant(d, p)
  BY <1>2 DEF RemoveParticipant
<1>. QED
  BY <1>1, <1>3 DEF Changed

\* A list that is closed stays closed.
LEMMA ChangeKeepsChecked ==
  ASSUME NEW d \in Event, NEW e \in Event, Sound(d), Changed(d, e), d.checked
  PROVE  e.checked
BY DEF Changed, Sound, Open, WithStatus, CheckParticipantsForStart, Start, End, Event

-----------------------------------------------------------------------------
(***************************************************************************)
(* The request in flight stays derived from the saved event.               *)
(***************************************************************************)

\* A request that begins when no other is in flight.
LEMMA FirstDerived ==
  ASSUME NoOverlap', NEW s \in Slots, ops'[s] # Idle, Derived(db', ops'[s])
  PROVE  OpsDerived'
BY DEF NoOverlap, OpsDerived

\* The only request in flight goes on, or ends.
LEMMA BusyDerived ==
  ASSUME NoOverlap, NEW s \in Slots, ops[s] # Idle, Others(s),
         ops'[s] = Idle \/ Derived(db', ops'[s])
  PROVE  OpsDerived'
BY DEF NoOverlap, OpsDerived, Others

\* The steps that end a request, or drop all of them.
LEMMA EndedDerived ==
  ASSUME NoOverlap, OpsType, NEW s \in Slots, ops[s] # Idle, Return(s)
  PROVE  OpsDerived'
BY ReturnShape, BusyDerived

\* The request takes another call and keeps its copy.
LEMMA GotoDerived ==
  ASSUME NoOverlap, OpsType, NEW s \in Slots, NEW pc \in Pc, ops[s] \in Op, Goto(s, pc),
         Derived(db', [ops[s] EXCEPT !.pc = pc])
  PROVE  OpsDerived'
<1>1. ops'[s] = [ops[s] EXCEPT !.pc = pc] /\ Others(s) /\ ops[s] # Idle
  BY OpNotIdle DEF OpsType, Goto, Others
<1>. QED
  BY <1>1, BusyDerived

LEMMA ReadsDerived ==
  ASSUME SerialInv, NoOverlap', NEW s \in Slots, Reads(s)
  PROVE  OpsDerived'
<1>a. OpsType /\ NumType /\ DbType /\ TypeOK
  BY TypeParts DEF SerialInv
<1>b. ASSUME NEW op, Begin(s, op), op # Idle, Derived(db', op) PROVE OpsDerived'
  BY <1>a, <1>b, BeginShape, FirstDerived
<1>1. ASSUME NEW t \in CheckTimes, CreateBegins(s, t) PROVE OpsDerived'
  <2>. DEFINE op == Holding("create", "schedule", NewEvent(0, t))
  <2>1. /\ op.kind = "create" /\ op.pc = "schedule" /\ op.removed = {}
        /\ op.event = NewEvent(0, t) /\ op.event.checkTime = t /\ Begin(s, op)
    BY <1>1 DEF CreateBegins, Holding, Idle, NewEvent
  <2>2. db' = None
    BY <1>1 DEF CreateBegins, SerialInv, DbSound, NotYet
  <2>3. op # Idle
    BY <2>1 DEF Idle
  <2>. HIDE DEF op
  <2>. QED
    BY <1>b, <2>1, <2>2, <2>3 DEF Derived, CreateInFlight
<1>2. ASSUME NEW u \in Users, JoinReads(s, u) PROVE OpsDerived'
  <2>. DEFINE op == Holding("join", "save", AddParticipant(db, nextRow, u))
  <2>1. /\ op.kind = "join" /\ op.pc = "save" /\ op.removed = {}
        /\ op.event = AddParticipant(db, nextRow, u) /\ Begin(s, op) /\ op # Idle
    BY <1>2 DEF JoinReads, Holding, Idle
  <2>2. /\ db' = db /\ db # None /\ Open(db)
        /\ u \in Users \ UsersOf(db) /\ nextRow \in Nat
    BY <1>a, <1>2 DEF JoinReads, CanJoin, Open, NumType
  <2>. HIDE DEF op
  <2>3. JoinInFlight(db', op)
    BY <2>1, <2>2 DEF JoinInFlight
  <2>. QED
    BY <1>b, <2>1, <2>2, <2>3 DEF Derived
<1>3. ASSUME NEW p \in db.participants, WithdrawReads(s, p) PROVE OpsDerived'
  <2>. DEFINE op == [Holding("withdraw", "save", RemoveParticipant(db, p))
                      EXCEPT !.removed = {p.id}]
  <2>1. /\ op.kind = "withdraw" /\ op.pc = "save" /\ op.removed = {p.id}
        /\ op.event = RemoveParticipant(db, p) /\ Begin(s, op)
    BY <1>3 DEF WithdrawReads, Holding, Idle
  <2>2. db' = db /\ db # None /\ Open(db) /\ p.user # Creator
    BY <1>3 DEF WithdrawReads, CanWithdraw, Open
  <2>3. op # Idle
    BY <2>1 DEF Idle
  <2>. HIDE DEF op
  <2>4. WithdrawInFlight(db', op)
    BY <2>1, <2>2 DEF WithdrawInFlight
  <2>. QED
    BY <1>b, <2>1, <2>2, <2>3, <2>4 DEF Derived
<1>4. ASSUME NEW u \in Users, LeaveGroupReads(s, u) PROVE OpsDerived'
  <2>. DEFINE op == [Holding("leave", "withdraw", db) EXCEPT !.user = u]
  <2>1. op.kind = "leave" /\ op.pc = "withdraw" /\ op.user = u /\ Begin(s, op)
    BY <1>4 DEF LeaveGroupReads, Holding, Idle
  <2>2. db' = db /\ db # None /\ Open(db) /\ u \in UsersOf(db) \ {Creator}
    BY <1>4 DEF LeaveGroupReads, Open
  <2>3. op # Idle
    BY <2>1 DEF Idle
  <2>. HIDE DEF op
  <2>4. LeaveInFlight(db', op)
    BY <2>1, <2>2 DEF LeaveInFlight
  <2>. QED
    BY <1>b, <2>1, <2>2, <2>3, <2>4 DEF Derived
<1>5. ASSUME UpdateReads(s) PROVE OpsDerived'
  <2>. DEFINE op == Holding("update", "save", db)
  <2>1. /\ op.kind = "update" /\ op.pc = "save" /\ op.removed = {} /\ op.event = db
        /\ Begin(s, op) /\ op # Idle
    BY <1>5 DEF UpdateReads, Holding, Idle
  <2>2. db' = db /\ db # None /\ Open(db)
    BY <1>5 DEF UpdateReads, CanBeUpdated, Open
  <2>. HIDE DEF op
  <2>3. EditInFlight(db', op)
    BY <2>1, <2>2 DEF EditInFlight
  <2>. QED
    BY <1>b, <2>1, <2>2, <2>3 DEF Derived
<1>6. ASSUME NEW t \in CheckTimes, RescheduleReads(s, t) PROVE OpsDerived'
  <2>. DEFINE op == [Holding("reschedule", "unschedule", Rescheduled(db, t))
             EXCEPT !.at = db.checkTime, !.removed = Ids(DroppedBySchedule(db))]
  <2>1. /\ op.kind = "reschedule" /\ op.pc = "unschedule"
        /\ op.removed = Ids(DroppedBySchedule(db))
        /\ op.event = Rescheduled(db, t) /\ Begin(s, op)
    BY <1>6 DEF RescheduleReads, Holding, Idle
  <2>2. db' = db /\ db # None /\ Open(db)
    BY <1>6 DEF RescheduleReads, CanBeUpdated, Open
  <2>3. Rescheduled(db, t).checkTime = t
    BY <1>a, <2>2 DEF Rescheduled, DbType, Event
  <2>4. op # Idle
    BY <2>1 DEF Idle
  <2>. HIDE DEF op
  <2>5. EditInFlight(db', op)
    BY <2>1, <2>2, <2>3 DEF EditInFlight
  <2>. QED
    BY <1>b, <2>1, <2>2, <2>4, <2>5 DEF Derived
<1>7. ASSUME DeleteReads(s) PROVE OpsDerived'
  <2>. DEFINE op == Holding("delete", "apply", db)
  <2>1. op.kind = "delete" /\ op.pc = "apply" /\ Begin(s, op) /\ op # Idle
    BY <1>7 DEF DeleteReads, Holding, Idle
  <2>2. db' = db /\ db # None /\ Open(db)
    BY <1>7 DEF DeleteReads, CanBeDeleted, Open
  <2>. HIDE DEF op
  <2>3. EditInFlight(db', op)
    BY <2>1, <2>2 DEF EditInFlight
  <2>. QED
    BY <1>b, <2>1, <2>2, <2>3 DEF Derived
<1>8. ASSUME NEW p \in db.participants, DepartReads(s, p) PROVE OpsDerived'
  <2>. DEFINE op == Holding("depart", "save", DepartParticipant(db, p))
  <2>1. /\ op.kind = "depart" /\ op.pc = "save" /\ op.removed = {}
        /\ op.event = WithStatus(db, p, "DEPARTED") /\ Begin(s, op) /\ op # Idle
    BY <1>8 DEF DepartReads, Holding, Idle, DepartParticipant
  <2>2. db' = db /\ db # None /\ db.status = "IN_PROGRESS" /\ p.status = "PREPARING"
    BY <1>8 DEF DepartReads, CanDepart
  <2>. HIDE DEF op
  <2>3. ProgressInFlight(db', op)
    BY <2>1, <2>2 DEF ProgressInFlight
  <2>. QED
    BY <1>b, <2>1, <2>2, <2>3 DEF Derived
<1>9. ASSUME NEW p \in db.participants, ArriveReads(s, p) PROVE OpsDerived'
  <2>. DEFINE op == Holding("arrive", "save", ArriveParticipant(db, p))
  <2>1. /\ op.kind = "arrive" /\ op.pc = "save" /\ op.removed = {}
        /\ op.event = WithStatus(db, p, "ARRIVED") /\ Begin(s, op) /\ op # Idle
    BY <1>9 DEF ArriveReads, Holding, Idle, ArriveParticipant
  <2>2. db' = db /\ db # None /\ db.status = "IN_PROGRESS" /\ p.status = "DEPARTED"
    BY <1>9 DEF ArriveReads, CanArrive
  <2>. HIDE DEF op
  <2>3. ProgressInFlight(db', op)
    BY <2>1, <2>2 DEF ProgressInFlight
  <2>. QED
    BY <1>b, <2>1, <2>2, <2>3 DEF Derived
<1>. QED
  BY <1>1, <1>2, <1>3, <1>4, <1>5, <1>6, <1>7, <1>8, <1>9 DEF Reads

\* A job reads the event: it starts it only if the check has closed the list.
LEMMA JobReadsDerived ==
  ASSUME SerialInv, NoOverlap', NEW s \in Slots, NEW j \in jobs, JobReads(s, j)
  PROVE  OpsDerived'
<1>. DEFINE op == [Holding(j.name, "apply", db) EXCEPT !.at = j.at]
<1>1. /\ op.kind = j.name /\ op.pc = "apply" /\ op.removed = {} /\ op.event = db
      /\ Begin(s, op) /\ db' = db
  BY DEF JobReads, Holding, Idle
<1>2. op # Idle
  BY <1>1 DEF Idle
<1>. HIDE DEF op
<1>3. j.name \in JobName /\ db # None
  BY DEF SerialInv, TypeOK, Job, JobReads, Accepts
<1>4. j.name = "LOCATION_SHARING_START" => CanStart(db) /\ db.checked
  BY <1>3 DEF JobReads, Accepts, SerialInv, StartComesAfterCheck, Scheduled
<1>5. j.name = "END" => CanEnd(db)
  BY DEF JobReads, Accepts
<1>6. JobInFlight(db', op)
  BY <1>1, <1>3, <1>4, <1>5 DEF JobInFlight
<1>7. ops'[s] = op
  BY <1>1, BeginShape, TypeParts DEF SerialInv
<1>. QED
  BY <1>1, <1>2, <1>3, <1>6, <1>7, FirstDerived DEF Derived

\* The calls of a creation, of a reschedule and of a delete.
MayCall(kind, pc) ==
  \/ kind = "create" /\ pc \in {"schedule", "save", "rollback"}
  \/ kind = "reschedule" /\ pc \in {"unschedule", "schedule", "save", "rollback", "restore"}
  \/ kind = "delete" /\ pc \in {"apply", "unschedule", "delete"}

LEMMA CallDerived ==
  ASSUME NEW d, NEW op \in Op, NEW pc \in Pc, Derived(d, op), MayCall(op.kind, pc)
  PROVE  Derived(d, [op EXCEPT !.pc = pc])
<1>. DEFINE go == [op EXCEPT !.pc = pc]
<1>1. /\ go.pc = pc /\ go.kind = op.kind /\ go.event = op.event
      /\ go.removed = op.removed
  BY DEF Op
<1>. HIDE DEF go
<1>2. CASE op.kind = "create"
  <2>1. CreateInFlight(d, op) /\ pc \in {"schedule", "save", "rollback"}
    BY <1>2 DEF Derived, MayCall, JoinInFlight, WithdrawInFlight, LeaveInFlight,
                EditInFlight, ProgressInFlight, JobInFlight, JobName
  <2>. QED
    BY <1>1, <2>1 DEF Derived, CreateInFlight
<1>3. CASE op.kind \in {"reschedule", "delete"}
  <2>1. d # None /\ EditInFlight(d, op)
    BY <1>3 DEF Derived, CreateInFlight, JoinInFlight, WithdrawInFlight, LeaveInFlight,
                ProgressInFlight, JobInFlight, JobName
  <2>. QED
    BY <1>1, <1>3, <2>1 DEF Derived, EditInFlight, MayCall
<1>. QED
  BY <1>2, <1>3 DEF MayCall, go

\* Which requests make which calls.
LEMMA CallersAre ==
  ASSUME NEW d, NEW op, Derived(d, op)
  PROVE  /\ op.pc = "schedule" => op.kind \in {"create", "reschedule"}
         /\ op.pc = "unschedule" => op.kind \in {"delete", "reschedule"}
         /\ op.pc = "rollback" => op.kind \in {"create", "reschedule"}
         /\ op.pc = "delete" => EditInFlight(d, op) /\ op.kind = "delete"
         /\ op.pc = "withdraw" => LeaveInFlight(d, op)
         /\ op.kind \in JobName => JobInFlight(d, op) /\ d # None
         /\ op.kind = "create" => d = None
         /\ op.kind # "create" => d # None
BY DEF Derived, CreateInFlight, JoinInFlight, WithdrawInFlight, LeaveInFlight,
       EditInFlight, ProgressInFlight, JobInFlight, JobName

\* A job changes its copy.
LEMMA AppliedDerived ==
  ASSUME SerialInv, NoOverlap, NEW s \in Slots, ops[s] \in Op, NEW e, Applied(s, e),
         db' = db, JobInFlight(db, ops[s]), db # None,
         \/ ops[s].kind = "PARTICIPANT_CHECK" /\ e = CheckParticipantsForStart(db)
         \/ ops[s].kind = "LOCATION_SHARING_START" /\ e = Start(db)
         \/ ops[s].kind = "END" /\ \E run \in Nat : e = End(db, run)
  PROVE  OpsDerived'
<1>1. OpsType
  BY TypeParts DEF SerialInv
<1>2. /\ ops'[s] = [[ops[s] EXCEPT !.pc = "save"] EXCEPT !.event = e]
      /\ Others(s) /\ ops[s] # Idle
  BY <1>1, OpNotIdle DEF OpsType, Applied, Others
<1>3. /\ ops'[s].kind = ops[s].kind /\ ops'[s].removed = ops[s].removed
      /\ ops'[s].pc = "save" /\ ops'[s].event = e
  BY <1>2 DEF Op
<1>4. JobInFlight(db, ops'[s])
  BY <1>3 DEF JobInFlight
<1>. QED
  BY <1>2, <1>4, BusyDerived DEF Derived

LEMMA ContinuesDerived ==
  ASSUME SerialInv, NoOverlap, NEW s \in Slots, Continues(s)
  PROVE  OpsDerived'
<1>a. OpsType /\ NumType
  BY TypeParts DEF SerialInv
<1>b. ASSUME NEW pc \in Pc, At(s, pc)
      PROVE  ops[s] \in Op /\ ops[s] # Idle /\ Derived(db, ops[s]) /\ ops[s].pc = pc
  BY <1>a, <1>b, AtCall, OpNotIdle DEF SerialInv, OpsDerived, At
<1>c. ASSUME ops[s] # Idle, Throw(s) PROVE OpsDerived'
  BY <1>a, <1>c, EndedDerived DEF Throw
<1>d. ASSUME NEW pc \in Pc, NEW to \in Pc, At(s, pc), Goto(s, to),
             MayCall(ops[s].kind, to), db' = db
      PROVE  OpsDerived'
  <2>1. Derived(db', [ops[s] EXCEPT !.pc = to])
    BY <1>b, <1>d, CallDerived
  <2>. QED
    BY <1>a, <1>b, <1>d, <2>1, GotoDerived
<1>1. ASSUME JoinConflicts(s) PROVE OpsDerived'
  BY <1>b, <1>c, <1>1 DEF JoinConflicts, Pc
<1>2. ASSUME LeaveGroupWithdraws(s) PROVE OpsDerived'
  BY <1>a, <1>b, <1>2, EndedDerived DEF LeaveGroupWithdraws, Pc
<1>3. ASSUME DeleteMarks(s) PROVE OpsDerived'
  BY <1>d, <1>3 DEF DeleteMarks, Pc, MayCall
<1>4. ASSUME Unschedule(s) PROVE OpsDerived'
  <2>1. At(s, "unschedule") /\ ops[s].kind \in {"delete", "reschedule"} /\ ops[s] # Idle
    BY <1>b, <1>4, CallersAre DEF Unschedule, Pc
  <2>. QED
    BY <1>c, <1>d, <1>4, <2>1 DEF Unschedule, Pc, MayCall
<1>5. ASSUME ScheduleCheck(s) PROVE OpsDerived'
  <2>1. At(s, "schedule") /\ ops[s].kind \in {"create", "reschedule"} /\ ops[s] # Idle
    BY <1>b, <1>5, CallersAre DEF ScheduleCheck, Pc
  <2>. QED
    BY <1>c, <1>d, <1>5, <2>1 DEF ScheduleCheck, Pc, MayCall
<1>6. ASSUME Rollback(s) PROVE OpsDerived'
  BY <1>b, <1>c, <1>d, <1>6 DEF Rollback, Pc, MayCall
<1>7. ASSUME Restore(s) PROVE OpsDerived'
  BY <1>b, <1>c, <1>7 DEF Restore, Pc
<1>8. ASSUME CheckApplies(s) \/ StartApplies(s) \/ EndApplies(s) PROVE OpsDerived'
  <2>1. ops[s] \in Op /\ Derived(db, ops[s]) /\ ops[s].pc = "apply" /\ ops[s].kind \in JobName
    BY <1>b, <1>8 DEF CheckApplies, StartApplies, EndApplies, Pc, JobName
  <2>2. JobInFlight(db, ops[s]) /\ db # None /\ ops[s].event = db
    BY <2>1, CallersAre DEF JobInFlight
  <2>3. CASE CheckApplies(s)
    BY <2>1, <2>2, <2>3, AppliedDerived DEF CheckApplies
  <2>4. CASE StartApplies(s)
    BY <2>1, <2>2, <2>4, AppliedDerived DEF StartApplies
  <2>5. CASE EndApplies(s)
    BY <1>a, <2>1, <2>2, <2>5, AppliedDerived DEF EndApplies, NumType
  <2>. QED
    BY <1>8, <2>3, <2>4, <2>5
<1>9. ASSUME Commit(s) \/ DeleteCommits(s) \/ DeleteFails(s) PROVE OpsDerived'
  <2>1. ops[s] # Idle
    BY <1>b, <1>9 DEF Commit, Stored, DeleteCommits, DeleteFails, Pc
  <2>. QED
    BY <1>a, <1>c, <1>9, <2>1, EndedDerived
    DEF Commit, Stored, DeleteCommits, DeleteFails
<1>. QED
  BY <1>1, <1>2, <1>3, <1>4, <1>5, <1>6, <1>7, <1>8, <1>9 DEF Continues

\* The request in flight stays derived from the saved event in every step.
LEMMA DerivedStep ==
  ASSUME SerialInv, NoOverlap, NoOverlap', [Next]_vars
  PROVE  OpsDerived'
<1>a. OpsType
  BY TypeParts DEF SerialInv
<1>b. ASSUME UNCHANGED <<db, ops>> PROVE OpsDerived'
  BY <1>b DEF SerialInv, OpsDerived
<1>1. ASSUME NEW s \in Slots, Reads(s) \/ Continues(s) PROVE OpsDerived'
  BY <1>1, ReadsDerived, ContinuesDerived
<1>2. ASSUME NEW s \in Slots, Fails(s) PROVE OpsDerived'
  <2>1. At(s, "save") /\ ops[s] \in Op /\ ops[s] # Idle /\ Derived(db, ops[s])
    BY <1>a, <1>2, AtCall, OpNotIdle
    DEF Fails, CommitUnacknowledged, Stored, SaveFails, Pc, SerialInv, OpsDerived
  <2>2. CASE CommitUnacknowledged(s)
    BY <1>a, <2>1, <2>2, EndedDerived DEF CommitUnacknowledged, Stored
  <2>3. CASE SaveFails(s) /\ ops[s].kind \in {"create", "reschedule"}
    <3>1. Derived(db', [ops[s] EXCEPT !.pc = "rollback"])
      BY <2>1, <2>3, CallDerived DEF SaveFails, Pc, MayCall
    <3>. QED
      BY <1>a, <2>1, <2>3, <3>1, GotoDerived DEF SaveFails, Pc
  <2>4. CASE SaveFails(s) /\ ops[s].kind \notin {"create", "reschedule"}
    BY <1>a, <2>1, <2>4, EndedDerived DEF SaveFails, Throw
  <2>. QED
    BY <1>2, <2>2, <2>3, <2>4 DEF Fails
<1>3. ASSUME NEW j \in jobs, JobDelivered(j) PROVE OpsDerived'
  BY <1>b, <1>3, JobReadsDerived DEF JobDelivered, JobIgnored
<1>4. ASSUME NEW d \in deliveries, Handle(d) PROVE OpsDerived'
  BY <1>b, <1>4 DEF Handle
<1>5. CASE Crash
  BY <1>5 DEF Crash, OpsDerived
<1>6. CASE Tick
  BY <1>b, <1>6 DEF Tick
<1>7. CASE UNCHANGED vars
  BY <1>b, <1>7 DEF vars
<1>. QED
  BY <1>1, <1>2, <1>3, <1>4, <1>5, <1>6, <1>7 DEF Next

-----------------------------------------------------------------------------
(***************************************************************************)
(* What one step does to the saved event.                                  *)
(***************************************************************************)

\* A request that has just begun is of its kind.
LEMMA HoldingKind ==
  ASSUME NEW kind, NEW pc, NEW e, NEW x, NEW y
  PROVE  /\ Holding(kind, pc, e).kind = kind
         /\ [Holding(kind, pc, e) EXCEPT !.removed = x].kind = kind
         /\ [Holding(kind, pc, e) EXCEPT !.user = x].kind = kind
         /\ [Holding(kind, pc, e) EXCEPT !.at = x].kind = kind
         /\ [Holding(kind, pc, e) EXCEPT !.at = x, !.removed = y].kind = kind
BY DEF Holding, Idle

\* Only the first creation is ever in flight.
LEMMA CreateStep ==
  ASSUME TypeOK, [Next]_vars
  PROVE  /\ nextRow' \in Nat /\ (nextRow # 0 => nextRow' # 0)
         /\ \A r \in Slots : ops'[r].kind = "create" =>
              \/ ops[r].kind = "create"
              \/ nextRow = 0 /\ nextRow' = 1
<1>a. OpsType /\ NumType
  BY TypeParts
<1>b. ASSUME NEW s \in Slots, NEW op, Begin(s, op), op.kind # "create"
      PROVE  \A r \in Slots : ops'[r].kind = "create" => ops[r].kind = "create"
  BY <1>a, <1>b, BeginShape DEF Others
<1>c. ASSUME NEW s \in Slots, Return(s)
      PROVE  \A r \in Slots : ops'[r].kind = "create" => ops[r].kind = "create"
  BY <1>a, <1>c DEF Return, OpsType, Idle
<1>d. ASSUME NEW s \in Slots, NEW pc \in Pc, At(s, pc)
      PROVE  ops[s] \in Op
  BY <1>a, <1>d, AtCall
<1>e. ASSUME NEW s \in Slots, ops[s] \in Op, NEW pc, Goto(s, pc)
      PROVE  \A r \in Slots : ops'[r].kind = "create" => ops[r].kind = "create"
  BY <1>a, <1>e DEF Goto, OpsType, Op
<1>f. ASSUME NEW s \in Slots, ops[s] \in Op, NEW e, Applied(s, e)
      PROVE  \A r \in Slots : ops'[r].kind = "create" => ops[r].kind = "create"
  BY <1>a, <1>f DEF Applied, OpsType, Op
<1>. DEFINE Alike == nextRow' = nextRow
            OldCreates == \A r \in Slots : ops'[r].kind = "create" => ops[r].kind = "create"
<1>1. ASSUME NEW s \in Slots, NEW t \in CheckTimes, CreateBegins(s, t)
      PROVE  /\ nextRow = 0 /\ nextRow' = 1
  BY <1>1 DEF CreateBegins
<1>2. ASSUME NEW s \in Slots, NEW u \in Users, JoinReads(s, u)
      PROVE  OldCreates /\ nextRow' = nextRow + 1
  BY <1>b, <1>2, HoldingKind DEF JoinReads
<1>3. ASSUME NEW s \in Slots, NEW t \in CheckTimes, RescheduleReads(s, t)
      PROVE  OldCreates /\ Alike
  <2>. DEFINE op == [Holding("reschedule", "unschedule", Rescheduled(db, t))
             EXCEPT !.at = db.checkTime, !.removed = Ids(DroppedBySchedule(db))]
  <2>1. Begin(s, op) /\ Alike
    BY <1>3 DEF RescheduleReads, countVars
  <2>2. op.kind # "create"
    BY HoldingKind
  <2>. HIDE DEF op
  <2>. QED
    BY <1>b, <2>1, <2>2
<1>4. ASSUME NEW s \in Slots, NEW u \in Users, LeaveGroupReads(s, u)
      PROVE  OldCreates /\ Alike
  <2>. DEFINE op == [Holding("leave", "withdraw", db) EXCEPT !.user = u]
  <2>1. Begin(s, op) /\ Alike
    BY <1>4 DEF LeaveGroupReads, countVars
  <2>2. op.kind # "create"
    BY HoldingKind
  <2>. HIDE DEF op
  <2>. QED
    BY <1>b, <2>1, <2>2
<1>5. ASSUME NEW s \in Slots, UpdateReads(s) \/ DeleteReads(s)
      PROVE  OldCreates /\ Alike
  BY <1>b, <1>5, HoldingKind DEF UpdateReads, DeleteReads, countVars
<1>6. ASSUME NEW s \in Slots, NEW p, WithdrawReads(s, p) PROVE OldCreates /\ Alike
  <2>. DEFINE op == [Holding("withdraw", "save", RemoveParticipant(db, p))
                      EXCEPT !.removed = {p.id}]
  <2>1. Begin(s, op) /\ Alike
    BY <1>6 DEF WithdrawReads, countVars
  <2>2. op.kind # "create"
    BY HoldingKind
  <2>. HIDE DEF op
  <2>. QED
    BY <1>b, <2>1, <2>2
<1>6a. ASSUME NEW s \in Slots, NEW p, DepartReads(s, p) PROVE OldCreates /\ Alike
  <2>. DEFINE op == Holding("depart", "save", DepartParticipant(db, p))
  <2>1. Begin(s, op) /\ Alike
    BY <1>6a DEF DepartReads, countVars
  <2>2. op.kind # "create"
    BY HoldingKind
  <2>. HIDE DEF op
  <2>. QED
    BY <1>b, <2>1, <2>2
<1>6b. ASSUME NEW s \in Slots, NEW p, ArriveReads(s, p) PROVE OldCreates /\ Alike
  <2>. DEFINE op == Holding("arrive", "save", ArriveParticipant(db, p))
  <2>1. Begin(s, op) /\ Alike
    BY <1>6b DEF ArriveReads, countVars
  <2>2. op.kind # "create"
    BY HoldingKind
  <2>. HIDE DEF op
  <2>. QED
    BY <1>b, <2>1, <2>2
<1>7. ASSUME NEW s \in Slots, Continues(s) PROVE OldCreates /\ Alike
  <2>1. CASE JoinConflicts(s) \/ LeaveGroupWithdraws(s)
    BY <1>c, <2>1 DEF JoinConflicts, LeaveGroupWithdraws, Throw, countVars
  <2>2. CASE DeleteMarks(s)
    BY <1>d, <1>e, <2>2 DEF DeleteMarks, countVars, Pc
  <2>3. CASE Unschedule(s) \/ ScheduleCheck(s)
    BY <1>c, <1>d, <1>e, <2>3 DEF Unschedule, ScheduleCheck, Throw, countVars, Pc
  <2>4. CASE Rollback(s) \/ Restore(s)
    BY <1>c, <1>d, <1>e, <2>4 DEF Rollback, Restore, Throw, countVars, Pc
  <2>5. CASE CheckApplies(s) \/ StartApplies(s) \/ EndApplies(s)
    BY <1>d, <1>f, <2>5 DEF CheckApplies, StartApplies, EndApplies, countVars, Pc
  <2>6. CASE Commit(s) \/ DeleteCommits(s) \/ DeleteFails(s)
    BY <1>c, <2>6 DEF Commit, Stored, DeleteCommits, DeleteFails, Throw, countVars
  <2>. QED
    BY <1>7, <2>1, <2>2, <2>3, <2>4, <2>5, <2>6 DEF Continues
<1>8. ASSUME NEW s \in Slots, Fails(s) PROVE OldCreates /\ Alike
  BY <1>c, <1>d, <1>e, <1>8 DEF Fails, CommitUnacknowledged, Stored, SaveFails, Throw, Pc
<1>9. ASSUME NEW j \in jobs, JobDelivered(j) PROVE OldCreates /\ Alike
  <2>1. j.name # "create"
    BY DEF TypeOK, Job, JobName
  <2>2. CASE JobIgnored(j)
    BY <2>2 DEF JobIgnored, countVars
  <2>3. ASSUME NEW s \in Slots, JobReads(s, j) PROVE OldCreates /\ Alike
    <3>. DEFINE op == [Holding(j.name, "apply", db) EXCEPT !.at = j.at]
    <3>1. Begin(s, op) /\ Alike
      BY <2>3 DEF JobReads, countVars
    <3>2. op.kind # "create"
      BY <2>1, HoldingKind
    <3>. HIDE DEF op
    <3>. QED
      BY <1>b, <3>1, <3>2
  <2>. QED
    BY <1>9, <2>2, <2>3 DEF JobDelivered
<1>10. ASSUME Crash PROVE OldCreates /\ Alike
  BY <1>10 DEF Crash, Idle
<1>11. ASSUME Tick \/ UNCHANGED vars \/ \E d \in deliveries : Handle(d) PROVE OldCreates /\ Alike
  BY <1>11 DEF Tick, vars, Handle, countVars
<1>. HIDE DEF Alike, OldCreates
<1>12. ASSUME OldCreates, Alike
       PROVE  /\ nextRow' \in Nat /\ (nextRow # 0 => nextRow' # 0)
              /\ \A r \in Slots : ops'[r].kind = "create" => ops[r].kind = "create"
  BY <1>a, <1>12 DEF OldCreates, Alike, NumType
<1>13. ASSUME NEW s \in Slots, Reads(s)
       PROVE  (OldCreates /\ Alike) \/ (OldCreates /\ nextRow' = nextRow + 1)
              \/ (nextRow = 0 /\ nextRow' = 1)
  BY <1>1, <1>2, <1>3, <1>4, <1>5, <1>6, <1>6a, <1>6b, <1>13 DEF Reads
<1>14. (OldCreates /\ Alike) \/ (OldCreates /\ nextRow' = nextRow + 1)
       \/ (nextRow = 0 /\ nextRow' = 1)
  BY <1>7, <1>8, <1>9, <1>10, <1>11, <1>13 DEF Next
<1>. QED
  BY <1>a, <1>12, <1>14 DEF NumType, OldCreates

\* The ways a step changes the saved event, when requests do not overlap.
DbStep ==
  \/ db' = db /\ (NotYet' <=> NotYet)
  \/ db = None /\ db' = None /\ NotYet /\ ~NotYet'
  \/ /\ db = None /\ NotYet /\ ~NotYet'
     /\ \E t \in Nat : db' = NewEvent(0, t)
  \/ db # None /\ db' # None /\ ~NotYet' /\ Changed(db, db')
  \/ db # None /\ db' = None /\ ~NotYet' /\ Open(db)

\* Three actions write the event.
Writes(s) == Stored(s) \/ LeaveGroupWithdraws(s) \/ DeleteCommits(s)

LEMMA WritersAre == [Next]_vars => db' = db \/ \E s \in Slots : Writes(s)
<1>. SUFFICES ASSUME [Next]_vars PROVE db' = db \/ \E s \in Slots : Writes(s)
  OBVIOUS
<1>1. ASSUME NEW s \in Slots, Reads(s) PROVE db' = db
  BY <1>1 DEF Reads, CreateBegins, RescheduleReads, JoinReads, LeaveGroupReads,
     UpdateReads, DeleteReads, WithdrawReads, DepartReads, ArriveReads
<1>2. ASSUME NEW s \in Slots, Continues(s) PROVE db' = db \/ Writes(s)
  BY <1>2 DEF Continues, JoinConflicts, DeleteMarks, Unschedule, ScheduleCheck,
     Rollback, Restore, CheckApplies, StartApplies, EndApplies, Commit, DeleteFails, Writes
<1>3. ASSUME NEW s \in Slots, Fails(s) PROVE db' = db \/ Writes(s)
  BY <1>3 DEF Fails, CommitUnacknowledged, SaveFails, Writes
<1>4. ASSUME NEW j \in jobs, JobDelivered(j) PROVE db' = db
  BY <1>4 DEF JobDelivered, JobIgnored, JobReads
<1>5. ASSUME Crash \/ Tick \/ UNCHANGED vars \/ \E d \in deliveries : Handle(d)
      PROVE  db' = db
  BY <1>5 DEF Crash, Tick, vars, Handle
<1>. QED
  BY <1>1, <1>2, <1>3, <1>4, <1>5 DEF Next

LEMMA DbStepHolds ==
  ASSUME SerialInv, NoOverlap, [Next]_vars
  PROVE  DbStep
<1>a. TypeOK /\ DbType /\ OpsType
  BY TypeParts DEF SerialInv
<1>b. ~NotYet => ~NotYet'
  BY <1>a, CreateStep DEF NotYet, Handling
<1>c. db # None => db \in Event /\ Sound(db) /\ ~NotYet
  BY <1>a DEF DbType, SerialInv, DbSound
<1>1. CASE db' = db
  BY <1>b, <1>1, <1>c DEF DbStep
<1>2. ASSUME NEW s \in Slots, Stored(s) PROVE DbStep
  <2>1. /\ ops[s] \in Op /\ ops[s] # Idle /\ Derived(db, ops[s])
        /\ ops[s].pc = "save" /\ ops[s].event \in Event
    BY <1>a, <1>2, AtCall, OpNotIdle DEF Stored, Pc, SerialInv, OpsDerived, At, Op
  <2>2. CASE ops[s].kind = "create"
    <3>1. db = None /\ ops[s].event = NewEvent(0, ops[s].event.checkTime) /\ nextRow # 0
      BY <2>1, <2>2 DEF Derived, CreateInFlight, SerialInv, Counting, Handling,
         JoinInFlight, WithdrawInFlight, LeaveInFlight, EditInFlight, ProgressInFlight,
         JobInFlight, JobName
    <3>2. db' = ops[s].event /\ db' # None
      BY <1>2, <2>1, <3>1, NoneIsNoEvent DEF Stored, Saved
    <3>3. ops[s].event.checkTime \in Nat
      BY <2>1 DEF Event
    <3>4. NotYet
      BY <2>2 DEF NotYet, Handling
    <3>5. ~NotYet'
      <4>1. \A r \in Slots : ops'[r] = Idle
        BY <1>a, <1>2, <2>1, ReturnShape DEF Stored, Others, NoOverlap
      <4>2. nextRow' = nextRow
        BY <1>2 DEF Stored
      <4>. QED
        BY <3>1, <4>1, <4>2 DEF NotYet, Handling, Idle
    <3>6. \E t \in Nat : db' = NewEvent(0, t)
      BY <3>1, <3>2, <3>3
    <3>. QED
      BY <3>1, <3>4, <3>5, <3>6 DEF DbStep
  <2>3. CASE ops[s].kind # "create"
    <3>1. db # None
      BY <2>1, <2>3, CallersAre
    <3>2. Changed(db, ops[s].event) /\ db' = ops[s].event /\ db' # None
      BY <1>2, <1>c, <2>1, <3>1, CopyIsChange, NoneIsNoEvent DEF Stored
    <3>. QED
      BY <1>b, <1>c, <3>1, <3>2 DEF DbStep
  <2>. QED
    BY <2>2, <2>3
<1>3. ASSUME NEW s \in Slots, LeaveGroupWithdraws(s) PROVE DbStep
  <2>1. Derived(db, ops[s]) /\ ops[s].pc = "withdraw"
    BY <1>a, <1>3, AtCall, OpNotIdle DEF LeaveGroupWithdraws, Pc, SerialInv, OpsDerived, At
  <2>2. LeaveInFlight(db, ops[s]) /\ db # None
    BY <2>1, CallersAre DEF LeaveInFlight
  <2>3. db' = [db EXCEPT !.participants = {p \in @ : p.user # ops[s].user}]
    BY <1>3, <2>2 DEF LeaveGroupWithdraws
  <2>4. Changed(db, db')
    BY <1>c, <2>2, <2>3, LeavingIsChange DEF LeaveInFlight
  <2>5. db' \in Event
    BY <1>c, <2>2, <2>3 DEF Event
  <2>. QED
    BY <1>b, <1>c, <2>2, <2>4, <2>5, NoneIsNoEvent DEF DbStep
<1>4. ASSUME NEW s \in Slots, DeleteCommits(s) PROVE DbStep
  <2>1. Derived(db, ops[s]) /\ ops[s].pc = "delete"
    BY <1>a, <1>4, AtCall, OpNotIdle DEF DeleteCommits, Pc, SerialInv, OpsDerived, At
  <2>2. Open(db)
    BY <2>1, CallersAre DEF EditInFlight
  <2>. QED
    BY <1>4, <1>b, <1>c, <2>2 DEF DeleteCommits, DbStep
<1>. QED
  BY <1>1, <1>2, <1>3, <1>4, WritersAre DEF Writes

-----------------------------------------------------------------------------
(***************************************************************************)
(* The registry of domain events, and what it may start.                   *)
(***************************************************************************)

LEMMA AddAnnounce ==
  ASSUME FewAnnounce, RegistryType, NEW s \in Slots, NEW d, AddDomainEvent(s, d),
         Others(s), ops'[s].kind \in Announcers
  PROVE  FewAnnounce'
BY DEF FewAnnounce, RegistryType, AddDomainEvent, Others, Instances

LEMMA KeepAnnounce ==
  ASSUME FewAnnounce, NEW s \in Slots, UNCHANGED registryVars, Others(s),
         ops[s].kind \in Announcers => ops'[s].kind \in Announcers
  PROVE  FewAnnounce'
BY DEF FewAnnounce, registryVars, Others

LEMMA ForgetAnnounce ==
  ASSUME FewAnnounce, RegistryType, NEW s \in Slots, Forget(s), Others(s)
  PROVE  FewAnnounce'
BY InstanceNames DEF FewAnnounce, RegistryType, Forget, Others, Instances

LEMMA DispatchAnnounce ==
  ASSUME FewAnnounce, RegistryType, NEW s \in Slots, NEW handled,
         DispatchEventsForAggregate(s, handled), Others(s)
  PROVE  FewAnnounce'
<1>1. domainEvents'[s] = {} /\ \A r \in Slots : domainEvents'[r] \in {domainEvents[r], {}}
  BY DEF RegistryType, DispatchEventsForAggregate, Instances
<1>. QED
  BY <1>1 DEF FewAnnounce, Others

LEMMA AnnounceStep ==
  ASSUME SerialInv, [Next]_vars
  PROVE  FewAnnounce'
<1>a. OpsType /\ RegistryType /\ JobsType /\ FewAnnounce
  BY TypeParts DEF SerialInv
<1>b. ASSUME UNCHANGED <<ops, registryVars>> PROVE FewAnnounce'
  BY <1>a, <1>b DEF FewAnnounce, registryVars
<1>c. ASSUME NEW s \in Slots, NEW op, Begin(s, op)
      PROVE  ops[s].kind = "idle" /\ ops'[s] = op /\ Others(s)
  <2>1. ops[s] = Idle
    BY <1>c DEF Begin
  <2>. QED
    BY <1>a, <1>c, <2>1, BeginShape DEF Idle
<1>d. ASSUME NEW s \in Slots, NEW op, Begin(s, op), UNCHANGED registryVars
      PROVE  FewAnnounce'
  BY <1>a, <1>c, <1>d, KeepAnnounce DEF Announcers, JobName
<1>e. ASSUME NEW s \in Slots, NEW pc \in Pc, At(s, pc), NEW to, Goto(s, to)
      PROVE  ops'[s].kind = ops[s].kind /\ Others(s)
  BY <1>a, <1>e, AtCall DEF Goto, OpsType, Op, Others
<1>f. ASSUME NEW s \in Slots, Throw(s) PROVE FewAnnounce'
  BY <1>a, <1>f, ReturnShape, ForgetAnnounce DEF Throw
<1>g. ASSUME NEW s \in Slots, NEW pc \in Pc, At(s, pc), NEW e, Applied(s, e)
      PROVE  ops'[s].kind = ops[s].kind /\ Others(s)
  BY <1>a, <1>g, AtCall DEF Applied, OpsType, Op, Others
<1>h. ASSUME NEW s \in Slots, NEW handled, Return(s), DispatchEventsForAggregate(s, handled)
      PROVE  FewAnnounce'
  BY <1>a, <1>h, ReturnShape, DispatchAnnounce
<1>1. ASSUME NEW s \in Slots, Reads(s) PROVE FewAnnounce'
  <2>1. ASSUME NEW t \in CheckTimes, CreateBegins(s, t) PROVE FewAnnounce'
    <3>1. ops'[s].kind = "create" /\ Others(s)
      BY <1>c, <2>1, HoldingKind DEF CreateBegins
    <3>. QED
      BY <1>a, <2>1, <3>1, AddAnnounce DEF CreateBegins, Announcers
  <2>2. ASSUME NEW p, DepartReads(s, p) PROVE FewAnnounce'
    <3>1. ops'[s].kind = "depart" /\ Others(s)
      BY <1>c, <2>2, HoldingKind DEF DepartReads
    <3>. QED
      BY <1>a, <2>2, <3>1, AddAnnounce DEF DepartReads, Announcers
  <2>3. ASSUME NEW t \in CheckTimes, RescheduleReads(s, t) PROVE FewAnnounce'
    BY <1>d, <2>3 DEF RescheduleReads
  <2>4. ASSUME NEW u \in Users, JoinReads(s, u) \/ LeaveGroupReads(s, u) PROVE FewAnnounce'
    BY <1>d, <2>4 DEF JoinReads, LeaveGroupReads
  <2>5. ASSUME UpdateReads(s) \/ DeleteReads(s) PROVE FewAnnounce'
    BY <1>d, <2>5 DEF UpdateReads, DeleteReads
  <2>6. ASSUME NEW p, WithdrawReads(s, p) \/ ArriveReads(s, p) PROVE FewAnnounce'
    BY <1>d, <2>6 DEF WithdrawReads, ArriveReads
  <2>. QED
    BY <1>1, <2>1, <2>2, <2>3, <2>4, <2>5, <2>6 DEF Reads
<1>2. ASSUME NEW s \in Slots, Continues(s) PROVE FewAnnounce'
  <2>1. CASE JoinConflicts(s) \/ Restore(s) \/ DeleteFails(s)
    BY <1>f, <2>1 DEF JoinConflicts, Restore, DeleteFails
  <2>2. CASE LeaveGroupWithdraws(s)
    <3>1. Others(s) /\ ops'[s] = Idle
      BY <1>a, <2>2, ReturnShape DEF LeaveGroupWithdraws
    <3>2. Derived(db, ops[s]) /\ ops[s].pc = "withdraw"
      BY <1>a, <2>2, AtCall, OpNotIdle
      DEF LeaveGroupWithdraws, Pc, SerialInv, OpsDerived, At
    <3>3. ops[s].kind \notin Announcers
      BY <3>2, CallersAre DEF LeaveInFlight, Announcers, JobName
    <3>. QED
      BY <1>a, <2>2, <3>1, <3>3, KeepAnnounce DEF LeaveGroupWithdraws
  <2>3. CASE DeleteMarks(s)
    <3>1. ops'[s].kind = "delete" /\ Others(s)
      BY <1>e, <2>3 DEF DeleteMarks, Pc
    <3>. QED
      BY <1>a, <2>3, <3>1, AddAnnounce DEF DeleteMarks, Announcers
  <2>4. CASE Unschedule(s)
    BY <1>a, <1>e, <1>f, <2>4, KeepAnnounce DEF Unschedule, Pc
  <2>5. CASE ScheduleCheck(s)
    BY <1>a, <1>e, <1>f, <2>5, KeepAnnounce DEF ScheduleCheck, Pc
  <2>6. CASE Rollback(s)
    BY <1>a, <1>e, <1>f, <2>6, KeepAnnounce DEF Rollback, Pc
  <2>7. CASE CheckApplies(s) \/ StartApplies(s) \/ EndApplies(s)
    <3>1. ops'[s].kind \in Announcers /\ Others(s)
      BY <1>g, <2>7 DEF CheckApplies, StartApplies, EndApplies, Pc, Announcers, JobName
    <3>. QED
      BY <1>a, <2>7, <3>1, AddAnnounce, KeepAnnounce DEF CheckApplies, StartApplies, EndApplies
  <2>8. CASE Commit(s) \/ DeleteCommits(s)
    BY <1>h, <2>8 DEF Commit, Stored, DeleteCommits
  <2>. QED
    BY <1>2, <2>1, <2>2, <2>3, <2>4, <2>5, <2>6, <2>7, <2>8 DEF Continues
<1>3. ASSUME NEW s \in Slots, Fails(s) PROVE FewAnnounce'
  BY <1>a, <1>e, <1>f, <1>h, <1>3, KeepAnnounce
  DEF Fails, CommitUnacknowledged, Stored, SaveFails, Pc
<1>4. ASSUME NEW j \in jobs, JobDelivered(j) PROVE FewAnnounce'
  BY <1>b, <1>d, <1>4 DEF JobDelivered, JobIgnored, JobReads
<1>5. CASE Crash
  BY <1>5 DEF Crash, FewAnnounce, Instances
<1>6. ASSUME NEW d \in deliveries, Handle(d) PROVE FewAnnounce'
  BY <1>a, <1>6 DEF Handle, FewAnnounce
<1>7. CASE Tick \/ UNCHANGED vars
  BY <1>b, <1>7 DEF Tick, vars
<1>. QED
  BY <1>1, <1>2, <1>3, <1>4, <1>5, <1>6, <1>7 DEF Next

\* A "ParticipantsCheckPassed" that some instance holds.
PassedSomewhere == \E i \in Instances : PassedIn(i)
Passed == "ParticipantsCheckPassed"

\* A check adds it, a commit that has events to dispatch delivers it, and its
\* handler schedules the start: there is no other way to any of the three.
Dispatches(s) == domainEvents[s] # {} /\ (Stored(s) \/ DeleteCommits(s))
PassedComesFrom ==
  /\ PassedSomewhere' => PassedSomewhere \/ Handling({"PARTICIPANT_CHECK"})
  /\ Pending(Passed)' =>
       \/ Pending(Passed)
       \/ PassedSomewhere /\ \E s \in Slots : Dispatches(s)
  /\ Scheduled("LOCATION_SHARING_START")' =>
       Scheduled("LOCATION_SHARING_START") \/ Pending(Passed)

LEMMA PassedStep ==
  ASSUME TypeOK, [Next]_vars
  PROVE  PassedComesFrom
<1>a. RegistryType /\ JobsType /\ OpsType
  BY TypeParts
<1>. DEFINE P == PassedSomewhere' => PassedSomewhere \/ Handling({"PARTICIPANT_CHECK"})
            D == Pending(Passed)' => \/ Pending(Passed)
                                     \/ PassedSomewhere /\ \E s \in Slots : Dispatches(s)
            S == Scheduled("LOCATION_SHARING_START")' =>
                   Scheduled("LOCATION_SHARING_START") \/ Pending(Passed)
<1>b. ASSUME UNCHANGED registryVars PROVE P /\ D
  BY <1>b DEF registryVars, PassedSomewhere, PassedIn, Pending
<1>c. ASSUME UNCHANGED jobs PROVE S
  BY <1>c DEF Scheduled
<1>d. ASSUME NEW s \in Slots, NEW d, AddDomainEvent(s, d), d.type # Passed PROVE P /\ D
  BY <1>a, <1>d DEF AddDomainEvent, RegistryType, Instances, PassedSomewhere, PassedIn, Passed, Pending
<1>e. ASSUME NEW s \in Slots, Forget(s) PROVE P /\ D
  BY <1>a, <1>e DEF Forget, RegistryType, Instances, PassedSomewhere, PassedIn, Pending
<1>f. ASSUME NEW s \in Slots, Stored(s) \/ DeleteCommits(s) PROVE P /\ D
  <2>1. DispatchEventsForAggregate(s, Handled)
    BY <1>f DEF Stored, DeleteCommits
  <2>2. CASE domainEvents[s] = {} \/ marked = NoInstance
    BY <1>a, <2>1, <2>2 DEF DispatchEventsForAggregate, RegistryType, Instances,
       PassedSomewhere, PassedIn, Pending
  <2>3. CASE ~(domainEvents[s] = {} \/ marked = NoInstance)
    <3>1. /\ marked \in Instances
          /\ deliveries' = deliveries \cup (domainEvents[marked] \cap Handled)
          /\ \A i \in Instances : domainEvents'[i] \in {domainEvents[i], {}}
      BY <1>a, <2>1, <2>3 DEF DispatchEventsForAggregate, RegistryType, Instances
    <3>. QED
      BY <1>f, <2>3, <3>1 DEF PassedSomewhere, PassedIn, Passed, Pending, Dispatches
  <2>. QED
    BY <2>2, <2>3
<1>g. ASSUME NEW type, NEW at PROVE Announcing(type).type = type /\ AnnouncingAt(type, at).type = type
  BY DEF Announcing, AnnouncingAt
<1>h. ASSUME NEW at \in Nat, jobs' \in {jobs, WithJob("PARTICIPANT_CHECK", at)} PROVE S
  BY <1>h DEF WithJob, Scheduled
<1>i. ASSUME NEW name, jobs' \in {jobs, WithoutJob(name), Deactivated(name), Orphaned} PROVE S
  <2>1. ASSUME NEW k \in jobs' PROVE \E i \in jobs : i.name = k.name
    <3>1. CASE jobs' \in {jobs, WithoutJob(name)}
      BY <3>1 DEF WithoutJob
    <3>2. CASE jobs' = Deactivated(name)
      <4>1. PICK i \in jobs :
              k = [i EXCEPT !.active = IF i.name = name THEN FALSE ELSE i.active]
        BY <3>2 DEF Deactivated
      <4>. QED
        BY <1>a, <4>1 DEF JobsType, Job
    <3>3. CASE jobs' = Orphaned
      <4>1. PICK i \in jobs : k = i \/ k = [i EXCEPT !.active = FALSE]
        BY <3>3 DEF Orphaned
      <4>. QED
        BY <1>a, <4>1 DEF JobsType, Job
    <3>. QED
      BY <1>i, <3>1, <3>2, <3>3
  <2>. QED
    BY <2>1 DEF Scheduled
<1>. HIDE DEF P, D, S
<1>1. ASSUME NEW s \in Slots, Reads(s) PROVE P /\ D /\ S
  <2>1. ASSUME NEW t \in CheckTimes, CreateBegins(s, t) PROVE P /\ D /\ S
    BY <1>c, <1>d, <1>g, <2>1 DEF CreateBegins, queueVars, Passed
  <2>2. ASSUME NEW p, DepartReads(s, p) PROVE P /\ D /\ S
    BY <1>c, <1>d, <1>g, <2>2 DEF DepartReads, queueVars, Passed
  <2>3. ASSUME NEW t \in CheckTimes, RescheduleReads(s, t) PROVE P /\ D /\ S
    BY <1>b, <1>c, <2>3 DEF RescheduleReads, queueVars
  <2>4. ASSUME NEW u \in Users, JoinReads(s, u) \/ LeaveGroupReads(s, u) PROVE P /\ D /\ S
    BY <1>b, <1>c, <2>4 DEF JoinReads, LeaveGroupReads, queueVars
  <2>5. ASSUME UpdateReads(s) \/ DeleteReads(s) PROVE P /\ D /\ S
    BY <1>b, <1>c, <2>5 DEF UpdateReads, DeleteReads, queueVars
  <2>6. ASSUME NEW p, WithdrawReads(s, p) \/ ArriveReads(s, p) PROVE P /\ D /\ S
    BY <1>b, <1>c, <2>6 DEF WithdrawReads, ArriveReads, queueVars
  <2>. QED
    BY <1>1, <2>1, <2>2, <2>3, <2>4, <2>5, <2>6 DEF Reads
<1>2. ASSUME NEW s \in Slots, Continues(s) PROVE P /\ D /\ S
  <2>1. CASE JoinConflicts(s) \/ DeleteFails(s)
    BY <1>c, <1>e, <2>1 DEF JoinConflicts, DeleteFails, Throw, queueVars
  <2>2. CASE LeaveGroupWithdraws(s)
    BY <1>b, <1>c, <2>2 DEF LeaveGroupWithdraws, queueVars
  <2>3. CASE DeleteMarks(s)
    BY <1>c, <1>d, <1>g, <2>3 DEF DeleteMarks, queueVars, Passed
  <2>4. CASE Unschedule(s)
    BY <1>b, <1>e, <1>i, <2>4 DEF Unschedule, Throw
  <2>5. CASE ScheduleCheck(s)
    <3>1. ops[s] \in Op /\ ops[s].event.checkTime \in Nat
      BY <1>a, <2>5, AtCall DEF ScheduleCheck, Pc, Op, Event
    <3>. QED
      BY <1>b, <1>e, <1>h, <2>5, <3>1 DEF ScheduleCheck, Throw
  <2>6. CASE Rollback(s)
    BY <1>b, <1>e, <1>i, <2>6 DEF Rollback, Throw
  <2>7. CASE Restore(s)
    <3>1. ops[s].at \in Nat
      BY <1>a, <2>7, AtCall DEF Restore, Pc, Op
    <3>. QED
      BY <1>e, <1>h, <2>7, <3>1 DEF Restore, Throw
  <2>8. CASE CheckApplies(s)
    <3>1. P
      BY <2>8 DEF CheckApplies, Handling, P
    <3>2. deliveries' = deliveries
      BY <2>8 DEF CheckApplies, AddDomainEvent, registryVars
    <3>3. D
      BY <3>2 DEF D, Pending
    <3>. QED
      BY <1>c, <2>8, <3>1, <3>3 DEF CheckApplies, queueVars
  <2>9. CASE StartApplies(s) \/ EndApplies(s)
    BY <1>c, <1>d, <1>g, <2>9 DEF StartApplies, EndApplies, queueVars, Passed
  <2>10. CASE Commit(s)
    <3>1. jobs' \subseteq jobs
      BY <2>10 DEF Commit, Finished
    <3>2. S
      BY <3>1 DEF S, Scheduled
    <3>. QED
      BY <1>f, <2>10, <3>2 DEF Commit
  <2>11. CASE DeleteCommits(s)
    BY <1>c, <1>f, <2>11 DEF DeleteCommits, queueVars
  <2>. QED
    BY <1>2, <2>1, <2>2, <2>3, <2>4, <2>5, <2>6, <2>7, <2>8, <2>9, <2>10, <2>11
    DEF Continues
<1>3. ASSUME NEW s \in Slots, Fails(s) PROVE P /\ D /\ S
  BY <1>b, <1>e, <1>f, <1>i, <1>3 DEF Fails, CommitUnacknowledged, SaveFails, Throw
<1>4. ASSUME NEW j \in jobs, JobDelivered(j) PROVE P /\ D /\ S
  <2>1. \A k \in jobs' : \E i \in jobs : i.name = k.name
    BY <1>a, <1>4 DEF JobDelivered, JobIgnored, JobReads, Activated, JobsType, Job
  <2>2. S
    BY <2>1 DEF S, Scheduled
  <2>. QED
    BY <1>b, <1>4, <2>2 DEF JobDelivered, JobIgnored, JobReads
<1>5. ASSUME NEW d \in deliveries, Handle(d) PROVE P /\ D /\ S
  <2>1. P /\ D
    BY <1>5 DEF Handle, P, D, PassedSomewhere, PassedIn, Pending
  <2>2. ASSUME CheckPassedHandled(d) PROVE S
    BY <2>2 DEF CheckPassedHandled, S, Pending, Passed
  <2>3. ASSUME StartedHandled(d) PROVE S
    BY <2>3 DEF StartedHandled, ScheduledBy, WithJob, S, Scheduled
  <2>4. ASSUME ElsewhereHandled(d) PROVE S
    BY <1>c, <2>4 DEF ElsewhereHandled
  <2>. QED
    BY <1>5, <2>1, <2>2, <2>3, <2>4 DEF Handle
<1>6. ASSUME Crash PROVE P /\ D /\ S
  <2>1. P /\ D
    BY <1>6 DEF Crash, P, D, PassedSomewhere, PassedIn, Pending
  <2>. QED
    BY <1>i, <1>6, <2>1 DEF Crash
<1>7. ASSUME Tick \/ UNCHANGED vars PROVE P /\ D /\ S
  BY <1>b, <1>c, <1>7 DEF Tick, vars, queueVars
<1>8. P /\ D /\ S
  BY <1>1, <1>2, <1>3, <1>4, <1>5, <1>6, <1>7 DEF Next
<1>. QED
  BY <1>8 DEF P, D, S, PassedComesFrom

-----------------------------------------------------------------------------
(***************************************************************************)
(* SerialInv is inductive as long as requests do not overlap.              *)
(***************************************************************************)
LEMMA SoundStep ==
  ASSUME SerialInv, TypeOK', DbStep
  PROVE  DbSound'
<1>a. (db # None => db \in Event /\ Sound(db) /\ ~NotYet) /\ (db' # None => db' \in Event)
  BY DEF SerialInv, DbSound, TypeOK
<1>1. CASE db' = db /\ (NotYet' <=> NotYet)
  BY <1>a, <1>1 DEF DbSound
<1>2. CASE db' = None
  BY <1>2 DEF DbSound
<1>3. CASE ~NotYet' /\ \E t \in Nat : db' = NewEvent(0, t)
  BY <1>3, NewIsSound DEF DbSound
<1>4. CASE db # None /\ db' # None /\ ~NotYet' /\ Changed(db, db')
  BY <1>a, <1>4, ChangeIsSound DEF DbSound
<1>. QED
  BY <1>1, <1>2, <1>3, <1>4 DEF DbStep

\* What a commit that dispatches leaves in the database: nothing, the event
\* that was just created, or an event whose list is closed.
LEMMA DispatchesWhenClosed ==
  ASSUME SerialInv, NEW s \in Slots, Dispatches(s), ~NotYet
  PROVE  db' # None => db'.checked
<1>a. OpsType /\ DbType
  BY TypeParts DEF SerialInv
<1>1. /\ ops[s] \in Op /\ Derived(db, ops[s]) /\ ops[s].kind \in Announcers
      /\ ops[s].pc \in {"save", "delete"}
  BY <1>a, AtCall, OpNotIdle
  DEF Dispatches, Stored, DeleteCommits, Pc, SerialInv, OpsDerived, FewAnnounce, At
<1>2. CASE DeleteCommits(s)
  BY <1>2 DEF DeleteCommits
<1>3. CASE Stored(s)
  <2>1. ops[s].pc = "save" /\ ops[s].kind # "create"
    BY <1>3 DEF Stored, At, NotYet, Handling
  <2>2. db \in Event /\ db # None /\ Sound(db)
    BY <1>a, <1>1, <2>1, CallersAre DEF DbType, SerialInv, DbSound
  <2>3. db' = ops[s].event
    BY <1>1, <1>3, <2>1, <2>2, CopyIsChange DEF Stored
  <2>4. CASE ops[s].kind = "depart"
    <3>1. ProgressInFlight(db, ops[s])
      BY <1>1, <2>4 DEF Derived, CreateInFlight, JoinInFlight, WithdrawInFlight,
         LeaveInFlight, EditInFlight, JobInFlight, JobName
    <3>2. db.checked /\ ops[s].event.checked = db.checked
      BY <2>2, <3>1 DEF ProgressInFlight, Sound, WithStatus, Event
    <3>. QED
      BY <2>3, <3>2
  <2>5. CASE ops[s].kind \in JobName
    <3>1. JobInFlight(db, ops[s])
      BY <1>1, <2>5, CallersAre
    <3>2. CASE ops[s].event = CheckParticipantsForStart(db)
      BY <2>2, <2>3, <3>2 DEF CheckParticipantsForStart, Sound, Event
    <3>3. CASE ops[s].kind = "LOCATION_SHARING_START" /\ ops[s].event = Start(db)
      BY <2>2, <2>3, <3>1, <3>3 DEF JobInFlight, Start, Event
    <3>4. CASE ops[s].kind = "END" /\ \E run \in Nat : ops[s].event = End(db, run)
      BY <2>2, <2>3, <3>1, <3>4 DEF JobInFlight, CanEnd, Sound, End, Event
    <3>. QED
      BY <2>1, <3>1, <3>2, <3>3, <3>4 DEF JobInFlight
  <2>6. ops[s].kind # "delete"
    BY <1>1, <2>1 DEF Derived, CreateInFlight, JoinInFlight, WithdrawInFlight,
       LeaveInFlight, EditInFlight, ProgressInFlight, JobInFlight, JobName
  <2>. QED
    BY <1>1, <2>1, <2>4, <2>5, <2>6 DEF Announcers
<1>. QED
  BY <1>2, <1>3 DEF Dispatches

LEMMA StartStep ==
  ASSUME SerialInv, TypeOK', DbStep, PassedComesFrom, ~NotYet => ~NotYet'
  PROVE  StartComesAfterCheck'
<1>a. (db # None => db \in Event /\ Sound(db) /\ ~NotYet) /\ (db' # None => db' \in Event)
  BY DEF SerialInv, DbSound, TypeOK
<1>. DEFINE Coming == Scheduled("LOCATION_SHARING_START") \/ Pending(Passed)
<1>b. Coming => ~NotYet /\ (db # None => db.checked)
  BY DEF SerialInv, StartComesAfterCheck, Passed
<1>c. NotYet => ~PassedSomewhere
  BY DEF SerialInv, StartComesAfterCheck, PassedSomewhere
<1>d. ~NotYet => (db = None => db' = None)
  BY <1>a DEF DbStep
<1>1. ASSUME Coming' PROVE ~NotYet' /\ (db' # None => db'.checked)
  <2>1. CASE Coming
    <3>1. db' # None => db # None /\ Changed(db, db')
      BY <1>b, <2>1 DEF DbStep, Changed
    <3>. QED
      BY <1>a, <1>b, <2>1, <3>1, ChangeKeepsChecked
  <2>2. CASE PassedSomewhere /\ \E s \in Slots : Dispatches(s)
    BY <1>c, <2>2, DispatchesWhenClosed
  <2>. QED
    BY <1>1, <2>1, <2>2 DEF PassedComesFrom
<1>2. NotYet' => ~PassedSomewhere'
  <2>1. ASSUME NotYet, Handling({"PARTICIPANT_CHECK"}) PROVE FALSE
    <3>1. PICK s \in Slots : ops[s].kind = "PARTICIPANT_CHECK"
      BY <2>1 DEF Handling
    <3>2. Derived(db, ops[s])
      BY <3>1 DEF SerialInv, OpsDerived, Idle
    <3>. QED
      BY <1>a, <2>1, <3>1, <3>2, CallersAre DEF JobName
  <2>. QED
    BY <1>c, <2>1 DEF PassedComesFrom
<1>. QED
  BY <1>1, <1>2 DEF StartComesAfterCheck, PassedSomewhere, Passed

LEMMA SerialStep == SerialInv /\ NoOverlap /\ NoOverlap' /\ [Next]_vars => SerialInv'
<1>. SUFFICES ASSUME SerialInv, NoOverlap, NoOverlap', [Next]_vars PROVE SerialInv'
  OBVIOUS
<1>1. TypeOK /\ TypeOK'
  BY TypeStep DEF SerialInv
<1>2. DbStep
  BY DbStepHolds
<1>3. ~NotYet => ~NotYet'
  BY <1>1, CreateStep DEF NotYet, Handling
<1>4. Counting'
  BY <1>1, CreateStep DEF SerialInv, Counting, Handling
<1>5. PassedComesFrom
  BY <1>1, PassedStep
<1>. QED
  BY <1>1, <1>2, <1>3, <1>4, <1>5, SoundStep, DerivedStep, AnnounceStep, StartStep
  DEF SerialInv

LEMMA SerialInit == Init => SerialInv
<1>. SUFFICES ASSUME Init PROVE SerialInv
  OBVIOUS
<1>1. TypeOK
  BY InitType
<1>2. /\ db = None /\ nextRow = 0 /\ jobs = {} /\ deliveries = {}
      /\ \A s \in Slots : ops[s] = Idle
      /\ \A i \in Instances : domainEvents[i] = {}
  BY DEF Init, QueueInit, RegistryInit
<1>. QED
  BY <1>1, <1>2 DEF SerialInv, DbSound, Counting, Handling, Idle, OpsDerived, FewAnnounce,
     Instances, StartComesAfterCheck, Scheduled, Pending, PassedIn

\* The invariant of requests that do not overlap.
LEMMA SerialCorrect == Spec /\ []NoOverlap => []SerialInv
BY SerialInit, SerialStep, PTL DEF Spec

-----------------------------------------------------------------------------
(***************************************************************************)
(* What follows for the saved event.                                       *)
(***************************************************************************)

\* Requests that do not overlap give no user a second row in an event: the
\* check of addParticipant is enough without a unique key in the table.
THEOREM NobodyTakesPartTwice == Spec /\ []NoOverlap => []OneParticipation
<1>1. SerialInv => OneParticipation
  BY DEF SerialInv, DbSound, Sound, OneRowEach, OneParticipation
<1>. QED
  BY <1>1, SerialCorrect, PTL

\* What a function makes of a finite set is finite.
LEMMA FiniteImage ==
  ASSUME NEW S, IsFiniteSet(S), NEW f
  PROVE  IsFiniteSet({f[x] : x \in S})
<1>. DEFINE T == {f[x] : x \in S}
            g == [x \in S |-> f[x]]
<1>1. g \in Surjection(S, T)
  BY DEF Surjection
<1>. HIDE DEF g, T
<1>2. IsFiniteSet(T)
  BY <1>1, FS_Surjection
<1>. QED
  BY <1>2 DEF T

\* The participants of a finite list are finitely many users.
LEMMA UsersAreFinite == ASSUME NEW e, Sound(e) PROVE IsFiniteSet(UsersOf(e))
<1>. DEFINE f == [p \in e.participants |-> p.user]
<1>1. {f[p] : p \in e.participants} = UsersOf(e)
  BY DEF UsersOf
<1>2. IsFiniteSet(e.participants)
  BY DEF Sound
<1>. HIDE DEF f
<1>3. IsFiniteSet({f[p] : p \in e.participants})
  BY <1>2, FiniteImage
<1>. QED
  BY <1>1, <1>3

\* Two users in a finite list are a quorum of users.
LEMMA TwoUsers ==
  ASSUME NEW e \in Event, Sound(e), TwoThere(e)
  PROVE  Cardinality(UsersOf(e)) >= MIN_PARTICIPANTS_FOR_START
<1>1. IsFiniteSet(UsersOf(e)) /\ Cardinality(UsersOf(e)) \in Nat
  BY UsersAreFinite, FS_CardinalityType
<1>2. PICK p, q \in e.participants : p # q
  BY DEF TwoThere
<1>3. p.user # q.user /\ {p.user, q.user} \subseteq UsersOf(e)
  BY <1>2 DEF Sound, OneRowEach, UsersOf
<1>4. Cardinality({p.user, q.user}) = 2 /\ IsFiniteSet({p.user, q.user})
  <2>1. IsFiniteSet({p.user}) /\ Cardinality({p.user}) = 1
    BY FS_Singleton
  <2>2. IsFiniteSet({p.user} \cup {q.user}) /\ Cardinality({p.user} \cup {q.user}) = 1 + 1
    BY <1>3, <2>1, FS_AddElement
  <2>3. {p.user} \cup {q.user} = {p.user, q.user}
    OBVIOUS
  <2>. QED
    BY <2>2, <2>3
<1>5. 2 <= Cardinality(UsersOf(e))
  BY <1>1, <1>3, <1>4, FS_Subset
<1>. QED
  BY <1>1, <1>5 DEF MIN_PARTICIPANTS_FOR_START

\* An event that has started was checked with a quorum that is still there,
\* whatever the delays and the retries of the check and of the start.
THEOREM EventsStartWithQuorum == Spec /\ []NoOverlap => []StartedWithQuorum
<1>1. SerialInv => StartedWithQuorum
  <2>. SUFFICES ASSUME SerialInv, db # None, db.status \in {"IN_PROGRESS", "ENDED"}
                PROVE  db.checked /\ Cardinality(UsersOf(db)) >= MIN_PARTICIPANTS_FOR_START
    BY DEF StartedWithQuorum
  <2>1. db \in Event /\ Sound(db)
    BY DEF SerialInv, TypeOK, DbSound
  <2>2. db.checked /\ TwoThere(db)
    BY <2>1 DEF Sound
  <2>. QED
    BY <2>1, <2>2, TwoUsers
<1>. QED
  BY <1>1, SerialCorrect, PTL

\* The results of one end() are one for each user.
LEMMA ResultsAreComplete ==
  ASSUME NEW e \in Event, Sound(e), NEW run \in Nat, e.results = ResultsOf(e, run)
  PROVE  /\ \A p \in e.participants : \E r \in e.results :
              r.user = p.user /\ r.result = MapParticipantStatusToResult(p.status)
         /\ Cardinality(e.results) = Cardinality(UsersOf(e))
         /\ \A r \in e.results : r.user \in UsersOf(e)
         /\ \A r, n \in e.results : r.user = n.user => r = n
<1>. DEFINE row(p) == [run |-> run, id |-> p.id, user |-> p.user,
                       result |-> MapParticipantStatusToResult(p.status)]
<1>1. e.results = {row(p) : p \in e.participants}
  BY DEF ResultsOf
<1>2. \A p : row(p).user = p.user /\ row(p).result = MapParticipantStatusToResult(p.status)
  OBVIOUS
<1>. HIDE DEF row
<1>3. \A p \in e.participants : \E r \in e.results :
        r.user = p.user /\ r.result = MapParticipantStatusToResult(p.status)
  BY <1>1, <1>2
<1>4. \A r \in e.results : r.user \in UsersOf(e)
  BY <1>1, <1>2 DEF UsersOf
<1>5. \A r, n \in e.results : r.user = n.user => r = n
  BY <1>1, <1>2 DEF Sound, OneRowEach
<1>6. Cardinality(e.results) = Cardinality(UsersOf(e))
  <2>. DEFINE f == [r \in e.results |-> r.user]
  <2>1. f \in Bijection(e.results, UsersOf(e))
    <3>1. f \in [e.results -> UsersOf(e)]
      BY <1>4
    <3>2. \A u \in UsersOf(e) : \E r \in e.results : f[r] = u
      BY <1>3 DEF UsersOf
    <3>. QED
      BY <1>5, <3>1, <3>2 DEF Bijection, Injection, Surjection, IsInjective
  <2>2. ExistsBijection(e.results, UsersOf(e))
    BY <2>1 DEF ExistsBijection
  <2>3. IsFiniteSet(UsersOf(e)) /\ IsFiniteSet(e.results)
    <3>. DEFINE g == [p \in e.participants |-> row(p)]
    <3>1. {g[p] : p \in e.participants} = e.results
      BY <1>1
    <3>2. IsFiniteSet(e.participants)
      BY DEF Sound
    <3>. HIDE DEF g
    <3>3. IsFiniteSet({g[p] : p \in e.participants})
      BY <3>2, FiniteImage
    <3>. QED
      BY <3>1, <3>3, UsersAreFinite
  <2>. QED
    BY <2>2, <2>3, FS_Bijection
<1>. QED
  BY <1>3, <1>4, <1>5, <1>6

\* An ended event has one result for each of its participants, the one the
\* participant's last status deserves, although end() may run again after a
\* lost acknowledgement.
THEOREM AttendanceIsComplete == Spec /\ []NoOverlap => []AttendanceComplete
<1>1. SerialInv => AttendanceComplete
  <2>. SUFFICES ASSUME SerialInv, db # None, db.status = "ENDED"
                PROVE  /\ \A p \in db.participants : \E r \in db.results :
                            /\ r.user = p.user
                            /\ r.result = MapParticipantStatusToResult(p.status)
                       /\ Cardinality(db.results) = Cardinality(UsersOf(db))
                       /\ \A r \in db.results : r.user \in UsersOf(db)
    BY DEF AttendanceComplete
  <2>1. db \in Event /\ Sound(db)
    BY DEF SerialInv, TypeOK, DbSound
  <2>2. PICK run \in Nat : db.results = ResultsOf(db, run)
    BY <2>1 DEF Sound
  <2>. QED
    BY <2>1, <2>2, ResultsAreComplete
<1>. QED
  BY <1>1, SerialCorrect, PTL

-----------------------------------------------------------------------------
(***************************************************************************)
(* The refinement of EventPromise: phase, standing and verdict of an event *)
(* that is given, and what each change does to them.                       *)
(***************************************************************************)
PhaseIn(e) ==
  CASE Open(e) -> "recruiting"
    [] e.status = "RECRUITING" /\ e.checked -> "checked"
    [] e.status = "IN_PROGRESS" -> "inProgress"
    [] e.status = "ENDED"       -> "ended"
    [] e.status = "CANCELLED"   -> "cancelled"

StandingIn(e) ==
  [u \in Users |-> IF u \in UsersOf(e)
                   THEN (CHOOSE p \in e.participants : p.user = u).status ELSE "out"]
VerdictIn(e) ==
  [u \in Users |-> IF \E r \in e.results : r.user = u
                   THEN (CHOOSE r \in e.results : r.user = u).result ELSE "none"]

Nobody      == [u \in Users |-> "out"]
NoVerdict   == [u \in Users |-> "none"]
CreatorOnly == [Nobody EXCEPT ![Creator] = "PREPARING"]

\* The refinement mapping in these terms, in a state and in the next one.
LEMMA MappingIs ==
  ASSUME DbType
  PROVE  /\ PhaseOf = IF db = None THEN IF NotYet THEN "none" ELSE "gone" ELSE PhaseIn(db)
         /\ StandingOf = IF db = None THEN Nobody ELSE StandingIn(db)
         /\ VerdictOf = IF db = None THEN NoVerdict ELSE VerdictIn(db)
<1>1. PhaseOf = IF db = None THEN IF NotYet THEN "none" ELSE "gone" ELSE PhaseIn(db)
  <2>1. NotYet <=> nextRow = 0 \/ \E s \in Slots : ops[s].kind = "create"
    BY DEF NotYet, Handling
  <2>2. CASE db = None
    BY <2>1, <2>2 DEF PhaseOf
  <2>3. CASE db # None
    BY <2>3 DEF PhaseOf, PhaseIn, Open, DbType, Event, EventStatus
  <2>. QED
    BY <2>2, <2>3
<1>2. StandingOf = IF db = None THEN Nobody ELSE StandingIn(db)
  BY DEF StandingOf, StandingIn, Nobody
<1>3. VerdictOf = IF db = None THEN NoVerdict ELSE VerdictIn(db)
  BY DEF VerdictOf, VerdictIn, NoVerdict
<1>. QED
  BY <1>1, <1>2, <1>3

LEMMA NextMappingIs ==
  ASSUME DbType'
  PROVE  /\ PhaseOf' = IF db' = None THEN IF NotYet' THEN "none" ELSE "gone" ELSE PhaseIn(db')
         /\ StandingOf' = IF db' = None THEN Nobody ELSE StandingIn(db')
         /\ VerdictOf' = IF db' = None THEN NoVerdict ELSE VerdictIn(db')
<1>1. PhaseOf' = IF db' = None THEN IF NotYet' THEN "none" ELSE "gone" ELSE PhaseIn(db')
  <2>1. NotYet' <=> nextRow' = 0 \/ \E s \in Slots : ops'[s].kind = "create"
    BY DEF NotYet, Handling
  <2>2. CASE db' = None
    BY <2>1, <2>2 DEF PhaseOf
  <2>3. CASE db' # None
    BY <2>3 DEF PhaseOf, PhaseIn, Open, DbType, Event, EventStatus
  <2>. QED
    BY <2>2, <2>3
<1>2. StandingOf' = IF db' = None THEN Nobody ELSE StandingIn(db')
  BY DEF StandingOf, StandingIn, Nobody, UsersOf
<1>3. VerdictOf' = IF db' = None THEN NoVerdict ELSE VerdictIn(db')
  BY DEF VerdictOf, VerdictIn, NoVerdict
<1>. QED
  BY <1>1, <1>2, <1>3

LEMMA PhaseIs ==
  ASSUME NEW e \in Event
  PROVE  /\ Open(e) <=> PhaseIn(e) = "recruiting"
         /\ e.status = "RECRUITING" /\ e.checked <=> PhaseIn(e) = "checked"
         /\ e.status = "IN_PROGRESS" <=> PhaseIn(e) = "inProgress"
         /\ e.status = "ENDED" <=> PhaseIn(e) = "ended"
         /\ e.status = "CANCELLED" <=> PhaseIn(e) = "cancelled"
BY DEF PhaseIn, Open, Event, EventStatus

\* With one row for each user, the rows say where everyone stands.
LEMMA StandingIs ==
  ASSUME NEW e \in Event, OneRowEach(e)
  PROVE  /\ StandingIn(e) = [u \in Users |-> StandingIn(e)[u]]
         /\ \A p \in e.participants : p.user \in Users /\ StandingIn(e)[p.user] = p.status
         /\ \A u \in Users : u \notin UsersOf(e) => StandingIn(e)[u] = "out"
         /\ \A u \in Users : u \in UsersOf(e) <=> StandingIn(e)[u] # "out"
<1>1. ASSUME NEW p \in e.participants
      PROVE  /\ p.user \in Users /\ p.user \in UsersOf(e) /\ p.status # "out"
             /\ StandingIn(e)[p.user] = p.status
  <2>1. p.user \in Users /\ p.user \in UsersOf(e) /\ p.status # "out"
    BY DEF Event, Participant, ParticipantStatus, UsersOf
  <2>2. (CHOOSE q \in e.participants : q.user = p.user) = p
    BY DEF OneRowEach
  <2>. QED
    BY <2>1, <2>2 DEF StandingIn
<1>2. \A u \in Users : u \notin UsersOf(e) => StandingIn(e)[u] = "out"
  BY DEF StandingIn
<1>3. ASSUME NEW u \in Users, u \in UsersOf(e) PROVE StandingIn(e)[u] # "out"
  BY <1>1, <1>3 DEF UsersOf
<1>4. StandingIn(e) = [u \in Users |-> StandingIn(e)[u]]
  BY DEF StandingIn
<1>. QED
  BY <1>1, <1>2, <1>3, <1>4

\* Two standings are equal when everyone stands the same.
LEMMA SameStanding ==
  ASSUME NEW e \in Event, OneRowEach(e), NEW f, f = [u \in Users |-> f[u]],
         \A u \in Users : StandingIn(e)[u] = f[u]
  PROVE  StandingIn(e) = f
BY StandingIs

\* The list is as long as the quorum when two users are in the event.
LEMMA EnoughIs ==
  ASSUME NEW e \in Event, Sound(e)
  PROVE  HasQuorum(e) <=> \E u, v \in UsersOf(e) : u # v
<1>1. HasQuorum(e) <=> TwoThere(e)
  BY QuorumMeansTwo DEF Sound
<1>2. TwoThere(e) <=> \E u, v \in UsersOf(e) : u # v
  <2>1. ASSUME NEW p \in e.participants, NEW q \in e.participants, p # q
        PROVE  p.user # q.user /\ p.user \in UsersOf(e) /\ q.user \in UsersOf(e)
    BY <2>1 DEF Sound, OneRowEach, UsersOf
  <2>2. ASSUME NEW u \in UsersOf(e), NEW v \in UsersOf(e), u # v PROVE TwoThere(e)
    BY <2>2 DEF TwoThere, UsersOf
  <2>. QED
    BY <2>1, <2>2 DEF TwoThere
<1>. QED
  BY <1>1, <1>2

\* The creator alone is in an event that was just made or rescheduled.
LEMMA CreatorAlone ==
  ASSUME NEW e \in Event, OneRowEach(e), NEW p \in e.participants,
         e.participants = {p}, p.user = Creator, p.status = "PREPARING"
  PROVE  StandingIn(e) = CreatorOnly
<1>1. CreatorOnly = [u \in Users |-> CreatorOnly[u]]
  BY DEF CreatorOnly, Nobody
<1>2. ASSUME NEW u \in Users PROVE StandingIn(e)[u] = CreatorOnly[u]
  <2>1. CASE u = Creator
    BY <2>1, StandingIs DEF CreatorOnly, Nobody
  <2>2. CASE u # Creator
    BY <2>2, StandingIs DEF CreatorOnly, Nobody, UsersOf
  <2>. QED
    BY <2>1, <2>2
<1>. QED
  BY <1>1, <1>2, SameStanding

\* Verdicts: none before the end, each participant's own after it.
LEMMA VerdictIs ==
  ASSUME NEW e \in Event, Sound(e)
  PROVE  /\ e.status # "ENDED" => VerdictIn(e) = NoVerdict
         /\ e.status = "ENDED" =>
              VerdictIn(e) = [u \in Users |->
                CASE StandingIn(e)[u] = "out"       -> "none"
                  [] StandingIn(e)[u] = "PREPARING" -> "ABSENT"
                  [] StandingIn(e)[u] = "DEPARTED"  -> "LATE"
                  [] StandingIn(e)[u] = "ARRIVED"   -> "ARRIVED"]
<1>1. e.status # "ENDED" => VerdictIn(e) = NoVerdict
  BY DEF Sound, VerdictIn, NoVerdict
<1>2. ASSUME e.status = "ENDED", NEW u \in Users
      PROVE  VerdictIn(e)[u] = CASE StandingIn(e)[u] = "out"       -> "none"
                                 [] StandingIn(e)[u] = "PREPARING" -> "ABSENT"
                                 [] StandingIn(e)[u] = "DEPARTED"  -> "LATE"
                                 [] StandingIn(e)[u] = "ARRIVED"   -> "ARRIVED"
  <2>1. PICK run \in Nat : e.results = ResultsOf(e, run)
    BY <1>2 DEF Sound
  <2>2. /\ \A p \in e.participants : \E r \in e.results :
             r.user = p.user /\ r.result = MapParticipantStatusToResult(p.status)
        /\ \A r \in e.results : r.user \in UsersOf(e)
        /\ \A r, n \in e.results : r.user = n.user => r = n
    BY <2>1, ResultsAreComplete
  <2>3. CASE u \notin UsersOf(e)
    <3>1. VerdictIn(e)[u] = "none"
      BY <2>2, <2>3 DEF VerdictIn
    <3>2. StandingIn(e)[u] = "out"
      BY <2>3, StandingIs DEF Sound
    <3>. QED
      BY <3>1, <3>2
  <2>4. CASE u \in UsersOf(e)
    <3>1. PICK p \in e.participants : p.user = u
      BY <2>4 DEF UsersOf
    <3>2. StandingIn(e)[u] = p.status /\ p.status \in ParticipantStatus
      BY <3>1, StandingIs DEF Sound, Event, Participant
    <3>3. PICK r \in e.results :
            r.user = u /\ r.result = MapParticipantStatusToResult(p.status)
      BY <2>2, <3>1
    <3>4. (CHOOSE n \in e.results : n.user = u) = r
      BY <2>2, <3>3
    <3>5. VerdictIn(e)[u] = MapParticipantStatusToResult(p.status)
      BY <3>3, <3>4 DEF VerdictIn
    <3>. QED
      BY <3>2, <3>5 DEF MapParticipantStatusToResult, ParticipantStatus
  <2>. QED
    BY <2>3, <2>4
<1>3. VerdictIn(e) = [u \in Users |-> VerdictIn(e)[u]]
  BY DEF VerdictIn
<1>. QED
  BY <1>1, <1>2, <1>3

\* What each change does to the phase, the standing and the verdict.
LEMMA JoinKept ==
  ASSUME NEW d \in Event, NEW e \in Event, Sound(d), Sound(e), Open(d),
         NEW u \in Users \ UsersOf(d), NEW n \in Nat, e = AddParticipant(d, n, u)
  PROVE  /\ Open(e) /\ VerdictIn(e) = VerdictIn(d)
         /\ StandingIn(d)[u] = "out"
         /\ StandingIn(e) = [StandingIn(d) EXCEPT ![u] = "PREPARING"]
<1>. DEFINE row == [id |-> n, user |-> u, status |-> "PREPARING"]
<1>1. /\ e.participants = d.participants \cup {row}
      /\ row.user = u /\ row.status = "PREPARING"
      /\ e.status = d.status /\ e.checked = d.checked /\ e.results = d.results
  BY DEF AddParticipant, Event
<1>. HIDE DEF row
<1>2. OneRowEach(d) /\ OneRowEach(e)
  BY DEF Sound
<1>3. ASSUME NEW v \in Users
      PROVE  StandingIn(e)[v] = [StandingIn(d) EXCEPT ![u] = "PREPARING"][v]
  <2>0. [StandingIn(d) EXCEPT ![u] = "PREPARING"][v]
          = IF v = u THEN "PREPARING" ELSE StandingIn(d)[v]
    BY StandingIs, <1>2
  <2>1. CASE v = u
    BY <1>1, <1>2, <2>0, <2>1, StandingIs
  <2>2. CASE v # u /\ v \in UsersOf(d)
    <3>1. PICK p \in d.participants : p.user = v
      BY <2>2 DEF UsersOf
    <3>. QED
      BY <1>1, <1>2, <2>0, <2>2, <3>1, StandingIs
  <2>3. CASE v # u /\ v \notin UsersOf(d)
    <3>1. v \notin UsersOf(e)
      BY <1>1, <2>3 DEF UsersOf
    <3>. QED
      BY <1>2, <2>0, <2>3, <3>1, StandingIs
  <2>. QED
    BY <2>1, <2>2, <2>3
<1>4. StandingIn(e) = [StandingIn(d) EXCEPT ![u] = "PREPARING"]
  BY <1>2, <1>3, SameStanding, StandingIs
<1>5. StandingIn(d)[u] = "out"
  BY <1>2, StandingIs
<1>. QED
  BY <1>1, <1>4, <1>5 DEF Open, VerdictIn

LEMMA LeaveKept ==
  ASSUME NEW d \in Event, NEW e \in Event, Sound(d), Sound(e), Open(d),
         NEW p \in d.participants, e = RemoveParticipant(d, p)
  PROVE  /\ Open(e) /\ VerdictIn(e) = VerdictIn(d)
         /\ p.user \in Users /\ StandingIn(d)[p.user] # "out"
         /\ StandingIn(e) = [StandingIn(d) EXCEPT ![p.user] = "out"]
<1>1. /\ e.participants = d.participants \ {p}
      /\ e.status = d.status /\ e.checked = d.checked /\ e.results = d.results
  BY DEF RemoveParticipant, Event
<1>2. OneRowEach(d) /\ OneRowEach(e)
  BY DEF Sound
<1>u. p.user \in Users /\ p.user \in UsersOf(d)
  BY DEF Event, Participant, UsersOf
<1>3. ASSUME NEW v \in Users
      PROVE  StandingIn(e)[v] = [StandingIn(d) EXCEPT ![p.user] = "out"][v]
  <2>0. [StandingIn(d) EXCEPT ![p.user] = "out"][v]
          = IF v = p.user THEN "out" ELSE StandingIn(d)[v]
    BY StandingIs, <1>2
  <2>1. CASE v = p.user
    <3>1. v \notin UsersOf(e)
      BY <1>1, <1>2, <2>1 DEF UsersOf, OneRowEach
    <3>. QED
      BY <1>2, <2>0, <2>1, <3>1, StandingIs
  <2>2. CASE v # p.user /\ v \in UsersOf(d)
    <3>1. PICK q \in d.participants : q.user = v
      BY <2>2 DEF UsersOf
    <3>2. q \in e.participants
      BY <1>1, <2>2, <3>1
    <3>. QED
      BY <1>2, <2>0, <2>2, <3>1, <3>2, StandingIs
  <2>3. CASE v # p.user /\ v \notin UsersOf(d)
    <3>1. v \notin UsersOf(e)
      BY <1>1, <2>3 DEF UsersOf
    <3>. QED
      BY <1>2, <2>0, <2>3, <3>1, StandingIs
  <2>. QED
    BY <2>1, <2>2, <2>3
<1>4. StandingIn(e) = [StandingIn(d) EXCEPT ![p.user] = "out"]
  BY <1>2, <1>3, SameStanding, StandingIs
<1>5. StandingIn(d)[p.user] # "out"
  BY <1>2, <1>u, StandingIs
<1>. QED
  BY <1>1, <1>4, <1>5, <1>u DEF Open, VerdictIn

LEMMA RescheduleKept ==
  ASSUME NEW d \in Event, NEW e \in Event, Sound(d), Sound(e), Open(d),
         NEW t, e = Rescheduled(d, t)
  PROVE  Open(e) /\ VerdictIn(e) = VerdictIn(d) /\ StandingIn(e) = CreatorOnly
<1>1. /\ e.participants = {p \in d.participants : p.user = Creator}
      /\ e.status = d.status /\ e.checked = d.checked /\ e.results = d.results
  BY DEF Rescheduled, DroppedBySchedule, Event
<1>2. PICK p \in d.participants : p.user = Creator
  BY DEF Sound, HasCreator
<1>3. e.participants = {p} /\ p.status = "PREPARING"
  BY <1>1, <1>2 DEF Sound, OneRowEach, Open
<1>4. StandingIn(e) = CreatorOnly
  BY <1>2, <1>3, CreatorAlone DEF Sound
<1>. QED
  BY <1>1, <1>4 DEF Open, VerdictIn

LEMMA ProgressKept ==
  ASSUME NEW d \in Event, NEW e \in Event, Sound(d), Sound(e), d.status = "IN_PROGRESS",
         NEW p \in d.participants, NEW st \in ParticipantStatus, e = WithStatus(d, p, st)
  PROVE  /\ e.status = "IN_PROGRESS" /\ VerdictIn(e) = VerdictIn(d)
         /\ p.user \in Users /\ StandingIn(d)[p.user] = p.status
         /\ StandingIn(e) = [StandingIn(d) EXCEPT ![p.user] = st]
<1>. DEFINE q == [p EXCEPT !.status = st]
<1>1. /\ e.participants = (d.participants \ {p}) \cup {q}
      /\ e.status = d.status /\ e.results = d.results
  BY DEF WithStatus, Event
<1>2. q.user = p.user /\ q.status = st /\ p.user \in Users
  BY DEF Event, Participant
<1>. HIDE DEF q
<1>3. OneRowEach(d) /\ OneRowEach(e)
  BY DEF Sound
<1>4. ASSUME NEW v \in Users
      PROVE  StandingIn(e)[v] = [StandingIn(d) EXCEPT ![p.user] = st][v]
  <2>0. [StandingIn(d) EXCEPT ![p.user] = st][v]
          = IF v = p.user THEN st ELSE StandingIn(d)[v]
    BY StandingIs, <1>3
  <2>1. CASE v = p.user
    BY <1>1, <1>2, <1>3, <2>0, <2>1, StandingIs
  <2>2. CASE v # p.user /\ v \in UsersOf(d)
    <3>1. PICK r \in d.participants : r.user = v
      BY <2>2 DEF UsersOf
    <3>2. r \in e.participants
      BY <1>1, <2>2, <3>1
    <3>. QED
      BY <1>3, <2>0, <2>2, <3>1, <3>2, StandingIs
  <2>3. CASE v # p.user /\ v \notin UsersOf(d)
    <3>1. v \notin UsersOf(e)
      BY <1>1, <1>2, <2>3 DEF UsersOf
    <3>. QED
      BY <1>3, <2>0, <2>3, <3>1, StandingIs
  <2>. QED
    BY <2>1, <2>2, <2>3
<1>5. StandingIn(e) = [StandingIn(d) EXCEPT ![p.user] = st]
  BY <1>3, <1>4, SameStanding, StandingIs
<1>6. StandingIn(d)[p.user] = p.status
  BY <1>3, StandingIs
<1>. QED
  BY <1>1, <1>2, <1>5, <1>6 DEF VerdictIn

\* The same of the rows alone.
StandingAmong(rows) ==
  [u \in Users |-> IF u \in {p.user : p \in rows}
                   THEN (CHOOSE p \in rows : p.user = u).status ELSE "out"]
VerdictAmong(rows) ==
  [u \in Users |-> IF \E r \in rows : r.user = u
                   THEN (CHOOSE r \in rows : r.user = u).result ELSE "none"]

\* The automatic transitions leave everyone where they stand.
LEMMA AutomaticKept ==
  ASSUME NEW d \in Event, NEW e, e.participants = d.participants
  PROVE  /\ StandingIn(e) = StandingIn(d)
         /\ e.results = d.results => VerdictIn(e) = VerdictIn(d)
<1>1. StandingAmong(e.participants) = StandingAmong(d.participants)
  OBVIOUS
<1>2. e.results = d.results => VerdictAmong(e.results) = VerdictAmong(d.results)
  OBVIOUS
<1>3. StandingIn(e) = StandingAmong(e.participants) /\ StandingIn(d) = StandingAmong(d.participants)
  BY DEF StandingIn, StandingAmong, UsersOf
<1>4. VerdictIn(e) = VerdictAmong(e.results) /\ VerdictIn(d) = VerdictAmong(d.results)
  BY DEF VerdictIn, VerdictAmong
<1>. QED
  BY <1>1, <1>2, <1>3, <1>4

-----------------------------------------------------------------------------
(***************************************************************************)
(* Every step is a step of EventPromise or changes nothing that it speaks  *)
(* of.                                                                     *)
(***************************************************************************)
PromiseStep == [Promise!Next]_(Promise!promiseVars)

LEMMA NothingPromised ==
  ASSUME PhaseOf' = PhaseOf, StandingOf' = StandingOf, VerdictOf' = VerdictOf
  PROVE  PromiseStep
BY DEF PromiseStep, Promise!promiseVars

\* The event changes and stays.
LEMMA ChangePromised ==
  ASSUME NEW d \in Event, NEW e \in Event, Sound(d), Sound(e), Changed(d, e),
         PhaseOf = PhaseIn(d), StandingOf = StandingIn(d), VerdictOf = VerdictIn(d),
         PhaseOf' = PhaseIn(e), StandingOf' = StandingIn(e), VerdictOf' = VerdictIn(e)
  PROVE  PromiseStep
<1>. USE DEF PromiseStep, Promise!Next
<1>1. CASE e = d
  BY <1>1, NothingPromised
<1>2. ASSUME Open(d), NEW u \in Users \ UsersOf(d), NEW n \in Nat,
             e = AddParticipant(d, n, u)
      PROVE  PromiseStep
  <2>1. Promise!Join(u)
    BY <1>2, JoinKept, PhaseIs DEF Promise!Join
  <2>. QED
    BY <2>1
<1>3. ASSUME Open(d), NEW p \in d.participants, p.user # Creator,
             e = RemoveParticipant(d, p)
      PROVE  PromiseStep
  <2>1. p.user \in Users /\ Promise!Leave(p.user)
    BY <1>3, LeaveKept, PhaseIs DEF Promise!Leave, Promise!In
  <2>. QED
    BY <2>1
<1>4. ASSUME Open(d), NEW t \in Nat, e = Rescheduled(d, t)
      PROVE  PromiseStep
  <2>1. Promise!Reschedule
    BY <1>4, RescheduleKept, PhaseIs
    DEF Promise!Reschedule, Promise!CreatorOnly, Promise!Nobody, CreatorOnly, Nobody
  <2>. QED
    BY <2>1
<1>5. ASSUME d.status = "IN_PROGRESS", NEW p \in d.participants,
             p.status = "PREPARING", e = WithStatus(d, p, "DEPARTED")
      PROVE  PromiseStep
  <2>1. p.user \in Users /\ Promise!Progress(p.user, "PREPARING", "DEPARTED")
    BY <1>5, ProgressKept, PhaseIs DEF Promise!Progress, ParticipantStatus
  <2>. QED
    BY <2>1
<1>6. ASSUME d.status = "IN_PROGRESS", NEW p \in d.participants,
             p.status = "DEPARTED", e = WithStatus(d, p, "ARRIVED")
      PROVE  PromiseStep
  <2>1. p.user \in Users /\ Promise!Progress(p.user, "DEPARTED", "ARRIVED")
    BY <1>6, ProgressKept, PhaseIs DEF Promise!Progress, ParticipantStatus
  <2>. QED
    BY <2>1
<1>7. CASE e = CheckParticipantsForStart(d)
  <2>1. CASE d.status # "RECRUITING"
    BY <1>1, <1>7, <2>1 DEF CheckParticipantsForStart
  <2>2. CASE d.status = "RECRUITING"
    <3>1. /\ e.participants = d.participants /\ e.results = d.results /\ e.checked
          /\ e.status = IF HasQuorum(d) THEN "RECRUITING" ELSE "CANCELLED"
      BY <1>7, <2>2 DEF CheckParticipantsForStart, Event
    <3>2. StandingOf' = StandingOf /\ VerdictOf' = VerdictOf
      BY <3>1, AutomaticKept
    <3>3. HasQuorum(d) <=> Promise!Enough
      <4>1. \A u : u \in UsersOf(d) <=> u \in Promise!In
        BY StandingIs DEF Promise!In, Sound, UsersOf
      <4>. QED
        BY <4>1, EnoughIs DEF Promise!Enough
    <3>4. CASE d.checked
      <4>1. HasQuorum(d)
        BY <2>2, <3>4, QuorumMeansTwo DEF Sound
      <4>2. PhaseOf' = PhaseOf
        BY <2>2, <3>1, <3>4, <4>1, PhaseIs
      <4>. QED
        BY <3>2, <4>2, NothingPromised
    <3>5. CASE ~d.checked
      <4>1. PhaseOf = "recruiting"
        BY <2>2, <3>5, PhaseIs DEF Open
      <4>2. CASE HasQuorum(d)
        <5>1. PhaseOf' = "checked"
          BY <3>1, <4>2, PhaseIs
        <5>2. Promise!Pass
          BY <3>2, <3>3, <4>1, <4>2, <5>1 DEF Promise!Pass, Promise!Move
        <5>. QED
          BY <5>2
      <4>3. CASE ~HasQuorum(d)
        <5>1. PhaseOf' = "cancelled"
          BY <3>1, <4>3, PhaseIs
        <5>2. Promise!Cancel
          BY <3>2, <3>3, <4>1, <4>3, <5>1 DEF Promise!Cancel, Promise!Move
        <5>. QED
          BY <5>2
      <4>. QED
        BY <4>2, <4>3
    <3>. QED
      BY <3>4, <3>5
  <2>. QED
    BY <2>1, <2>2
<1>8. CASE CanStart(d) /\ d.checked /\ e = Start(d)
  <2>1. /\ e.participants = d.participants /\ e.results = d.results
        /\ e.status = "IN_PROGRESS"
    BY <1>8 DEF Start, Event
  <2>2. Promise!Start
    BY <1>8, <2>1, AutomaticKept, PhaseIs DEF Promise!Start, Promise!Move, CanStart
  <2>. QED
    BY <2>2
<1>9. ASSUME CanEnd(d), NEW run \in Nat, e = End(d, run)
      PROVE  PromiseStep
  <2>1. e.participants = d.participants /\ e.status = "ENDED"
    BY <1>9 DEF End, Event
  <2>2. StandingIn(e) = StandingIn(d)
    BY <2>1, AutomaticKept
  <2>3. VerdictIn(e) = [u \in Users |-> Promise!Deserved(u)]
    <3>1. ASSUME NEW u \in Users PROVE VerdictIn(e)[u] = Promise!Deserved(u)
      <4>1. StandingOf[u] = StandingIn(e)[u]
        BY <2>2
      <4>2. StandingIn(e)[u] \in {"out", "PREPARING", "DEPARTED", "ARRIVED"}
        BY StandingIs DEF Sound, UsersOf, Event, Participant, ParticipantStatus
      <4>3. VerdictIn(e)[u] = CASE StandingIn(e)[u] = "out"       -> "none"
                                [] StandingIn(e)[u] = "PREPARING" -> "ABSENT"
                                [] StandingIn(e)[u] = "DEPARTED"  -> "LATE"
                                [] StandingIn(e)[u] = "ARRIVED"   -> "ARRIVED"
        BY <2>1, VerdictIs
      <4>. QED
        BY <4>1, <4>2, <4>3 DEF Promise!Deserved
    <3>2. VerdictIn(e) = [u \in Users |-> VerdictIn(e)[u]]
      BY DEF VerdictIn
    <3>. QED
      BY <3>1, <3>2
  <2>4. Promise!End
    BY <1>9, <2>1, <2>2, <2>3, PhaseIs DEF Promise!End, Promise!Move, CanEnd
  <2>. QED
    BY <2>4
<1>. QED
  BY <1>1, <1>2, <1>3, <1>4, <1>5, <1>6, <1>7, <1>8, <1>9 DEF Changed

LEMMA CreatePromised ==
  ASSUME NEW e \in Event, Sound(e), NEW t \in Nat, e = NewEvent(0, t),
         PhaseOf = "none", StandingOf = Nobody, VerdictOf = NoVerdict,
         PhaseOf' = PhaseIn(e), StandingOf' = StandingIn(e), VerdictOf' = VerdictIn(e)
  PROVE  PromiseStep
<1>. DEFINE row == [id |-> 0, user |-> Creator, status |-> "PREPARING"]
<1>1. /\ e.participants = {row} /\ row.user = Creator /\ row.status = "PREPARING"
      /\ e.status = "RECRUITING" /\ ~e.checked
  BY DEF NewEvent
<1>. HIDE DEF row
<1>2. PhaseIn(e) = "recruiting" /\ VerdictIn(e) = NoVerdict
  BY <1>1, PhaseIs, VerdictIs DEF Open
<1>3. StandingIn(e) = CreatorOnly
  BY <1>1, CreatorAlone DEF Sound
<1>4. Promise!Create
  BY <1>2, <1>3 DEF Promise!Create, Promise!Move, Promise!CreatorOnly, Promise!Nobody,
     CreatorOnly, Nobody
<1>. QED
  BY <1>4 DEF PromiseStep, Promise!Next

LEMMA PromiseStepHolds ==
  SerialInv /\ SerialInv' /\ NoOverlap /\ NoOverlap' /\ [Next]_vars => PromiseStep
<1>. SUFFICES ASSUME SerialInv, SerialInv', NoOverlap, NoOverlap', [Next]_vars
              PROVE  PromiseStep
  OBVIOUS
<1>1. DbType /\ DbType' /\ DbStep
  <2>1. DbType /\ DbType'
    BY DEF SerialInv, TypeOK, DbType
  <2>. QED
    BY <2>1, DbStepHolds
<1>2. /\ db # None => db \in Event /\ Sound(db) /\ ~NotYet
      /\ db' # None => db' \in Event /\ Sound(db')
  BY <1>1 DEF DbType, SerialInv, DbSound
<1>3. CASE db' = db /\ (NotYet' <=> NotYet)
  BY <1>1, <1>3, MappingIs, NextMappingIs, NothingPromised
<1>4. CASE db = None /\ db' = None /\ NotYet /\ ~NotYet'
  <2>1. Promise!Abandon
    BY <1>1, <1>4, MappingIs, NextMappingIs DEF Promise!Abandon, Promise!Move
  <2>. QED
    BY <2>1 DEF PromiseStep, Promise!Next
<1>5. ASSUME db = None, NotYet, ~NotYet', NEW t \in Nat, db' = NewEvent(0, t), db' # None
      PROVE  PromiseStep
  <2>1. PICK e \in Event : e = db' /\ Sound(e) /\ e # None
    BY <1>2, <1>5
  <2>2. PhaseOf = "none" /\ StandingOf = Nobody /\ VerdictOf = NoVerdict
    BY <1>1, <1>5, MappingIs
  <2>3. PhaseOf' = PhaseIn(e) /\ StandingOf' = StandingIn(e) /\ VerdictOf' = VerdictIn(e)
    BY <1>1, <2>1, NextMappingIs
  <2>. QED
    BY <1>5, <2>1, <2>2, <2>3, CreatePromised
<1>6. ASSUME db # None, db' # None, Changed(db, db') PROVE PromiseStep
  <2>1. PICK d \in Event : d = db /\ Sound(d) /\ d # None
    BY <1>2, <1>6
  <2>2. PICK e \in Event : e = db' /\ Sound(e) /\ e # None
    BY <1>2, <1>6
  <2>3. PhaseOf = PhaseIn(d) /\ StandingOf = StandingIn(d) /\ VerdictOf = VerdictIn(d)
    BY <1>1, <2>1, MappingIs
  <2>4. PhaseOf' = PhaseIn(e) /\ StandingOf' = StandingIn(e) /\ VerdictOf' = VerdictIn(e)
    BY <1>1, <2>2, NextMappingIs
  <2>5. Changed(d, e)
    BY <1>6, <2>1, <2>2
  <2>. QED
    BY <2>1, <2>2, <2>3, <2>4, <2>5, ChangePromised
<1>7. CASE db # None /\ db' = None /\ ~NotYet' /\ Open(db)
  <2>1. PhaseOf = "recruiting" /\ VerdictOf = NoVerdict
    BY <1>1, <1>2, <1>7, MappingIs, PhaseIs, VerdictIs DEF Open
  <2>2. PhaseOf' = "gone" /\ StandingOf' = Nobody /\ VerdictOf' = NoVerdict
    BY <1>1, <1>7, NextMappingIs
  <2>3. Promise!Delete
    BY <2>1, <2>2 DEF Promise!Delete, Promise!Move, Promise!Nobody, Nobody
  <2>. QED
    BY <2>3 DEF PromiseStep, Promise!Next
<1>8. \A t \in Nat : NewEvent(0, t) # None
  BY NewEventType, NoneIsNoEvent
<1>. QED
  BY <1>1, <1>3, <1>4, <1>5, <1>6, <1>7, <1>8 DEF DbStep

LEMMA PromiseInit == Init => Promise!Init
<1>. SUFFICES ASSUME Init PROVE Promise!Init
  OBVIOUS
<1>1. DbType /\ db = None /\ NotYet
  BY DEF Init, DbType, NotYet
<1>2. PhaseOf = "none" /\ StandingOf = Nobody /\ VerdictOf = NoVerdict
  BY <1>1, MappingIs
<1>. QED
  BY <1>2 DEF Promise!Init, Promise!Nobody, Nobody, NoVerdict

\* Requests that do not overlap, with any faults, delays and crashes, take the
\* event only through the steps of EventPromise, the life that the feature's
\* specification promises.
THEOREM ImplementsThePromise == Spec /\ []NoOverlap => KeepsPromise
<1>1. SerialInv /\ SerialInv' /\ NoOverlap /\ NoOverlap' /\ [Next]_vars
        => [Promise!Next]_(Promise!promiseVars)
  BY PromiseStepHolds DEF PromiseStep
<1>. QED
  BY <1>1, PromiseInit, SerialCorrect, PTL DEF Spec, KeepsPromise, Promise!Spec

-----------------------------------------------------------------------------
(***************************************************************************)
(* The announcements.  The registry dispatches by id, so an event that a   *)
(* failed request left marked is dispatched in place of the next one: what *)
(* is announced depends on what the registry was left with.                *)
(***************************************************************************)

\* The event never came to be, or is gone.
Over == db = None /\ ~NotYet

\* BullMQ has lost the check, or stopped while running it: a delete throws, and
\* no check will run any more.
NoFreeCheck == \A j \in jobs : j.name = "PARTICIPANT_CHECK" => j.active
Stuck ==
  /\ Driver = "bullmq" /\ db # None /\ Open(db) /\ NoFreeCheck
  /\ \A s \in Slots : /\ ops[s].kind # "PARTICIPANT_CHECK"
                      /\ ops[s].kind = "reschedule" => ops[s].pc = "unschedule"

\* The registry has nothing of an earlier request, and a job that is about to
\* save a change of status has its announcement there.
Holds(i, type) == \E d \in domainEvents[i] : d.type = type
Bears(s) ==
  /\ ops[s].kind = "PARTICIPANT_CHECK" /\ CanStart(db)
       => Holds(s, IF HasQuorum(db) THEN "ParticipantsCheckPassed" ELSE "EventCancelled")
  /\ ops[s].kind = "LOCATION_SHARING_START" => Holds(s, "EventStarted")
  /\ ops[s].kind = "END" => Holds(s, "EventEnded")
Clear ==
  /\ marked # Leaked /\ domainEvents[Leaked] = {}
  /\ \A s \in Slots : domainEvents[s] # {} => marked = s
  /\ \A s \in Slots : At(s, "save") => Bears(s)

AnnounceInv == Over \/ Stuck \/ Clear

LEMMA ClearSame ==
  ASSUME Clear, db' = db, UNCHANGED <<marked, domainEvents>>,
         \A r \in Slots : ops'[r].pc = "save" /\ ops'[r].kind \in JobName
           => ops[r].pc = "save" /\ ops[r].kind = ops'[r].kind
  PROVE  Clear'
BY DEF Clear, Bears, Holds, At, JobName

\* A request that begins or goes on adds a domain event.
LEMMA ClearAdds ==
  ASSUME SerialInv, SerialInv', NoOverlap', MarkedHasEvents, Clear,
         NEW s \in Slots, NEW d, AddDomainEvent(s, d), Others(s), ops'[s] # Idle,
         ops'[s].pc = "save" => Bears(s)'
  PROVE  Clear'
<1>a. RegistryType /\ FewAnnounce /\ FewAnnounce'
  BY TypeParts DEF SerialInv
<1>1. marked \in {NoInstance, s}
  <2>. SUFFICES ASSUME marked # NoInstance PROVE marked = s
    OBVIOUS
  <2>1. marked \in Slots /\ domainEvents[marked] # {}
    BY <1>a DEF RegistryType, Instances, Clear, MarkedHasEvents
  <2>2. ops[marked] # Idle
    BY <1>a, <2>1 DEF FewAnnounce, Announcers, Idle, JobName
  <2>. QED
    BY <2>1, <2>2 DEF Others, NoOverlap
<1>2. marked' = s /\ domainEvents'[Leaked] = {} /\ s # Leaked
  BY <1>a, <1>1, InstanceNames DEF AddDomainEvent, Clear, RegistryType, Instances
<1>3. ASSUME NEW r \in Slots \ {s} PROVE domainEvents'[r] = {} /\ ~At(r, "save")'
  <2>1. ops'[r] = Idle
    BY DEF NoOverlap
  <2>. QED
    BY <1>a, <2>1 DEF FewAnnounce, Announcers, Idle, JobName, At
<1>. QED
  BY <1>2, <1>3 DEF Clear, At

\* The only request in flight ends and leaves nothing.
LEMMA ClearEnds ==
  ASSUME SerialInv, SerialInv', NoOverlap, NEW s \in Slots, ops[s] # Idle, Return(s),
         marked' # Leaked, domainEvents'[Leaked] = {}
  PROVE  Clear'
<1>1. \A r \in Slots : ops'[r] = Idle
  BY ReturnShape, TypeParts DEF SerialInv, Others, NoOverlap
<1>2. \A r \in Slots : domainEvents'[r] = {} /\ ~At(r, "save")'
  BY <1>1 DEF SerialInv, FewAnnounce, Announcers, Idle, JobName, At
<1>. QED
  BY <1>2 DEF Clear

LEMMA ClearDispatches ==
  ASSUME SerialInv, SerialInv', NoOverlap, Clear, NEW s \in Slots, ops[s] # Idle, Return(s),
         DispatchEventsForAggregate(s, Handled)
  PROVE  Clear'
<1>1. marked' \in {marked, NoInstance} /\ NoInstance # Leaked
  BY InstanceNames DEF DispatchEventsForAggregate, Instances
<1>2. domainEvents'[Leaked] \in {domainEvents[Leaked], {}}
  BY TypeParts DEF DispatchEventsForAggregate, SerialInv, RegistryType, Instances
<1>. QED
  BY <1>1, <1>2, ClearEnds DEF Clear

\* A request without domain events throws.
LEMMA ClearThrows ==
  ASSUME SerialInv, SerialInv', NoOverlap, MarkedHasEvents, Clear,
         NEW s \in Slots, ops[s] # Idle, Throw(s), ops[s].kind \notin Announcers
  PROVE  Clear'
<1>1. domainEvents[s] = {} /\ marked # s /\ s # Leaked
  BY InstanceNames DEF SerialInv, FewAnnounce, MarkedHasEvents, Instances
<1>2. marked' = marked /\ domainEvents'[Leaked] = domainEvents[Leaked]
  BY <1>1, TypeParts DEF Throw, Forget, SerialInv, RegistryType, Instances
<1>. QED
  BY <1>1, <1>2, ClearEnds DEF Clear, Throw

\* A creation throws: there will be no event.
LEMMA CreationOver ==
  ASSUME SerialInv, NoOverlap, NEW s \in Slots, ops[s].kind = "create", Throw(s),
         db' = db, nextRow' = nextRow
  PROVE  Over'
<1>1. ops[s] # Idle
  BY DEF Idle
<1>2. \A r \in Slots : ops'[r] = Idle
  BY <1>1, ReturnShape, TypeParts DEF SerialInv, Others, NoOverlap, Throw
<1>3. db = None /\ nextRow # 0
  BY <1>1, CallersAre DEF SerialInv, OpsDerived, Counting, Handling
<1>. QED
  BY <1>2, <1>3 DEF Over, NotYet, Handling, Idle

LEMMA OverStep ==
  ASSUME SerialInv, NoOverlap, [Next]_vars, Over
  PROVE  Over'
<1>1. ~NotYet'
  BY CreateStep DEF SerialInv, Over, NotYet, Handling
<1>2. DbStep
  BY DbStepHolds
<1>. QED
  BY <1>1, <1>2 DEF Over, DbStep

\* A step of a registry that is clear leaves it clear, unless a creation fails
\* or a delete does for want of a check to remove.
LEMMA ClearContinues ==
  ASSUME SerialInv, SerialInv', NoOverlap, NoOverlap', MarkedHasEvents, Clear,
         "save" \notin Faults, NEW s \in Slots, Continues(s)
  PROVE  AnnounceInv'
<1>. USE DEF AnnounceInv
<1>a. OpsType /\ RegistryType
  BY TypeParts DEF SerialInv
<1>b. ASSUME NEW pc \in Pc, At(s, pc)
      PROVE  ops[s] \in Op /\ ops[s] # Idle /\ Derived(db, ops[s]) /\ ops[s].pc = pc
  BY <1>a, <1>b, AtCall, OpNotIdle DEF SerialInv, OpsDerived, At
<1>c. ASSUME NEW pc \in Pc, At(s, pc), NEW to, Goto(s, to)
      PROVE  ops'[s].kind = ops[s].kind /\ ops'[s].pc = to /\ Others(s)
  BY <1>a, <1>b, <1>c DEF Goto, OpsType, Op, Others
<1>d. ASSUME NEW e, Applied(s, e), NEW pc \in Pc, At(s, pc)
      PROVE  ops'[s].kind = ops[s].kind /\ ops'[s] # Idle /\ Others(s)
  <2>1. ops'[s] = [[ops[s] EXCEPT !.pc = "save"] EXCEPT !.event = e] /\ Others(s)
    BY <1>a, <1>d DEF OpsType, Applied, Others
  <2>2. ops'[s].kind = ops[s].kind /\ ops'[s].pc = "save"
    BY <1>b, <1>d, <2>1 DEF Op
  <2>3. Idle.pc = "idle"
    BY DEF Idle
  <2>. QED
    BY <2>1, <2>2, <2>3
<1>e. ASSUME NEW pc \in Pc, At(s, pc), NEW to, Goto(s, to), db' = db,
             UNCHANGED <<marked, domainEvents>>, to = "save" => ops[s].kind \notin JobName
      PROVE  Clear'
  BY <1>c, <1>e, ClearSame DEF Others
<1>1. CASE JoinConflicts(s)
  BY <1>b, <1>1, ClearThrows DEF JoinConflicts, Pc, Announcers, JobName
<1>2. CASE LeaveGroupWithdraws(s)
  <2>1. ops[s] # Idle /\ Return(s) /\ marked' = marked /\ domainEvents' = domainEvents
    BY <1>b, <1>2 DEF LeaveGroupWithdraws, Pc, registryVars
  <2>. QED
    BY <2>1, ClearEnds DEF Clear
<1>3. CASE DeleteMarks(s)
  <2>1. ops'[s].pc = "unschedule" /\ Others(s)
    BY <1>c, <1>3 DEF DeleteMarks, Pc
  <2>. QED
    BY <1>3, <2>1, ClearAdds DEF DeleteMarks, Idle
<1>4. CASE Unschedule(s)
  <2>1. /\ ops[s] # Idle /\ ops[s] \in Op /\ ops[s].kind \in {"delete", "reschedule"}
        /\ Derived(db, ops[s]) /\ At(s, "unschedule")
    BY <1>b, <1>4, CallersAre DEF Unschedule, Pc
  <2>2. CASE CanRemove("PARTICIPANT_CHECK")
    BY <1>e, <1>4, <2>1, <2>2 DEF Unschedule, Pc, registryVars
  <2>3. CASE ~CanRemove("PARTICIPANT_CHECK") /\ ops[s].kind = "reschedule"
    BY <1>4, <2>1, <2>3, ClearThrows DEF Unschedule, Announcers, JobName
  <2>4. CASE ~CanRemove("PARTICIPANT_CHECK") /\ ops[s].kind = "delete"
    <3>1. db # None /\ Open(db)
      BY <2>1, <2>4 DEF Derived, EditInFlight, CreateInFlight, JoinInFlight,
         WithdrawInFlight, LeaveInFlight, ProgressInFlight, JobInFlight, JobName
    <3>2. db' = db /\ jobs' = jobs /\ Throw(s)
      BY <1>4, <2>4 DEF Unschedule
    <3>3. \A r \in Slots : ops'[r] = Idle
      BY <1>a, <2>1, <3>2, ReturnShape DEF Others, NoOverlap, Throw
    <3>4. Driver = "bullmq" /\ NoFreeCheck
      BY <2>4 DEF CanRemove, NoFreeCheck
    <3>5. Stuck'
      BY <3>1, <3>2, <3>3, <3>4 DEF Stuck, NoFreeCheck, Idle
    <3>. QED
      BY <3>5
  <2>. QED
    BY <2>1, <2>2, <2>3, <2>4
<1>5. CASE ScheduleCheck(s)
  <2>1. /\ ops[s] # Idle /\ ops[s].kind \in {"create", "reschedule"} /\ At(s, "schedule")
    BY <1>b, <1>5, CallersAre DEF ScheduleCheck, Pc
  <2>2. ASSUME NEW to, Goto(s, to), UNCHANGED registryVars PROVE Clear'
    BY <1>e, <1>5, <2>1, <2>2 DEF ScheduleCheck, Pc, registryVars, JobName
  <2>3. CASE Throw(s) /\ ops[s].kind = "create"
    BY <1>5, <2>3, CreationOver DEF ScheduleCheck, countVars
  <2>. QED
    BY <1>5, <2>1, <2>2, <2>3 DEF ScheduleCheck
<1>6. CASE Rollback(s)
  <2>1. /\ ops[s] # Idle /\ ops[s].kind \in {"create", "reschedule"} /\ At(s, "rollback")
    BY <1>b, <1>6, CallersAre DEF Rollback, Pc
  <2>2. ASSUME NEW to, Goto(s, to), UNCHANGED registryVars PROVE Clear'
    BY <1>e, <1>6, <2>1, <2>2 DEF Rollback, Pc, registryVars, JobName
  <2>3. CASE Throw(s) /\ ops[s].kind = "create"
    BY <1>6, <2>3, CreationOver DEF Rollback, countVars
  <2>4. CASE Throw(s) /\ ops[s].kind = "reschedule"
    BY <2>1, <2>4, ClearThrows DEF Announcers, JobName
  <2>. QED
    BY <1>6, <2>1, <2>2, <2>3, <2>4 DEF Rollback
<1>7. CASE Restore(s)
  <2>1. ops[s] # Idle /\ Derived(db, ops[s]) /\ ops[s].pc = "restore" /\ Throw(s)
    BY <1>b, <1>7 DEF Restore, Pc
  <2>2. ops[s].kind = "reschedule"
    BY <2>1 DEF Derived, EditInFlight, CreateInFlight, JoinInFlight,
       WithdrawInFlight, LeaveInFlight, ProgressInFlight, JobInFlight
  <2>. QED
    BY <2>1, <2>2, ClearThrows DEF Announcers, JobName
<1>8. CASE CheckApplies(s)
  <2>1. /\ ops[s] # Idle /\ Derived(db, ops[s]) /\ At(s, "apply") /\ ops[s].pc = "apply"
        /\ ops[s].kind = "PARTICIPANT_CHECK" /\ db' = db
    BY <1>b, <1>8 DEF CheckApplies, Pc
  <2>2. db # None /\ ops[s].event = db
    BY <2>1, CallersAre DEF JobInFlight, JobName
  <2>3. ops'[s].kind = "PARTICIPANT_CHECK" /\ ops'[s] # Idle /\ Others(s)
    BY <1>8, <1>d, <2>1 DEF CheckApplies, Pc
  <2>4. CASE db.status # "RECRUITING"
    <3>1. Bears(s)'
      BY <2>1, <2>3, <2>4 DEF Bears, CanStart
    <3>2. UNCHANGED <<marked, domainEvents>>
      BY <1>8, <2>2, <2>4 DEF CheckApplies, registryVars
    <3>3. \A r \in Slots : At(r, "save")' => Bears(r)'
      BY <2>1, <2>3, <3>1, <3>2 DEF Clear, At, Bears, Holds, Others
    <3>. QED
      BY <3>2, <3>3 DEF Clear
  <2>5. ASSUME db.status = "RECRUITING", NEW d, AddDomainEvent(s, d),
               d.type = IF HasQuorum(db) THEN "ParticipantsCheckPassed" ELSE "EventCancelled"
        PROVE  Clear'
    <3>1. d \in domainEvents'[s]
      BY <1>a, <2>5 DEF AddDomainEvent, RegistryType, Instances
    <3>2. Bears(s)'
      BY <2>1, <2>3, <2>5, <3>1 DEF Bears, Holds, JobName
    <3>. QED
      BY <2>3, <2>5, <3>2, ClearAdds
  <2>. QED
    BY <1>8, <2>2, <2>4, <2>5 DEF CheckApplies, Announcing, AnnouncingAt
<1>9. CASE StartApplies(s) \/ EndApplies(s)
  <2>1. /\ ops[s].kind \in {"LOCATION_SHARING_START", "END"}
        /\ ops'[s].kind = ops[s].kind /\ ops'[s] # Idle /\ Others(s)
    BY <1>9, <1>d DEF StartApplies, EndApplies, Pc
  <2>2. PICK d : /\ AddDomainEvent(s, d)
                 /\ d.type = IF ops[s].kind = "END" THEN "EventEnded" ELSE "EventStarted"
    BY <1>9 DEF StartApplies, EndApplies, Announcing, AnnouncingAt
  <2>3. d \in domainEvents'[s]
    BY <1>a, <2>2 DEF AddDomainEvent, RegistryType, Instances
  <2>4. Bears(s)'
    BY <2>1, <2>2, <2>3 DEF Bears, Holds
  <2>. QED
    BY <2>1, <2>2, <2>4, ClearAdds
<1>10. CASE Commit(s) \/ DeleteCommits(s)
  <2>1. ops[s] # Idle
    BY <1>b, <1>10 DEF Commit, Stored, DeleteCommits, Pc
  <2>. QED
    BY <1>10, <2>1, ClearDispatches DEF Commit, Stored, DeleteCommits
<1>11. CASE DeleteFails(s)
  <2>1. Derived(db, ops[s]) /\ ops[s].pc = "delete" /\ db = None
    BY <1>b, <1>11 DEF DeleteFails, Pc, Fault
  <2>. QED
    BY <2>1, CallersAre
<1>. QED
  BY <1>1, <1>2, <1>3, <1>4, <1>5, <1>6, <1>7, <1>8, <1>9, <1>10, <1>11 DEF Continues

LEMMA ClearStep ==
  ASSUME SerialInv, SerialInv', NoOverlap, NoOverlap', MarkedHasEvents, Clear,
         "save" \notin Faults, [Next]_vars
  PROVE  AnnounceInv'
<1>. USE DEF AnnounceInv
<1>a. OpsType /\ RegistryType /\ JobsType
  BY TypeParts DEF SerialInv
<1>b. ASSUME NEW s \in Slots, NEW op, Begin(s, op)
      PROVE  ops'[s] = op /\ Others(s)
  BY <1>a, <1>b, BeginShape
<1>c. ASSUME NEW s \in Slots, NEW op, Begin(s, op), UNCHANGED registryVars, db' = db,
             op.pc = "save" => op.kind \notin JobName
      PROVE  Clear'
  BY <1>b, <1>c, ClearSame DEF registryVars, Others
<1>1. ASSUME NEW s \in Slots, Reads(s) PROVE Clear'
  <2>1. ASSUME NEW t \in CheckTimes, CreateBegins(s, t) PROVE Clear'
    <3>1. ops'[s].pc = "schedule" /\ Others(s)
      BY <1>b, <2>1, HoldingShape DEF CreateBegins
    <3>. QED
      BY <2>1, <3>1, ClearAdds DEF CreateBegins, Idle
  <2>2. ASSUME NEW p, DepartReads(s, p) PROVE Clear'
    <3>1. ops'[s].kind = "depart" /\ ops'[s].pc = "save" /\ Others(s)
      BY <1>b, <2>2, HoldingKind, HoldingShape DEF DepartReads
    <3>. QED
      BY <2>2, <3>1, ClearAdds DEF DepartReads, Idle, Bears
  <2>3. ASSUME NEW t \in CheckTimes, RescheduleReads(s, t) PROVE Clear'
    <3>. DEFINE op == [Holding("reschedule", "unschedule", Rescheduled(db, t))
                        EXCEPT !.at = db.checkTime, !.removed = Ids(DroppedBySchedule(db))]
    <3>1. op.kind = "reschedule" /\ Begin(s, op)
      BY <2>3, HoldingKind DEF RescheduleReads
    <3>. HIDE DEF op
    <3>. QED
      BY <1>c, <2>3, <3>1 DEF RescheduleReads, JobName
  <2>4. ASSUME NEW u \in Users, JoinReads(s, u) PROVE Clear'
    BY <1>c, <2>4, HoldingKind DEF JoinReads, JobName
  <2>5. ASSUME NEW u \in Users, LeaveGroupReads(s, u) PROVE Clear'
    <3>. DEFINE op == [Holding("leave", "withdraw", db) EXCEPT !.user = u]
    <3>1. op.kind = "leave" /\ Begin(s, op)
      BY <2>5, HoldingKind DEF LeaveGroupReads
    <3>. HIDE DEF op
    <3>. QED
      BY <1>c, <2>5, <3>1 DEF LeaveGroupReads, JobName
  <2>6. ASSUME UpdateReads(s) \/ DeleteReads(s) PROVE Clear'
    BY <1>c, <2>6, HoldingKind DEF UpdateReads, DeleteReads, JobName
  <2>7. ASSUME NEW p, WithdrawReads(s, p) PROVE Clear'
    <3>. DEFINE op == [Holding("withdraw", "save", RemoveParticipant(db, p))
                        EXCEPT !.removed = {p.id}]
    <3>1. op.kind = "withdraw" /\ Begin(s, op)
      BY <2>7, HoldingKind DEF WithdrawReads
    <3>. HIDE DEF op
    <3>. QED
      BY <1>c, <2>7, <3>1 DEF WithdrawReads, JobName
  <2>8. ASSUME NEW p, ArriveReads(s, p) PROVE Clear'
    BY <1>c, <2>8, HoldingKind DEF ArriveReads, JobName
  <2>. QED
    BY <1>1, <2>1, <2>2, <2>3, <2>4, <2>5, <2>6, <2>7, <2>8 DEF Reads
<1>2. ASSUME NEW s \in Slots, Fails(s) PROVE Clear'
  <2>1. CommitUnacknowledged(s)
    BY <1>2 DEF Fails, SaveFails, Fault
  <2>2. ops[s] # Idle
    BY <1>a, <2>1, AtCall, OpNotIdle DEF CommitUnacknowledged, Stored, Pc
  <2>. QED
    BY <2>1, <2>2, ClearDispatches DEF CommitUnacknowledged, Stored
<1>3. ASSUME NEW j \in jobs, JobDelivered(j) PROVE Clear'
  <2>1. CASE JobIgnored(j)
    BY <2>1, ClearSame DEF JobIgnored, registryVars
  <2>2. ASSUME NEW s \in Slots, JobReads(s, j) PROVE Clear'
    <3>. DEFINE op == [Holding(j.name, "apply", db) EXCEPT !.at = j.at]
    <3>1. op.pc = "apply"
      BY DEF Holding, Idle
    <3>2. Begin(s, op)
      BY <2>2 DEF JobReads
    <3>. HIDE DEF op
    <3>. QED
      BY <1>c, <2>2, <3>1, <3>2 DEF JobReads
  <2>. QED
    BY <1>3, <2>1, <2>2 DEF JobDelivered
<1>4. ASSUME NEW d \in deliveries, Handle(d) PROVE Clear'
  BY <1>4, ClearSame DEF Handle
<1>5. CASE Crash
  <2>1. NoInstance # Leaked
    BY InstanceNames DEF Instances
  <2>2. /\ marked' = NoInstance /\ \A i \in Instances : domainEvents'[i] = {}
        /\ \A s \in Slots : ops'[s].pc # "save"
    BY <1>5 DEF Crash, Idle
  <2>. QED
    BY <2>1, <2>2 DEF Clear, At, Instances
<1>6. CASE Tick \/ UNCHANGED vars
  BY <1>6, ClearSame DEF Tick, vars, registryVars
<1>. QED
  BY <1>1, <1>2, <1>3, <1>4, <1>5, <1>6, ClearContinues DEF Next, AnnounceInv

\* A request that saves while BullMQ has no check to remove leaves the list open.
LEMMA StuckSaves ==
  ASSUME SerialInv, Stuck, NEW s \in Slots, Stored(s)
  PROVE  db' # None /\ Open(db')
<1>a. TypeOK /\ DbType /\ OpsType
  BY TypeParts DEF SerialInv
<1>1. /\ ops[s] \in Op /\ ops[s] # Idle /\ Derived(db, ops[s])
      /\ ops[s].pc = "save" /\ ops[s].event \in Event
  BY <1>a, AtCall, OpNotIdle DEF Stored, Pc, SerialInv, OpsDerived, At, Op
<1>2. db # None /\ db \in Event /\ Sound(db) /\ Open(db)
  BY <1>a DEF Stuck, DbType, SerialInv, DbSound
<1>3. Saved(db, ops[s].event, ops[s].removed) = ops[s].event
  BY <1>1, <1>2, CopyIsChange
<1>4. db' = ops[s].event /\ db' # None
  BY <1>1, <1>3, NoneIsNoEvent DEF Stored
<1>5. CASE JoinInFlight(db, ops[s]) \/ WithdrawInFlight(db, ops[s])
  BY <1>2, <1>4, <1>5 DEF JoinInFlight, WithdrawInFlight, AddParticipant,
     RemoveParticipant, Open, Event
<1>6. CASE EditInFlight(db, ops[s])
  BY <1>1, <1>2, <1>4, <1>6 DEF EditInFlight, Stuck
<1>7. ~(CreateInFlight(db, ops[s]) \/ LeaveInFlight(db, ops[s]))
  BY <1>1, <1>2 DEF CreateInFlight, LeaveInFlight
<1>8. ~(ProgressInFlight(db, ops[s]) \/ JobInFlight(db, ops[s]))
  BY <1>2 DEF ProgressInFlight, JobInFlight, JobName, Open, CanEnd, Stuck
<1>. QED
  BY <1>1, <1>4, <1>5, <1>6, <1>7, <1>8 DEF Derived

LEMMA StuckStep ==
  ASSUME SerialInv, SerialInv', NoOverlap, NoOverlap', Stuck, "save" \notin Faults,
         [Next]_vars
  PROVE  AnnounceInv'
<1>. USE DEF AnnounceInv
<1>a. OpsType /\ RegistryType /\ JobsType /\ DbType /\ TypeOK
  BY TypeParts DEF SerialInv
<1>. DEFINE D == db' = db \/ (db' # None /\ Open(db'))
            O == \A r \in Slots : /\ ops'[r].kind # "PARTICIPANT_CHECK"
                                  /\ ops'[r].kind = "reschedule" => ops'[r].pc = "unschedule"
<1>b. ASSUME D, NoFreeCheck', O PROVE Stuck'
  BY <1>b DEF Stuck
<1>c. ASSUME jobs' \subseteq jobs PROVE NoFreeCheck'
  BY <1>c DEF Stuck, NoFreeCheck
<1>d. ASSUME ops' = ops PROVE O
  BY <1>d DEF Stuck
<1>e. ASSUME NEW s \in Slots, NEW op, Begin(s, op), op.kind # "PARTICIPANT_CHECK",
             op.kind = "reschedule" => op.pc = "unschedule"
      PROVE  O
  BY <1>a, <1>e, BeginShape DEF Stuck, Others
<1>f. ASSUME NEW s \in Slots, Return(s) PROVE O
  BY <1>a, <1>f, ReturnShape DEF Stuck, Others, Idle
<1>g. ASSUME NEW s \in Slots, NEW pc \in Pc, At(s, pc)
      PROVE  /\ ops[s] \in Op /\ ops[s] # Idle /\ Derived(db, ops[s]) /\ ops[s].pc = pc
             /\ ops[s].kind # "create" /\ ops[s].kind # "PARTICIPANT_CHECK"
             /\ ops[s].kind = "reschedule" => pc = "unschedule"
  <2>1. ops[s] \in Op /\ ops[s] # Idle /\ Derived(db, ops[s]) /\ ops[s].pc = pc
    BY <1>a, <1>g, AtCall, OpNotIdle DEF SerialInv, OpsDerived, At
  <2>. QED
    BY <2>1, CallersAre DEF Stuck
<1>h. ASSUME NEW s \in Slots, NEW pc \in Pc, At(s, pc), NEW to, Goto(s, to),
             ops[s].kind # "reschedule"
      PROVE  O
  <2>1. ops'[s].kind = ops[s].kind /\ Others(s)
    BY <1>a, <1>g, <1>h DEF Goto, OpsType, Op, Others
  <2>. QED
    BY <1>g, <1>h, <2>1 DEF Stuck, Others
<1>i. ~CanRemove("PARTICIPANT_CHECK")
  BY DEF CanRemove, Stuck, NoFreeCheck
<1>j. ~NotYet'
  BY <1>a, CreateStep DEF NotYet, Handling, SerialInv, DbSound, Stuck
<1>. HIDE DEF D, O
<1>1. ASSUME NEW s \in Slots, Reads(s) PROVE Stuck'
  <2>1. db' = db /\ jobs' = jobs
    BY <1>1 DEF Reads, CreateBegins, RescheduleReads, JoinReads, LeaveGroupReads,
       UpdateReads, DeleteReads, WithdrawReads, DepartReads, ArriveReads, queueVars
  <2>2. ASSUME NEW t \in CheckTimes, CreateBegins(s, t) \/ RescheduleReads(s, t) PROVE O
    <3>1. CASE CreateBegins(s, t)
      BY <1>e, <3>1, HoldingKind DEF CreateBegins
    <3>2. CASE RescheduleReads(s, t)
      <4>. DEFINE op == [Holding("reschedule", "unschedule", Rescheduled(db, t))
                          EXCEPT !.at = db.checkTime, !.removed = Ids(DroppedBySchedule(db))]
      <4>1. op.kind = "reschedule" /\ op.pc = "unschedule"
        BY HoldingKind DEF Holding, Idle
      <4>2. Begin(s, op)
        BY <3>2 DEF RescheduleReads
      <4>. HIDE DEF op
      <4>. QED
        BY <1>e, <4>1, <4>2
    <3>. QED
      BY <2>2, <3>1, <3>2
  <2>3. ASSUME NEW u \in Users, JoinReads(s, u) PROVE O
    BY <1>e, <2>3, HoldingKind DEF JoinReads
  <2>4. ASSUME NEW u \in Users, LeaveGroupReads(s, u) PROVE O
    <3>. DEFINE op == [Holding("leave", "withdraw", db) EXCEPT !.user = u]
    <3>1. op.kind = "leave" /\ Begin(s, op)
      BY <2>4, HoldingKind DEF LeaveGroupReads
    <3>. HIDE DEF op
    <3>. QED
      BY <1>e, <3>1
  <2>5. ASSUME UpdateReads(s) \/ DeleteReads(s) PROVE O
    BY <1>e, <2>5, HoldingKind DEF UpdateReads, DeleteReads
  <2>6. ASSUME NEW p, WithdrawReads(s, p) PROVE O
    <3>. DEFINE op == [Holding("withdraw", "save", RemoveParticipant(db, p))
                        EXCEPT !.removed = {p.id}]
    <3>1. op.kind = "withdraw" /\ Begin(s, op)
      BY <2>6, HoldingKind DEF WithdrawReads
    <3>. HIDE DEF op
    <3>. QED
      BY <1>e, <3>1
  <2>7. ASSUME NEW p, DepartReads(s, p) \/ ArriveReads(s, p) PROVE O
    BY <1>e, <2>7, HoldingKind DEF DepartReads, ArriveReads
  <2>8. O
    BY <1>1, <2>2, <2>3, <2>4, <2>5, <2>6, <2>7 DEF Reads
  <2>. QED
    BY <1>b, <1>c, <2>1, <2>8 DEF D
<1>2. ASSUME NEW s \in Slots, Continues(s) PROVE Over' \/ Stuck'
  <2>1. CASE JoinConflicts(s)
    BY <1>b, <1>c, <1>f, <2>1 DEF JoinConflicts, Throw, queueVars, D
  <2>2. CASE LeaveGroupWithdraws(s)
    <3>1. db \in Event /\ db # None /\ Open(db)
      BY <1>a DEF DbType, Stuck
    <3>2. db' = [db EXCEPT !.participants = {p \in @ : p.user # ops[s].user}]
      BY <2>2, <3>1 DEF LeaveGroupWithdraws
    <3>3. db' \in Event /\ Open(db')
      BY <3>1, <3>2 DEF Event, Open
    <3>. QED
      BY <1>b, <1>c, <1>f, <2>2, <3>3, NoneIsNoEvent DEF LeaveGroupWithdraws, queueVars, D
  <2>3. CASE DeleteMarks(s)
    BY <1>b, <1>c, <1>h, <2>3 DEF DeleteMarks, Pc, queueVars, D
  <2>4. CASE Unschedule(s)
    BY <1>b, <1>c, <1>f, <1>i, <2>4 DEF Unschedule, Throw, D
  <2>5. CASE ScheduleCheck(s) \/ Rollback(s)
    <3>1. PICK pc \in {"schedule", "rollback"} : At(s, pc)
      BY <2>5 DEF ScheduleCheck, Rollback
    <3>. QED
      BY <1>g, <3>1, CallersAre DEF Pc
  <2>6. CASE Restore(s)
    <3>1. ops[s].kind # "reschedule" /\ Derived(db, ops[s]) /\ ops[s].pc = "restore"
      BY <1>g, <2>6 DEF Restore, Pc
    <3>. QED
      BY <3>1 DEF Derived, EditInFlight, CreateInFlight, JoinInFlight,
         WithdrawInFlight, LeaveInFlight, ProgressInFlight, JobInFlight
  <2>7. CASE CheckApplies(s) \/ StartApplies(s) \/ EndApplies(s)
    <3>1. At(s, "apply") /\ ops[s].kind \in JobName
      BY <2>7 DEF CheckApplies, StartApplies, EndApplies, JobName
    <3>2. JobInFlight(db, ops[s]) /\ ops[s].kind # "PARTICIPANT_CHECK"
      BY <1>g, <3>1, CallersAre DEF Pc
    <3>. QED
      BY <3>1, <3>2 DEF JobInFlight, JobName, Stuck, Open, CanEnd
  <2>8. CASE Commit(s)
    <3>1. jobs' \subseteq jobs /\ Return(s) /\ Stored(s)
      BY <2>8 DEF Commit, Finished, Stored
    <3>. QED
      BY <1>b, <1>c, <1>f, <3>1, StuckSaves DEF D
  <2>9. CASE DeleteCommits(s)
    BY <1>j, <2>9 DEF DeleteCommits, Over
  <2>10. CASE DeleteFails(s)
    BY <1>b, <1>c, <1>f, <2>10 DEF DeleteFails, Throw, queueVars, D
  <2>. QED
    BY <1>2, <2>1, <2>2, <2>3, <2>4, <2>5, <2>6, <2>7, <2>8, <2>9, <2>10 DEF Continues
<1>3. ASSUME NEW s \in Slots, Fails(s) PROVE Stuck'
  <2>1. CommitUnacknowledged(s)
    BY <1>3 DEF Fails, SaveFails, Fault
  <2>2. JobInFlight(db, ops[s]) /\ ops[s].kind # "PARTICIPANT_CHECK"
    BY <1>g, <2>1, CallersAre DEF CommitUnacknowledged, Stored, Pc
  <2>. QED
    BY <2>1, <2>2 DEF JobInFlight, CommitUnacknowledged, JobName, Stuck, Open, CanEnd
<1>4. ASSUME NEW j \in jobs, JobDelivered(j) PROVE Stuck'
  <2>1. CASE JobIgnored(j)
    BY <1>b, <1>c, <1>d, <2>1 DEF JobIgnored, D
  <2>2. ASSUME NEW s \in Slots, JobReads(s, j) PROVE Stuck'
    <3>1. j.name # "PARTICIPANT_CHECK" /\ j.name \in JobName
      BY <1>a, <2>2 DEF JobReads, CanRun, Due, Stuck, NoFreeCheck, JobsType, Job
    <3>2. [j EXCEPT !.active = TRUE].name = j.name
      BY <1>a DEF JobsType, Job
    <3>3. NoFreeCheck'
      BY <2>2, <3>1, <3>2 DEF JobReads, Activated, Stuck, NoFreeCheck
    <3>. DEFINE op == [Holding(j.name, "apply", db) EXCEPT !.at = j.at]
    <3>4. op.kind = j.name
      BY HoldingKind
    <3>5. Begin(s, op) /\ db' = db
      BY <2>2 DEF JobReads
    <3>. HIDE DEF op
    <3>6. O
      BY <1>e, <3>1, <3>4, <3>5 DEF JobName
    <3>. QED
      BY <1>b, <3>3, <3>5, <3>6 DEF D
  <2>. QED
    BY <1>4, <2>1, <2>2 DEF JobDelivered
<1>5. ASSUME NEW d \in deliveries, Handle(d) PROVE Stuck'
  <2>1. NoFreeCheck'
    BY <1>5 DEF Handle, CheckPassedHandled, StartedHandled, ElsewhereHandled, ScheduledBy,
       WithJob, Stuck, NoFreeCheck
  <2>. QED
    BY <1>b, <1>d, <1>5, <2>1 DEF Handle, D
<1>6. CASE Crash
  <2>1. jobs' = jobs /\ db' = db /\ \A s \in Slots : ops'[s] = Idle
    BY <1>6 DEF Crash, Orphaned, Stuck
  <2>2. O
    BY <2>1 DEF O, Idle
  <2>. QED
    BY <1>b, <1>c, <2>1, <2>2 DEF D
<1>7. CASE Tick \/ UNCHANGED vars
  BY <1>b, <1>c, <1>d, <1>7 DEF Tick, vars, queueVars, D
<1>. QED
  BY <1>1, <1>2, <1>3, <1>4, <1>5, <1>6, <1>7 DEF Next

\* The save of a copy: which request it is, and what it leaves in the database.
LEMMA StoredCopy ==
  ASSUME SerialInv, NEW s \in Slots, Stored(s), db # None
  PROVE  /\ ops[s] \in Op /\ ops[s] # Idle /\ ops[s].pc = "save" /\ Derived(db, ops[s])
         /\ db \in Event /\ Sound(db) /\ db' = ops[s].event
<1>a. TypeOK /\ DbType /\ OpsType
  BY TypeParts DEF SerialInv
<1>1. /\ ops[s] \in Op /\ ops[s] # Idle /\ Derived(db, ops[s])
      /\ ops[s].pc = "save" /\ ops[s].event \in Event
  BY <1>a, AtCall, OpNotIdle DEF Stored, Pc, SerialInv, OpsDerived, At, Op
<1>2. db \in Event /\ Sound(db)
  BY <1>a DEF DbType, SerialInv, DbSound
<1>3. Saved(db, ops[s].event, ops[s].removed) = ops[s].event
  BY <1>1, <1>2, CopyIsChange
<1>. QED
  BY <1>1, <1>2, <1>3 DEF Stored

\* Only the automatic transitions change the status and close the list.
LEMMA OnlyJobsMove ==
  ASSUME SerialInv, [Next]_vars, db # None, db' # None
  PROVE  \/ db'.status = db.status /\ db'.checked = db.checked
         \/ \E s \in Slots : Stored(s) /\ ops[s].kind \in JobName
<1>a. db \in Event
  BY DEF SerialInv, TypeOK
<1>1. ASSUME NEW s \in Slots, Stored(s), ops[s].kind \notin JobName
      PROVE  db'.status = db.status /\ db'.checked = db.checked
  <2>1. Derived(db, ops[s]) /\ db' = ops[s].event /\ ops[s].pc = "save"
    BY <1>1, StoredCopy
  <2>. QED
    BY <1>a, <1>1, <2>1 DEF Derived, CreateInFlight, JoinInFlight, WithdrawInFlight,
       LeaveInFlight, EditInFlight, ProgressInFlight, JobInFlight, AddParticipant,
       RemoveParticipant, Rescheduled, WithStatus, Event
<1>2. ASSUME NEW s \in Slots, LeaveGroupWithdraws(s)
      PROVE  db'.status = db.status /\ db'.checked = db.checked
  <2>1. db' = [db EXCEPT !.participants = {p \in @ : p.user # ops[s].user}]
    BY <1>2 DEF LeaveGroupWithdraws
  <2>. QED
    BY <1>a, <2>1 DEF Event
<1>. QED
  BY <1>1, <1>2, WritersAre DEF Writes, DeleteCommits

\* What an instance that is marked holds is delivered by its save.
LEMMA DispatchAnnounces ==
  ASSUME RegistryType, NEW s \in Slots, Stored(s), marked = s, NEW type \in Observed,
         Holds(s, type)
  PROVE  Announced(type)
<1>1. PICK d \in domainEvents[s] : d.type = type
  BY DEF Holds
<1>2. d \in Handled
  BY <1>1 DEF RegistryType, Instances, DomainEvent, Handled
<1>3. marked # NoInstance /\ domainEvents[s] # {}
  BY <1>1, InstanceNames DEF Instances
<1>4. d \in deliveries'
  BY <1>1, <1>2, <1>3 DEF Stored, DispatchEventsForAggregate
<1>. QED
  BY <1>1, <1>4 DEF Announced

LEMMA AnnounceCorrect ==
  ASSUME "save" \notin Faults
  PROVE  Spec /\ []NoOverlap => []AnnounceInv
<1>1. Init => AnnounceInv
  <2>. SUFFICES ASSUME Init PROVE Clear
    BY DEF AnnounceInv
  <2>1. NoInstance # Leaked
    BY InstanceNames DEF Instances
  <2>. QED
    BY <2>1 DEF Init, RegistryInit, Clear, Instances, At, Idle
<1>2. /\ AnnounceInv /\ SerialInv /\ SerialInv' /\ NoOverlap /\ NoOverlap'
      /\ MarkedHasEvents /\ [Next]_vars
      => AnnounceInv'
  BY OverStep, StuckStep, ClearStep DEF AnnounceInv
<1>. QED
  BY <1>1, <1>2, SerialCorrect, MarkedAlwaysHasEvents, PTL DEF Spec

\* The announcement each change of status owes.
AnnouncesChanges ==
  /\ ~db.checked /\ db'.checked /\ db'.status = "RECRUITING"
       => Announced("ParticipantsCheckPassed")
  /\ db.status # "CANCELLED" /\ db'.status = "CANCELLED"
       => Announced("EventCancelled")
  /\ db.status = "RECRUITING" /\ db'.status = "IN_PROGRESS"
       => Announced("EventStarted")
  /\ db.status = "IN_PROGRESS" /\ db'.status = "ENDED"
       => Announced("EventEnded")

\* A change of status is a job's, and it is announced if the job's instance
\* has its announcement and is the one the registry dispatches.
LEMMA MarkedAnnounce ==
  ASSUME {"EventEnded", "EventCancelled"} \subseteq Observed,
         SerialInv, [Next]_vars, db # None, db' # None,
         \A s \in Slots : Stored(s) /\ ops[s].kind \in JobName
                            => Bears(s) /\ (domainEvents[s] # {} => marked = s)
  PROVE  AnnouncesChanges
<1>. SUFFICES ASSUME NEW s \in Slots, Stored(s), ops[s].kind \in JobName
              PROVE  AnnouncesChanges
  BY OnlyJobsMove DEF AnnouncesChanges
<1>a. RegistryType
  BY TypeParts DEF SerialInv
<1>1. /\ db \in Event /\ Sound(db) /\ db' = ops[s].event /\ ops[s].pc = "save"
      /\ JobInFlight(db, ops[s])
  BY StoredCopy, CallersAre
<1>2. Bears(s)
  OBVIOUS
<1>3. ASSUME NEW type \in Observed, Holds(s, type) PROVE Announced(type)
  <2>1. marked = s
    BY <1>3 DEF Holds
  <2>. QED
    BY <1>a, <1>3, <2>1, DispatchAnnounces
<1>4. /\ "ParticipantsCheckPassed" \in Observed /\ "EventStarted" \in Observed
      /\ "EventEnded" \in Observed /\ "EventCancelled" \in Observed
  BY SchedulersAreObserved
<1>5. CASE ops[s].kind = "PARTICIPANT_CHECK"
  <2>1. db' = CheckParticipantsForStart(db)
    BY <1>1, <1>5 DEF JobInFlight
  <2>2. CASE db.status # "RECRUITING"
    BY <2>1, <2>2 DEF CheckParticipantsForStart, AnnouncesChanges
  <2>3. CASE db.status = "RECRUITING"
    <3>1. db'.status = IF HasQuorum(db) THEN "RECRUITING" ELSE "CANCELLED"
      BY <1>1, <2>1, <2>3 DEF CheckParticipantsForStart, Event
    <3>2. Announced(IF HasQuorum(db) THEN "ParticipantsCheckPassed" ELSE "EventCancelled")
      BY <1>2, <1>3, <1>4, <1>5, <2>3 DEF Bears, CanStart
    <3>. QED
      BY <2>3, <3>1, <3>2 DEF AnnouncesChanges
  <2>. QED
    BY <2>2, <2>3
<1>6. CASE ops[s].kind = "LOCATION_SHARING_START"
  <2>1. Announced("EventStarted") /\ db.checked /\ db'.status = "IN_PROGRESS"
    BY <1>1, <1>2, <1>3, <1>4, <1>6 DEF Bears, JobInFlight, Start, Event
  <2>. QED
    BY <2>1 DEF AnnouncesChanges
<1>7. CASE ops[s].kind = "END"
  <2>1. Announced("EventEnded") /\ db'.status = "ENDED" /\ db.status = "IN_PROGRESS"
    BY <1>1, <1>2, <1>3, <1>4, <1>7 DEF Bears, JobInFlight, CanEnd, End, Event
  <2>. QED
    BY <2>1 DEF AnnouncesChanges
<1>. QED
  BY <1>5, <1>6, <1>7 DEF JobName

\* Requests that do not overlap announce every change of status to the handlers
\* with the commit that makes it, in spite of crashes, lost acknowledgements and
\* late jobs, as long as no transaction fails: an aggregate left in the registry
\* by a request that threw is never in the way of one that changes the status.
THEOREM ChangesAlwaysAnnounced ==
  ASSUME "save" \notin Faults, {"EventEnded", "EventCancelled"} \subseteq Observed
  PROVE  Spec /\ []NoOverlap => ChangesAreAnnounced
<1>1. AnnounceInv /\ SerialInv /\ [Next]_vars => (db # None /\ db' # None => AnnouncesChanges)
  <2>. SUFFICES ASSUME AnnounceInv, SerialInv, [Next]_vars, db # None, db' # None
                PROVE  AnnouncesChanges
    OBVIOUS
  <2>1. CASE Stuck
    <3>1. ASSUME NEW s \in Slots, Stored(s), ops[s].kind \in JobName
          PROVE  FALSE
      <4>1. JobInFlight(db, ops[s]) /\ ops[s].kind # "PARTICIPANT_CHECK"
        BY <2>1, <3>1, StoredCopy, CallersAre DEF Stuck
      <4>. QED
        BY <2>1, <4>1 DEF JobInFlight, JobName, Stuck, Open, CanEnd
    <3>. QED
      BY <3>1, MarkedAnnounce
  <2>2. CASE Clear
    BY <2>2, MarkedAnnounce DEF Clear, Stored
  <2>. QED
    BY <2>1, <2>2 DEF AnnounceInv, Over
<1>2. Spec /\ []NoOverlap => [][AnnounceInv /\ SerialInv /\ [Next]_vars]_vars
  BY AnnounceCorrect, SerialCorrect, PTL DEF Spec
<1>. QED
  BY <1>1, <1>2, PTL DEF ChangesAreAnnounced, AnnouncesChanges

\* Requests that do not overlap announce the end of every event, as long as no
\* transaction fails; with one departure in flight beside the job the end goes
\* unannounced.
COROLLARY EndsAreAnnounced ==
  ASSUME "save" \notin Faults, {"EventEnded", "EventCancelled"} \subseteq Observed
  PROVE  Spec /\ []NoOverlap => EndIsAnnounced
<1>1. Spec /\ []NoOverlap => ChangesAreAnnounced
  BY ChangesAlwaysAnnounced
<1>. QED
  BY <1>1, PTL DEF ChangesAreAnnounced, EndIsAnnounced

-----------------------------------------------------------------------------
(***************************************************************************)
(* The announcements when transactions fail.  The instance of a failed     *)
(* request stays marked, and the next save that has domain events hands    *)
(* over those of that instance in place of its own.  That clears the       *)
(* registry, so that a failure hides one announcement at most.             *)
(***************************************************************************)
Fresh ==
  /\ \A s \in Slots : domainEvents[s] # {} => marked \in {s, Leaked}
  /\ \A s \in Slots : At(s, "save") => Bears(s)

\* A change of status goes unannounced only with the commit that clears the
\* registry of what a failed request has left there.
OneChangeHidden ==
  [][db # None /\ db' # None /\ ~AnnouncesChanges
       => marked = Leaked /\ marked' = NoInstance]_vars

LEMMA FreshSame ==
  ASSUME Fresh, db' = db, UNCHANGED <<marked, domainEvents>>,
         \A r \in Slots : ops'[r].pc = "save" /\ ops'[r].kind \in JobName
           => ops[r].pc = "save" /\ ops[r].kind = ops'[r].kind
  PROVE  Fresh'
BY DEF Fresh, Bears, Holds, At, JobName

\* A request that begins or goes on adds a domain event.
LEMMA FreshAdds ==
  ASSUME SerialInv, SerialInv', NoOverlap', MarkedHasEvents,
         NEW s \in Slots, NEW d, AddDomainEvent(s, d), Others(s), ops'[s] # Idle,
         ops'[s].pc = "save" => Bears(s)'
  PROVE  Fresh'
<1>a. RegistryType /\ FewAnnounce /\ FewAnnounce'
  BY TypeParts DEF SerialInv
<1>1. marked \in {NoInstance, Leaked, s}
  <2>. SUFFICES ASSUME marked \notin {NoInstance, Leaked} PROVE marked = s
    OBVIOUS
  <2>1. marked \in Slots /\ domainEvents[marked] # {}
    BY <1>a DEF RegistryType, Instances, MarkedHasEvents
  <2>2. ops[marked] # Idle
    BY <1>a, <2>1 DEF FewAnnounce, Announcers, Idle, JobName
  <2>. QED
    BY <2>1, <2>2 DEF Others, NoOverlap
<1>2. marked' \in {s, Leaked}
  BY <1>1 DEF AddDomainEvent
<1>3. ASSUME NEW r \in Slots \ {s} PROVE domainEvents'[r] = {} /\ ~At(r, "save")'
  <2>1. ops'[r] = Idle
    BY DEF NoOverlap
  <2>. QED
    BY <1>a, <2>1 DEF FewAnnounce, Announcers, Idle, JobName, At
<1>. QED
  BY <1>2, <1>3 DEF Fresh, At

\* The only request in flight ends, whatever it leaves.
LEMMA FreshEnds ==
  ASSUME SerialInv, SerialInv', NoOverlap, NEW s \in Slots, ops[s] # Idle, Return(s)
  PROVE  Fresh'
<1>1. \A r \in Slots : ops'[r] = Idle
  BY ReturnShape, TypeParts DEF SerialInv, Others, NoOverlap
<1>2. \A r \in Slots : domainEvents'[r] = {} /\ ~At(r, "save")'
  BY <1>1 DEF SerialInv, FewAnnounce, Announcers, Idle, JobName, At
<1>. QED
  BY <1>2 DEF Fresh

LEMMA FreshContinues ==
  ASSUME SerialInv, SerialInv', NoOverlap, NoOverlap', MarkedHasEvents, Fresh,
         NEW s \in Slots, Continues(s) \/ Fails(s)
  PROVE  Fresh'
<1>a. OpsType /\ RegistryType
  BY TypeParts DEF SerialInv
<1>b. ASSUME NEW pc \in Pc, At(s, pc)
      PROVE  ops[s] \in Op /\ ops[s] # Idle /\ Derived(db, ops[s]) /\ ops[s].pc = pc
  BY <1>a, <1>b, AtCall, OpNotIdle DEF SerialInv, OpsDerived, At
<1>c. ASSUME NEW pc \in Pc, At(s, pc), NEW to, Goto(s, to)
      PROVE  ops'[s].kind = ops[s].kind /\ ops'[s].pc = to /\ Others(s)
  BY <1>a, <1>b, <1>c DEF Goto, OpsType, Op, Others
<1>d. ASSUME NEW e, Applied(s, e), NEW pc \in Pc, At(s, pc)
      PROVE  ops'[s].kind = ops[s].kind /\ ops'[s] # Idle /\ Others(s)
  <2>1. ops'[s] = [[ops[s] EXCEPT !.pc = "save"] EXCEPT !.event = e] /\ Others(s)
    BY <1>a, <1>d DEF OpsType, Applied, Others
  <2>2. ops'[s].kind = ops[s].kind /\ ops'[s].pc = "save"
    BY <1>b, <1>d, <2>1 DEF Op
  <2>3. Idle.pc = "idle"
    BY DEF Idle
  <2>. QED
    BY <2>1, <2>2, <2>3
<1>e. ASSUME NEW pc \in Pc, At(s, pc), NEW to, Goto(s, to), db' = db,
             UNCHANGED <<marked, domainEvents>>, to = "save" => ops[s].kind \notin JobName
      PROVE  Fresh'
  BY <1>c, <1>e, FreshSame DEF Others
<1>f. ASSUME NEW pc \in Pc, At(s, pc), Return(s) PROVE Fresh'
  BY <1>b, <1>f, FreshEnds
<1>1. CASE JoinConflicts(s) \/ LeaveGroupWithdraws(s) \/ Restore(s) \/ DeleteFails(s)
  BY <1>1, <1>f DEF JoinConflicts, LeaveGroupWithdraws, Restore, DeleteFails, Throw, Pc
<1>2. CASE DeleteMarks(s)
  <2>1. ops'[s].pc = "unschedule" /\ Others(s)
    BY <1>c, <1>2 DEF DeleteMarks, Pc
  <2>. QED
    BY <1>2, <2>1, FreshAdds DEF DeleteMarks, Idle
<1>3. CASE Unschedule(s)
  <2>1. \/ Return(s)
        \/ UNCHANGED registryVars /\ \E to \in {"delete", "schedule"} : Goto(s, to)
    BY <1>3 DEF Unschedule, Throw
  <2>. QED
    BY <1>3, <1>e, <1>f, <2>1 DEF Unschedule, Pc, registryVars
<1>4. CASE ScheduleCheck(s)
  <2>1. ops[s].kind \in {"create", "reschedule"} /\ At(s, "schedule")
    BY <1>b, <1>4, CallersAre DEF ScheduleCheck, Pc
  <2>2. \/ Return(s)
        \/ UNCHANGED registryVars /\ \E to \in {"save", "restore"} : Goto(s, to)
    BY <1>4 DEF ScheduleCheck, Throw
  <2>. QED
    BY <1>4, <1>e, <1>f, <2>1, <2>2 DEF ScheduleCheck, Pc, registryVars, JobName
<1>5. CASE Rollback(s)
  <2>1. \/ Return(s)
        \/ UNCHANGED registryVars /\ Goto(s, "restore")
    BY <1>5 DEF Rollback, Throw
  <2>. QED
    BY <1>5, <1>e, <1>f, <2>1 DEF Rollback, Pc, registryVars
<1>6. CASE CheckApplies(s)
  <2>1. /\ ops[s] # Idle /\ Derived(db, ops[s]) /\ At(s, "apply") /\ ops[s].pc = "apply"
        /\ ops[s].kind = "PARTICIPANT_CHECK" /\ db' = db
    BY <1>b, <1>6 DEF CheckApplies, Pc
  <2>2. db # None /\ ops[s].event = db
    BY <2>1, CallersAre DEF JobInFlight, JobName
  <2>3. ops'[s].kind = "PARTICIPANT_CHECK" /\ ops'[s] # Idle /\ Others(s)
    BY <1>6, <1>d, <2>1 DEF CheckApplies, Pc
  <2>4. CASE db.status # "RECRUITING"
    <3>1. Bears(s)'
      BY <2>1, <2>3, <2>4 DEF Bears, CanStart
    <3>2. UNCHANGED <<marked, domainEvents>>
      BY <1>6, <2>2, <2>4 DEF CheckApplies, registryVars
    <3>3. \A r \in Slots : At(r, "save")' => Bears(r)'
      BY <2>1, <2>3, <3>1, <3>2 DEF Fresh, At, Bears, Holds, Others
    <3>. QED
      BY <3>2, <3>3 DEF Fresh
  <2>5. ASSUME db.status = "RECRUITING", NEW d, AddDomainEvent(s, d),
               d.type = IF HasQuorum(db) THEN "ParticipantsCheckPassed" ELSE "EventCancelled"
        PROVE  Fresh'
    <3>1. d \in domainEvents'[s]
      BY <1>a, <2>5 DEF AddDomainEvent, RegistryType, Instances
    <3>2. Bears(s)'
      BY <2>1, <2>3, <2>5, <3>1 DEF Bears, Holds, JobName
    <3>. QED
      BY <2>3, <2>5, <3>2, FreshAdds
  <2>. QED
    BY <1>6, <2>2, <2>4, <2>5 DEF CheckApplies, Announcing, AnnouncingAt
<1>7. CASE StartApplies(s) \/ EndApplies(s)
  <2>1. /\ ops[s].kind \in {"LOCATION_SHARING_START", "END"}
        /\ ops'[s].kind = ops[s].kind /\ ops'[s] # Idle /\ Others(s)
    BY <1>7, <1>d DEF StartApplies, EndApplies, Pc
  <2>2. PICK d : /\ AddDomainEvent(s, d)
                 /\ d.type = IF ops[s].kind = "END" THEN "EventEnded" ELSE "EventStarted"
    BY <1>7 DEF StartApplies, EndApplies, Announcing, AnnouncingAt
  <2>3. d \in domainEvents'[s]
    BY <1>a, <2>2 DEF AddDomainEvent, RegistryType, Instances
  <2>4. Bears(s)'
    BY <2>1, <2>2, <2>3 DEF Bears, Holds
  <2>. QED
    BY <2>1, <2>2, <2>4, FreshAdds
<1>8. CASE Commit(s) \/ CommitUnacknowledged(s) \/ DeleteCommits(s)
  BY <1>8, <1>f DEF Commit, CommitUnacknowledged, Stored, DeleteCommits, Pc
<1>9. CASE SaveFails(s)
  <2>1. \/ Return(s)
        \/ UNCHANGED registryVars /\ Goto(s, "rollback")
    BY <1>9 DEF SaveFails, Throw
  <2>. QED
    BY <1>9, <1>e, <1>f, <2>1 DEF SaveFails, Pc, registryVars
<1>. QED
  BY <1>1, <1>2, <1>3, <1>4, <1>5, <1>6, <1>7, <1>8, <1>9 DEF Continues, Fails

LEMMA FreshStep ==
  ASSUME SerialInv, SerialInv', NoOverlap, NoOverlap', MarkedHasEvents, Fresh, [Next]_vars
  PROVE  Fresh'
<1>a. OpsType /\ RegistryType /\ JobsType
  BY TypeParts DEF SerialInv
<1>b. ASSUME NEW s \in Slots, NEW op, Begin(s, op)
      PROVE  ops'[s] = op /\ Others(s)
  BY <1>a, <1>b, BeginShape
<1>c. ASSUME NEW s \in Slots, NEW op, Begin(s, op), UNCHANGED registryVars, db' = db,
             op.pc = "save" => op.kind \notin JobName
      PROVE  Fresh'
  BY <1>b, <1>c, FreshSame DEF registryVars, Others
<1>1. ASSUME NEW s \in Slots, Reads(s) PROVE Fresh'
  <2>1. ASSUME NEW t \in CheckTimes, CreateBegins(s, t) PROVE Fresh'
    <3>1. ops'[s].pc = "schedule" /\ Others(s)
      BY <1>b, <2>1, HoldingShape DEF CreateBegins
    <3>. QED
      BY <2>1, <3>1, FreshAdds DEF CreateBegins, Idle
  <2>2. ASSUME NEW p, DepartReads(s, p) PROVE Fresh'
    <3>1. ops'[s].kind = "depart" /\ ops'[s].pc = "save" /\ Others(s)
      BY <1>b, <2>2, HoldingKind, HoldingShape DEF DepartReads
    <3>. QED
      BY <2>2, <3>1, FreshAdds DEF DepartReads, Idle, Bears
  <2>3. ASSUME NEW t \in CheckTimes, RescheduleReads(s, t) PROVE Fresh'
    <3>. DEFINE op == [Holding("reschedule", "unschedule", Rescheduled(db, t))
                        EXCEPT !.at = db.checkTime, !.removed = Ids(DroppedBySchedule(db))]
    <3>1. op.kind = "reschedule" /\ Begin(s, op)
      BY <2>3, HoldingKind DEF RescheduleReads
    <3>. HIDE DEF op
    <3>. QED
      BY <1>c, <2>3, <3>1 DEF RescheduleReads, JobName
  <2>4. ASSUME NEW u \in Users, JoinReads(s, u) PROVE Fresh'
    BY <1>c, <2>4, HoldingKind DEF JoinReads, JobName
  <2>5. ASSUME NEW u \in Users, LeaveGroupReads(s, u) PROVE Fresh'
    <3>. DEFINE op == [Holding("leave", "withdraw", db) EXCEPT !.user = u]
    <3>1. op.kind = "leave" /\ Begin(s, op)
      BY <2>5, HoldingKind DEF LeaveGroupReads
    <3>. HIDE DEF op
    <3>. QED
      BY <1>c, <2>5, <3>1 DEF LeaveGroupReads, JobName
  <2>6. ASSUME UpdateReads(s) \/ DeleteReads(s) PROVE Fresh'
    BY <1>c, <2>6, HoldingKind DEF UpdateReads, DeleteReads, JobName
  <2>7. ASSUME NEW p, WithdrawReads(s, p) PROVE Fresh'
    <3>. DEFINE op == [Holding("withdraw", "save", RemoveParticipant(db, p))
                        EXCEPT !.removed = {p.id}]
    <3>1. op.kind = "withdraw" /\ Begin(s, op)
      BY <2>7, HoldingKind DEF WithdrawReads
    <3>. HIDE DEF op
    <3>. QED
      BY <1>c, <2>7, <3>1 DEF WithdrawReads, JobName
  <2>8. ASSUME NEW p, ArriveReads(s, p) PROVE Fresh'
    BY <1>c, <2>8, HoldingKind DEF ArriveReads, JobName
  <2>. QED
    BY <1>1, <2>1, <2>2, <2>3, <2>4, <2>5, <2>6, <2>7, <2>8 DEF Reads
<1>2. ASSUME NEW j \in jobs, JobDelivered(j) PROVE Fresh'
  <2>1. CASE JobIgnored(j)
    BY <2>1, FreshSame DEF JobIgnored, registryVars
  <2>2. ASSUME NEW s \in Slots, JobReads(s, j) PROVE Fresh'
    <3>. DEFINE op == [Holding(j.name, "apply", db) EXCEPT !.at = j.at]
    <3>1. op.pc = "apply"
      BY DEF Holding, Idle
    <3>2. Begin(s, op)
      BY <2>2 DEF JobReads
    <3>. HIDE DEF op
    <3>. QED
      BY <1>c, <2>2, <3>1, <3>2 DEF JobReads
  <2>. QED
    BY <1>2, <2>1, <2>2 DEF JobDelivered
<1>3. ASSUME NEW d \in deliveries, Handle(d) PROVE Fresh'
  BY <1>3, FreshSame DEF Handle
<1>4. CASE Crash
  BY <1>4 DEF Crash, Fresh, At, Idle, Instances
<1>5. CASE Tick \/ UNCHANGED vars
  BY <1>5, FreshSame DEF Tick, vars, registryVars
<1>. QED
  BY <1>1, <1>2, <1>3, <1>4, <1>5, FreshContinues DEF Next

\* However many transactions fail, and whatever crashes, lost acknowledgements
\* and late jobs do besides: requests that do not overlap announce each change
\* of status but one for each instance that a failed request has left marked,
\* the one whose commit takes that instance out of the registry.
THEOREM FailuresHideOneChange ==
  ASSUME {"EventEnded", "EventCancelled"} \subseteq Observed
  PROVE  Spec /\ []NoOverlap => OneChangeHidden
<1>1. Init => Fresh
  BY DEF Init, RegistryInit, Fresh, Instances, At, Idle
<1>2. /\ Fresh /\ SerialInv /\ SerialInv' /\ NoOverlap /\ NoOverlap'
      /\ MarkedHasEvents /\ [Next]_vars
      => Fresh'
  BY FreshStep
<1>3. Fresh /\ SerialInv /\ [Next]_vars =>
        (db # None /\ db' # None /\ ~AnnouncesChanges
           => marked = Leaked /\ marked' = NoInstance)
  <2>. SUFFICES ASSUME Fresh, SerialInv, [Next]_vars, db # None, db' # None,
                       ~AnnouncesChanges
                PROVE  marked = Leaked /\ marked' = NoInstance
    OBVIOUS
  <2>1. PICK s \in Slots : /\ Stored(s) /\ domainEvents[s] # {} /\ marked # s
    BY MarkedAnnounce DEF Fresh, Stored
  <2>2. marked = Leaked /\ marked # NoInstance
    BY <2>1, InstanceNames DEF Fresh, Instances
  <2>. QED
    BY <2>1, <2>2 DEF Stored, DispatchEventsForAggregate
<1>4. Spec /\ []NoOverlap => []Fresh
  BY <1>1, <1>2, SerialCorrect, MarkedAlwaysHasEvents, PTL DEF Spec
<1>5. Spec /\ []NoOverlap => [][Fresh /\ SerialInv /\ [Next]_vars]_vars
  BY <1>4, SerialCorrect, PTL DEF Spec
<1>. QED
  BY <1>3, <1>5, PTL DEF OneChangeHidden

-----------------------------------------------------------------------------
\* The status goes from RECRUITING to IN_PROGRESS to ENDED, or to CANCELLED,
\* and never back, while requests do not overlap: the copy a request saves has
\* the status of the row it overwrites or the next.
THEOREM StatusOnlyMovesForward == Spec /\ []NoOverlap => StatusMovesForward
<1>1. SerialInv /\ [Next]_vars =>
        (db # None /\ db' # None => StatusOrder[db.status] <= StatusOrder[db'.status])
  <2>. SUFFICES ASSUME SerialInv, [Next]_vars, db # None, db' # None
                PROVE  StatusOrder[db.status] <= StatusOrder[db'.status]
    OBVIOUS
  <2>a. db \in Event /\ db.status \in {"RECRUITING", "IN_PROGRESS", "ENDED", "CANCELLED"}
    BY DEF SerialInv, TypeOK, Event, EventStatus
  <2>1. CASE db'.status = db.status
    BY <2>a, <2>1 DEF StatusOrder
  <2>2. ASSUME NEW s \in Slots, Stored(s), ops[s].kind \in JobName
        PROVE  StatusOrder[db.status] <= StatusOrder[db'.status]
    <3>1. db' = ops[s].event /\ ops[s].pc = "save" /\ JobInFlight(db, ops[s])
      BY <2>2, StoredCopy, CallersAre
    <3>2. CASE ops[s].kind = "PARTICIPANT_CHECK"
      <4>1. db'.status \in {db.status, "CANCELLED"}
        BY <2>a, <3>1, <3>2 DEF JobInFlight, CheckParticipantsForStart, Event
      <4>. QED
        BY <2>a, <4>1 DEF StatusOrder
    <3>3. CASE ops[s].kind = "LOCATION_SHARING_START"
      <4>1. db.status = "RECRUITING" /\ db'.status = "IN_PROGRESS"
        BY <2>a, <3>1, <3>3 DEF JobInFlight, CanStart, Start, Event
      <4>. QED
        BY <4>1 DEF StatusOrder
    <3>4. CASE ops[s].kind = "END"
      <4>1. db.status = "IN_PROGRESS" /\ db'.status = "ENDED"
        BY <2>a, <3>1, <3>4 DEF JobInFlight, CanEnd, End, Event
      <4>. QED
        BY <4>1 DEF StatusOrder
    <3>. QED
      BY <2>2, <3>2, <3>3, <3>4 DEF JobName
  <2>. QED
    BY <2>1, <2>2, OnlyJobsMove
<1>2. Spec /\ []NoOverlap => [][SerialInv /\ [Next]_vars]_vars
  BY SerialCorrect, PTL DEF Spec
<1>. QED
  BY <1>1, <1>2, PTL DEF StatusMovesForward

-----------------------------------------------------------------------------
(***************************************************************************)
(* The chain of jobs.  With requests that do not overlap, a clock that     *)
(* waits for what is due and no faults but lost acknowledgements, the job  *)
(* or the handler that takes the event further is always there.            *)
(***************************************************************************)
CheckJobs == {j \in jobs : j.name = "PARTICIPANT_CHECK"}
FollowUps == {"ParticipantsCheckPassed", "EventStarted"}

\* One job of each name, not yet overdue, active only while its handler runs.
JobsOnTime ==
  /\ \A j, k \in jobs : j.name = k.name => j = k
  /\ \A j \in jobs : /\ j.at >= now
                     /\ j.active => \E s \in Slots : ops[s].kind = j.name /\ ops[s].at = j.at
  /\ nextRow = 0 => CheckJobs = {}

\* What a request in flight relies on.
Relies(s) ==
  /\ ops[s].pc \notin {"rollback", "restore"}
  /\ ops[s].kind \in {"create", "reschedule"} =>
       /\ ops[s].event.checkTime > now
       /\ ops[s].pc = "schedule" => CheckJobs = {}
       /\ ops[s].pc = "save" =>
            CheckJobs # {} /\ \A j \in CheckJobs : j.at = ops[s].event.checkTime
  /\ ops[s].kind \in {"reschedule", "delete"} /\ ops[s].pc \in {"apply", "unschedule"}
       => CheckJobs # {}
  /\ ops[s].kind = "PARTICIPANT_CHECK" => db.checkTime >= now
  /\ ops[s].kind = "LOCATION_SHARING_START" => db.checkTime + 2 >= now

\* The handler of d will schedule its job, and for the right instant.
Timely(d) ==
  /\ d.type \in FollowUps => d.at > now
  /\ d.type = "ParticipantsCheckPassed" /\ db # None => d.at = TrackingStartTime(db)
EventsTimely ==
  /\ \A d \in deliveries : Timely(d)
  /\ \A i \in Instances : \A d \in domainEvents[i] :
       Timely(d) /\ (d.type \in FollowUps => i \in Slots /\ ops[i].kind \in JobName)

\* The jobs there are belong to the event that is saved.
JobsFit ==
  db # None =>
    /\ \A j \in jobs : j.name = "LOCATION_SHARING_START" => j.at = TrackingStartTime(db)
    /\ ~Handling({"reschedule"}) => \A j \in CheckJobs : j.at = db.checkTime

ChainInv ==
  /\ JobsOnTime /\ EventsTimely /\ JobsFit /\ ChainUnbroken
  /\ \A s \in Slots : ops[s] # Idle => Relies(s)

LEMMA NoneActive ==
  ASSUME JobsType, JobsOnTime, \A s \in Slots : ops[s].kind \notin JobName
  PROVE  \A j \in jobs : ~j.active
BY DEF JobsType, Job, JobsOnTime

LEMMA NoFollowUps ==
  ASSUME EventsTimely, \A s \in Slots : ops[s].kind \notin JobName
  PROVE  \A i \in Instances : \A d \in domainEvents[i] : d.type \notin FollowUps
BY DEF EventsTimely

\* A request begins: no other is in flight.
LEMMA ChainBegins ==
  ASSUME SerialInv, ChainInv, NoOverlap', NEW s \in Slots, NEW op, Begin(s, op), op # Idle,
         UNCHANGED <<db, jobs, now, deliveries>>, nextRow' = 0 => nextRow = 0,
         \A i \in Instances : \A d \in domainEvents'[i] :
           d \in domainEvents[i] \/ d.type \notin FollowUps,
         Relies(s)'
  PROVE  ChainInv'
<1>a. OpsType /\ JobsType
  BY TypeParts DEF SerialInv
<1>1. ops[s] = Idle /\ ops'[s] = op /\ Others(s)
  BY <1>a, BeginShape DEF Begin
<1>2. \A r \in Slots : ops[r] = Idle /\ (r # s => ops'[r] = Idle)
  BY <1>1 DEF NoOverlap, Others
<1>3. \A r \in Slots : ops[r].kind \notin JobName /\ ops[r].kind \notin {"reschedule", "delete"}
  BY <1>2 DEF Idle, JobName
<1>4. JobsOnTime'
  BY <1>a, <1>3, NoneActive DEF ChainInv, JobsOnTime, CheckJobs
<1>5. EventsTimely'
  BY <1>3, NoFollowUps DEF ChainInv, EventsTimely, Timely, FollowUps, TrackingStartTime
<1>6. JobsFit'
  BY <1>3 DEF ChainInv, JobsFit, CheckJobs, Handling, TrackingStartTime
<1>7. ChainUnbroken'
  BY <1>3 DEF ChainInv, ChainUnbroken, Handling, Scheduled, Pending
<1>8. \A r \in Slots : ops'[r] # Idle => Relies(r)'
  BY <1>2
<1>. QED
  BY <1>4, <1>5, <1>6, <1>7, <1>8 DEF ChainInv

\* The request in flight goes on: it changes its copy, and its instance.
LEMMA ChainGoes ==
  ASSUME SerialInv, ChainInv, NoOverlap, NEW s \in Slots, ops[s] # Idle, Others(s),
         ops'[s].kind = ops[s].kind, ops'[s].at = ops[s].at,
         UNCHANGED <<db, jobs, now, nextRow, deliveries>>,
         \A i \in Instances : \A d \in domainEvents'[i] :
           \/ d \in domainEvents[i]
           \/ i = s /\ Timely(d) /\ (d.type \in FollowUps => ops[s].kind \in JobName),
         Relies(s)'
  PROVE  ChainInv'
<1>1. \A r \in Slots \ {s} : ops[r] = Idle /\ ops'[r] = Idle
  BY DEF NoOverlap, Others
<1>2. \A r \in Slots : ops'[r].kind = ops[r].kind /\ ops'[r].at = ops[r].at
  BY DEF Others
<1>3. JobsOnTime'
  BY <1>2 DEF ChainInv, JobsOnTime, CheckJobs
<1>4. \A d : Timely(d)' <=> Timely(d)
  BY DEF Timely
<1>5. EventsTimely'
  BY <1>2, <1>4 DEF ChainInv, EventsTimely
<1>6. JobsFit'
  BY <1>2 DEF ChainInv, JobsFit, CheckJobs, Handling
<1>7. ChainUnbroken'
  BY <1>2 DEF ChainInv, ChainUnbroken, Handling, Scheduled, Pending
<1>8. \A r \in Slots : ops'[r] # Idle => Relies(r)'
  BY <1>1
<1>. QED
  BY <1>3, <1>5, <1>6, <1>7, <1>8 DEF ChainInv

\* The request in flight ends and leaves jobs of before, none of them active.
LEMMA ChainEnds ==
  ASSUME SerialInv, SerialInv', ChainInv, NoOverlap, NEW s \in Slots, ops[s] # Idle,
         Return(s), now' = now, nextRow' = nextRow,
         \A j, k \in jobs' : j.name = k.name => j = k,
         \A j \in jobs' : ~j.active /\ j.at >= now /\ \E k \in jobs : k.name = j.name,
         \A d \in deliveries' : Timely(d)',
         \A i \in Instances : \A d \in domainEvents'[i] :
           d.type \notin FollowUps \/ i \in Slots,
         JobsFit', ChainUnbroken'
  PROVE  ChainInv'
<1>1. \A r \in Slots : ops'[r] = Idle
  BY ReturnShape, TypeParts DEF SerialInv, Others, NoOverlap
<1>2. \A r \in Slots : domainEvents'[r] = {}
  BY <1>1 DEF SerialInv, FewAnnounce, Announcers, Idle, JobName
<1>3. EventsTimely'
  BY <1>2 DEF EventsTimely, Timely, FollowUps
<1>4. JobsOnTime'
  BY DEF ChainInv, JobsOnTime, CheckJobs
<1>. QED
  BY <1>1, <1>3, <1>4 DEF ChainInv

LEMMA ChainReads ==
  ASSUME SerialInv, ChainInv, NoOverlap, NoOverlap', NEW s \in Slots, Reads(s)
  PROVE  ChainInv'
<1>a. TypeOK /\ OpsType /\ RegistryType /\ DbType /\ NumType
  BY TypeParts DEF SerialInv
<1>b. ASSUME NEW d, AddDomainEvent(s, d), d.type \notin FollowUps
      PROVE  /\ \A i \in Instances : \A e \in domainEvents'[i] :
                  e \in domainEvents[i] \/ e.type \notin FollowUps
             /\ deliveries' = deliveries
  BY <1>a, <1>b DEF AddDomainEvent, RegistryType, Instances
<1>c. ASSUME NEW op, Begin(s, op), op # Idle, UNCHANGED registryVars,
             UNCHANGED <<db, jobs, now>>, nextRow' = 0 => nextRow = 0, Relies(s)'
      PROVE  ChainInv'
  BY <1>c, ChainBegins DEF registryVars
<1>d. ASSUME NEW op, Begin(s, op), op.pc \in {"save", "withdraw"},
             op.kind \notin {"create", "reschedule", "delete"} \cup JobName
      PROVE  op # Idle /\ Relies(s)'
  <2>1. ops'[s] = op
    BY <1>a, <1>d, BeginShape
  <2>. QED
    BY <1>d, <2>1 DEF Relies, Idle, JobName
<1>e. ASSUME NEW op, Begin(s, op), op # Idle, db # None, Open(db) PROVE CheckJobs # {}
  <2>1. ops[s] = Idle /\ ops'[s] = op /\ Others(s)
    BY <1>a, <1>e, BeginShape DEF Begin
  <2>2. \A r \in Slots : ops[r] = Idle
    BY <1>e, <2>1 DEF NoOverlap, Others
  <2>3. ~Handling({"reschedule", "delete"})
    BY <2>2 DEF Handling, Idle
  <2>. QED
    BY <1>e, <2>3 DEF ChainInv, ChainUnbroken, Open, Scheduled, CheckJobs
<1>1. ASSUME NEW t \in CheckTimes, CreateBegins(s, t) PROVE ChainInv'
  <2>. DEFINE op == Holding("create", "schedule", NewEvent(0, t))
  <2>1. op.kind = "create" /\ op.pc = "schedule" /\ op.event = NewEvent(0, t) /\ op # Idle
    BY HoldingKind, HoldingShape DEF Holding, Idle
  <2>2. Begin(s, op)
    BY <1>1 DEF CreateBegins
  <2>. HIDE DEF op
  <2>3. ops'[s] = op /\ op.event.checkTime = t /\ t > now /\ now' = now /\ jobs' = jobs
        /\ nextRow = 0
    BY <1>1, <1>a, <2>1, <2>2, BeginShape DEF CreateBegins, queueVars, NewEvent
  <2>4. CheckJobs' = {}
    BY <2>3 DEF ChainInv, JobsOnTime, CheckJobs
  <2>5. Relies(s)'
    BY <2>1, <2>3, <2>4 DEF Relies
  <2>6. Announcing("EventCreated").type \notin FollowUps
    BY DEF Announcing, FollowUps
  <2>. QED
    BY <1>1, <1>b, <2>1, <2>2, <2>5, <2>6, ChainBegins DEF CreateBegins, queueVars
<1>2. ASSUME NEW t \in CheckTimes, RescheduleReads(s, t) PROVE ChainInv'
  <2>. DEFINE op == [Holding("reschedule", "unschedule", Rescheduled(db, t))
                      EXCEPT !.at = db.checkTime, !.removed = Ids(DroppedBySchedule(db))]
  <2>1. /\ op.kind = "reschedule" /\ op.pc = "unschedule"
        /\ op.event = Rescheduled(db, t) /\ op # Idle
    BY HoldingKind DEF Holding, Idle
  <2>2. Begin(s, op) /\ db # None /\ Open(db) /\ t > now
    BY <1>2 DEF RescheduleReads, CanBeUpdated, Open
  <2>. HIDE DEF op
  <2>3. ops'[s] = op /\ op.event.checkTime = t
    BY <1>a, <2>1, <2>2, BeginShape DEF Rescheduled, DbType, Event
  <2>4. UNCHANGED <<db, jobs, now, nextRow, registryVars>>
    BY <1>2 DEF RescheduleReads, countVars, queueVars
  <2>5. CheckJobs' # {}
    BY <1>e, <2>1, <2>2, <2>4 DEF CheckJobs
  <2>6. Relies(s)'
    BY <2>1, <2>2, <2>3, <2>4, <2>5 DEF Relies
  <2>. QED
    BY <1>c, <2>1, <2>2, <2>4, <2>6
<1>3. ASSUME DeleteReads(s) PROVE ChainInv'
  <2>. DEFINE op == Holding("delete", "apply", db)
  <2>1. op.kind = "delete" /\ op.pc = "apply" /\ op # Idle
    BY HoldingKind, HoldingShape DEF Holding, Idle
  <2>2. Begin(s, op) /\ db # None /\ Open(db)
    BY <1>3 DEF DeleteReads, CanBeDeleted, Open
  <2>. HIDE DEF op
  <2>3. ops'[s] = op
    BY <1>a, <2>2, BeginShape
  <2>4. UNCHANGED <<db, jobs, now, nextRow, registryVars>>
    BY <1>3 DEF DeleteReads, countVars, queueVars
  <2>5. CheckJobs' # {}
    BY <1>e, <2>1, <2>2, <2>4 DEF CheckJobs
  <2>6. Relies(s)'
    BY <2>1, <2>3, <2>5 DEF Relies
  <2>. QED
    BY <1>c, <2>1, <2>2, <2>4, <2>6
<1>4. ASSUME NEW u \in Users, JoinReads(s, u) PROVE ChainInv'
  <2>. DEFINE op == Holding("join", "save", AddParticipant(db, nextRow, u))
  <2>1. op.kind = "join" /\ op.pc = "save" /\ Begin(s, op)
    BY <1>4, HoldingKind, HoldingShape DEF JoinReads
  <2>. HIDE DEF op
  <2>2. op # Idle /\ Relies(s)'
    BY <1>d, <2>1 DEF JobName
  <2>. QED
    BY <1>4, <1>a, <1>c, <2>1, <2>2 DEF JoinReads, queueVars, NumType
<1>5. ASSUME NEW u \in Users, LeaveGroupReads(s, u) PROVE ChainInv'
  <2>. DEFINE op == [Holding("leave", "withdraw", db) EXCEPT !.user = u]
  <2>1. op.kind = "leave" /\ op.pc = "withdraw" /\ Begin(s, op)
    BY <1>5, HoldingKind DEF LeaveGroupReads, Holding, Idle
  <2>. HIDE DEF op
  <2>2. op # Idle /\ Relies(s)'
    BY <1>d, <2>1 DEF JobName
  <2>. QED
    BY <1>5, <1>c, <2>1, <2>2 DEF LeaveGroupReads, queueVars, countVars
<1>6. ASSUME UpdateReads(s) PROVE ChainInv'
  <2>. DEFINE op == Holding("update", "save", db)
  <2>1. op.kind = "update" /\ op.pc = "save" /\ Begin(s, op)
    BY <1>6, HoldingKind, HoldingShape DEF UpdateReads
  <2>. HIDE DEF op
  <2>2. op # Idle /\ Relies(s)'
    BY <1>d, <2>1 DEF JobName
  <2>. QED
    BY <1>6, <1>c, <2>1, <2>2 DEF UpdateReads, queueVars, countVars
<1>7. ASSUME NEW p, WithdrawReads(s, p) PROVE ChainInv'
  <2>. DEFINE op == [Holding("withdraw", "save", RemoveParticipant(db, p))
                      EXCEPT !.removed = {p.id}]
  <2>1. op.kind = "withdraw" /\ op.pc = "save" /\ Begin(s, op)
    BY <1>7, HoldingKind DEF WithdrawReads, Holding, Idle
  <2>. HIDE DEF op
  <2>2. op # Idle /\ Relies(s)'
    BY <1>d, <2>1 DEF JobName
  <2>. QED
    BY <1>7, <1>c, <2>1, <2>2 DEF WithdrawReads, queueVars, countVars
<1>8. ASSUME NEW p, DepartReads(s, p) PROVE ChainInv'
  <2>. DEFINE op == Holding("depart", "save", DepartParticipant(db, p))
  <2>1. op.kind = "depart" /\ op.pc = "save" /\ Begin(s, op)
    BY <1>8, HoldingKind, HoldingShape DEF DepartReads
  <2>. HIDE DEF op
  <2>2. op # Idle /\ Relies(s)'
    BY <1>d, <2>1 DEF JobName
  <2>3. Announcing("ParticipantDeparted").type \notin FollowUps
    BY DEF Announcing, FollowUps
  <2>. QED
    BY <1>8, <1>b, <2>1, <2>2, <2>3, ChainBegins DEF DepartReads, queueVars, countVars
<1>9. ASSUME NEW p, ArriveReads(s, p) PROVE ChainInv'
  <2>. DEFINE op == Holding("arrive", "save", ArriveParticipant(db, p))
  <2>1. op.kind = "arrive" /\ op.pc = "save" /\ Begin(s, op)
    BY <1>9, HoldingKind, HoldingShape DEF ArriveReads
  <2>. HIDE DEF op
  <2>2. op # Idle /\ Relies(s)'
    BY <1>d, <2>1 DEF JobName
  <2>. QED
    BY <1>9, <1>c, <2>1, <2>2 DEF ArriveReads, queueVars, countVars
<1>. QED
  BY <1>1, <1>2, <1>3, <1>4, <1>5, <1>6, <1>7, <1>8, <1>9 DEF Reads

LEMMA ChainDelivers ==
  ASSUME SerialInv, SerialInv', ChainInv, NoOverlap, NoOverlap', NEW j \in jobs, JobDelivered(j)
  PROVE  ChainInv'
<1>a. TypeOK /\ OpsType /\ RegistryType /\ DbType /\ JobsType
  BY TypeParts DEF SerialInv
<1>b. j.name \in JobName /\ j.at <= now /\ ~j.active /\ j.at >= now
  BY <1>a DEF JobDelivered, JobIgnored, JobReads, CanRun, Due, JobsType, Job, ChainInv, JobsOnTime
<1>1. CASE JobIgnored(j)
  <2>1. /\ jobs' = jobs \ {j} /\ ~Accepts(j.name)
        /\ UNCHANGED <<db, ops, now, nextRow, registryVars>>
    BY <1>1 DEF JobIgnored, countVars
  <2>2. db = None \/ j.name # "PARTICIPANT_CHECK"
    BY <2>1 DEF Accepts
  <2>3. CheckJobs' \subseteq CheckJobs /\ (db # None => CheckJobs' = CheckJobs)
    BY <2>1, <2>2 DEF CheckJobs
  <2>4. JobsOnTime'
    BY <2>1, <2>3 DEF ChainInv, JobsOnTime
  <2>5. EventsTimely'
    BY <2>1 DEF ChainInv, EventsTimely, Timely, registryVars
  <2>6. JobsFit'
    BY <2>1, <2>3 DEF ChainInv, JobsFit, Handling
  <2>7. ChainUnbroken'
    BY <1>b, <2>1, <2>2 DEF ChainInv, ChainUnbroken, Handling, Scheduled, Pending,
       registryVars, Accepts, CanStart, CanEnd
  <2>8. ASSUME NEW s \in Slots, ops'[s] # Idle PROVE Relies(s)'
    <3>1. Relies(s) /\ Derived(db, ops[s])
      BY <2>1, <2>8 DEF ChainInv, SerialInv, OpsDerived
    <3>2. CASE db # None
      BY <2>1, <2>3, <3>1, <3>2 DEF Relies
    <3>3. CASE db = None
      <4>1. ops[s].kind = "create"
        BY <3>1, <3>3, CallersAre
      <4>2. CASE ops[s].pc = "save"
        <5>1. \A k \in CheckJobs : k.at > now
          BY <3>1, <4>1, <4>2 DEF Relies
        <5>2. j.at \in Nat /\ now \in Nat
          BY <1>a DEF JobsType, Job, TypeOK
        <5>3. j \notin CheckJobs
          BY <1>b, <5>1, <5>2
        <5>4. CheckJobs' = CheckJobs
          BY <2>1, <5>3 DEF CheckJobs
        <5>. QED
          BY <2>1, <3>1, <4>1, <5>4 DEF Relies
      <4>3. CASE ops[s].pc # "save"
        BY <2>1, <2>3, <3>1, <4>1, <4>3 DEF Relies
      <4>. QED
        BY <4>2, <4>3
    <3>. QED
      BY <3>2, <3>3
  <2>. QED
    BY <2>4, <2>5, <2>6, <2>7, <2>8 DEF ChainInv
<1>2. ASSUME NEW s \in Slots, JobReads(s, j) PROVE ChainInv'
  <2>. DEFINE op == [Holding(j.name, "apply", db) EXCEPT !.at = j.at]
              k == [j EXCEPT !.active = TRUE]
  <2>1. op.kind = j.name /\ op.pc = "apply" /\ op.at = j.at /\ Begin(s, op) /\ op # Idle
    BY <1>2, HoldingKind DEF JobReads, Holding, Idle
  <2>2. k.name = j.name /\ k.at = j.at
    BY <1>a DEF JobsType, Job
  <2>3. /\ jobs' = (jobs \ {j}) \cup {k} /\ db # None
        /\ UNCHANGED <<db, now, nextRow, registryVars>>
    BY <1>2 DEF JobReads, Activated, Accepts, countVars
  <2>. HIDE DEF op, k
  <2>4. ops[s] = Idle /\ ops'[s] = op /\ Others(s)
    BY <1>a, <2>1, BeginShape DEF Begin
  <2>5. \A r \in Slots : ops[r] = Idle /\ (r # s => ops'[r] = Idle)
    BY <2>1, <2>4 DEF NoOverlap, Others
  <2>6. \A r \in Slots : ops[r].kind \notin JobName
    BY <2>5 DEF Idle, JobName
  <2>6a. ~Handling({"reschedule", "delete"}) /\ ~Handling({"reschedule"})
    BY <2>5 DEF Idle, Handling
  <2>7. \A i \in jobs : ~i.active
    BY <1>a, <2>6, NoneActive DEF ChainInv
  <2>8. JobsOnTime'
    <3>1. nextRow # 0
      BY <2>3 DEF SerialInv, DbSound, NotYet
    <3>. QED
      BY <1>b, <2>1, <2>2, <2>3, <2>4, <2>7, <3>1 DEF ChainInv, JobsOnTime
  <2>9. EventsTimely'
    BY <2>3, <2>6, NoFollowUps DEF ChainInv, EventsTimely, Timely, registryVars, FollowUps
  <2>10. JobsFit'
    BY <2>2, <2>3, <2>6a DEF ChainInv, JobsFit, CheckJobs
  <2>11. ChainUnbroken'
    <3>1. \A name : Scheduled(name) => Scheduled(name)'
      BY <2>2, <2>3 DEF Scheduled
    <3>. QED
      BY <2>3, <2>6a, <3>1 DEF ChainInv, ChainUnbroken, Pending, registryVars
  <2>12. Relies(s)'
    <3>1. db \in Event /\ db.checkTime \in Nat /\ now \in Nat
      BY <1>a, <2>3 DEF DbType, Event, TypeOK
    <3>2. j.name = "PARTICIPANT_CHECK" => db.checkTime >= now
      BY <1>b, <2>3, <2>6a DEF ChainInv, JobsFit, CheckJobs
    <3>3. j.name = "LOCATION_SHARING_START" => db.checkTime + 2 >= now
      BY <1>b, <2>3, <3>1 DEF ChainInv, JobsFit, TrackingStartTime
    <3>. QED
      BY <1>b, <2>1, <2>3, <2>4, <3>2, <3>3 DEF Relies, JobName
  <2>. QED
    BY <2>5, <2>8, <2>9, <2>10, <2>11, <2>12 DEF ChainInv
<1>. QED
  BY <1>1, <1>2 DEF JobDelivered

LEMMA ChainTicks ==
  ASSUME SerialInv, ChainInv, Prompt, Tick
  PROVE  ChainInv'
<1>a. JobsType /\ NumType
  BY TypeParts DEF SerialInv
<1>1. /\ \A s \in Slots : ops[s] = Idle
      /\ deliveries = {} /\ \A j \in jobs : ~Due(j)
      /\ UNCHANGED <<db, ops, nextRow, jobs, registryVars>> /\ now' = now + 1
  BY DEF Tick, Quiet, countVars
<1>2. \A s \in Slots : ops[s].kind \notin JobName
  BY <1>1 DEF Idle, JobName
<1>3. \A j \in jobs : ~j.active
  BY <1>a, <1>2, NoneActive DEF ChainInv
<1>4. JobsOnTime'
  BY <1>a, <1>1, <1>3 DEF ChainInv, JobsOnTime, CheckJobs, Due, NumType, JobsType, Job
<1>5. EventsTimely'
  BY <1>1, <1>2, NoFollowUps DEF ChainInv, EventsTimely, Timely, registryVars, FollowUps
<1>6. JobsFit' /\ ChainUnbroken'
  BY <1>1 DEF ChainInv, JobsFit, ChainUnbroken, CheckJobs, Scheduled, Pending, Handling,
     registryVars
<1>. QED
  BY <1>1, <1>4, <1>5, <1>6 DEF ChainInv

LEMMA ChainHandles ==
  ASSUME SerialInv, ChainInv, NEW d \in deliveries, Handle(d)
  PROVE  ChainInv'
<1>a. JobsType /\ NumType /\ RegistryType
  BY TypeParts DEF SerialInv
<1>1. /\ UNCHANGED <<db, ops, nextRow, now, marked, domainEvents>>
      /\ deliveries' = deliveries \ {d} /\ Timely(d)
      /\ d.at \in Nat
  BY <1>a DEF Handle, countVars, ChainInv, EventsTimely, RegistryType, DomainEvent
<1>2. EventsTimely'
  BY <1>1 DEF ChainInv, EventsTimely, Timely
<1>3. ASSUME CheckJobs' = CheckJobs, NEW s \in Slots, ops'[s] # Idle PROVE Relies(s)'
  <2>1. Relies(s)
    BY <1>1, <1>3 DEF ChainInv
  <2>. QED
    BY <1>1, <1>3, <2>1 DEF Relies
<1>4. ASSUME NEW name \in JobName \ {"PARTICIPANT_CHECK"}, ScheduledBy(d, name), d.at > now
      PROVE  /\ CheckJobs' = CheckJobs /\ JobsOnTime' /\ Scheduled(name)'
             /\ \A other : Scheduled(other) => Scheduled(other)'
             /\ \A j \in jobs' : j \in jobs \/ (j.name = name /\ j.at = d.at)
  <2>1. CASE Scheduled(name)
    <3>1. jobs' = jobs
      BY <1>4, <2>1 DEF ScheduledBy, WithJob
    <3>. QED
      BY <1>1, <2>1, <3>1 DEF CheckJobs, ChainInv, JobsOnTime, Scheduled
  <2>2. CASE ~Scheduled(name)
    <3>. DEFINE n == [name |-> name, at |-> d.at, active |-> FALSE]
    <3>1. CanSchedule(name, d.at)
      BY <1>1, <1>4, <1>a, <2>2 DEF CanSchedule, NumType
    <3>2. /\ jobs' = jobs \cup {n} /\ n.name = name /\ n.at = d.at /\ ~n.active
          /\ d.at >= now
      BY <1>1, <1>4, <1>a, <2>2, <3>1 DEF ScheduledBy, WithJob, NumType
    <3>. HIDE DEF n
    <3>3. CheckJobs' = CheckJobs
      BY <1>4, <3>2 DEF CheckJobs
    <3>4. JobsOnTime'
      BY <1>1, <2>2, <3>2, <3>3 DEF ChainInv, JobsOnTime, Scheduled
    <3>. QED
      BY <3>2, <3>3, <3>4 DEF Scheduled
  <2>. QED
    BY <2>1, <2>2
<1>5. CASE CheckPassedHandled(d)
  <2>1. d.type = "ParticipantsCheckPassed" /\ d.at > now
    BY <1>1, <1>5 DEF CheckPassedHandled, Timely, FollowUps
  <2>2. /\ CheckJobs' = CheckJobs /\ JobsOnTime' /\ Scheduled("LOCATION_SHARING_START")'
        /\ \A other : Scheduled(other) => Scheduled(other)'
        /\ \A j \in jobs' : j \in jobs \/ (j.name = "LOCATION_SHARING_START" /\ j.at = d.at)
    BY <1>4, <1>5, <2>1 DEF CheckPassedHandled, JobName
  <2>3. JobsFit'
    BY <1>1, <2>1, <2>2 DEF ChainInv, JobsFit, Handling, Timely
  <2>4. ChainUnbroken'
    BY <1>1, <2>1, <2>2 DEF ChainInv, ChainUnbroken, Handling, Pending
  <2>. QED
    BY <1>2, <1>3, <2>2, <2>3, <2>4 DEF ChainInv
<1>6. CASE StartedHandled(d)
  <2>1. d.type = "EventStarted" /\ d.at > now
    BY <1>1, <1>6 DEF StartedHandled, Timely, FollowUps
  <2>2. /\ CheckJobs' = CheckJobs /\ JobsOnTime' /\ Scheduled("END")'
        /\ \A other : Scheduled(other) => Scheduled(other)'
        /\ \A j \in jobs' : j \in jobs \/ (j.name = "END" /\ j.at = d.at)
    BY <1>4, <1>6, <2>1 DEF StartedHandled, JobName
  <2>3. JobsFit'
    BY <1>1, <2>1, <2>2 DEF ChainInv, JobsFit, Handling, Timely
  <2>4. ChainUnbroken'
    BY <1>1, <2>1, <2>2 DEF ChainInv, ChainUnbroken, Handling, Pending
  <2>. QED
    BY <1>2, <1>3, <2>2, <2>3, <2>4 DEF ChainInv
<1>7. CASE ElsewhereHandled(d)
  <2>1. jobs' = jobs /\ d.type \notin FollowUps
    BY <1>7 DEF ElsewhereHandled, FollowUps
  <2>2. CheckJobs' = CheckJobs /\ JobsOnTime' /\ JobsFit'
    BY <1>1, <2>1 DEF CheckJobs, ChainInv, JobsOnTime, JobsFit, Handling
  <2>3. ChainUnbroken'
    BY <1>1, <2>1 DEF ChainInv, ChainUnbroken, Handling, Pending, Scheduled, FollowUps
  <2>. QED
    BY <1>2, <1>3, <2>2, <2>3 DEF ChainInv
<1>. QED
  BY <1>5, <1>6, <1>7 DEF Handle

\* A job that saves a change of status delivers the announcement of it.
LEMMA JobAnnounces ==
  ASSUME SerialInv, AnnounceInv, NEW s \in Slots, Stored(s), ops[s].kind \in JobName,
         NEW type \in Observed, Bears(s) => Holds(s, type)
  PROVE  Announced(type)
<1>a. RegistryType /\ DbType /\ OpsType
  BY TypeParts DEF SerialInv
<1>1. db # None /\ JobInFlight(db, ops[s]) /\ ops[s].pc = "save"
  <2>1. ops[s] # Idle /\ ops[s].pc = "save"
    BY DEF Stored, At, Idle, JobName
  <2>. QED
    BY <2>1, CallersAre DEF SerialInv, OpsDerived
<1>2. ~Stuck
  BY <1>1 DEF Stuck, Open, JobInFlight, JobName, CanEnd
<1>3. Clear
  BY <1>1, <1>2 DEF AnnounceInv, Over
<1>4. Holds(s, type) /\ marked = s
  BY <1>1, <1>3 DEF Clear, At, Holds
<1>. QED
  BY <1>a, <1>4, DispatchAnnounces

\* What the save of each request does to the status and to the schedule.
LEMMA StoredKeeps ==
  ASSUME SerialInv, NEW s \in Slots, Stored(s), db # None
  PROVE  /\ ops[s].kind \notin {"create", "delete"} /\ db' # None
         /\ ops[s].kind = "reschedule" => Open(db)
         /\ ops[s].kind # "reschedule" => db'.checkTime = db.checkTime
         /\ ops[s].kind \notin JobName =>
              db'.status = db.status /\ db'.checked = db.checked
<1>1. /\ Derived(db, ops[s]) /\ db' = ops[s].event /\ ops[s].pc = "save"
      /\ ops[s] \in Op /\ db \in Event
  BY StoredCopy
<1>2. ops[s].event # None
  BY <1>1, NoneIsNoEvent DEF Op
<1>3. CASE JoinInFlight(db, ops[s]) \/ WithdrawInFlight(db, ops[s])
  BY <1>1, <1>2, <1>3 DEF JoinInFlight, WithdrawInFlight, AddParticipant,
     RemoveParticipant, Event
<1>4. CASE EditInFlight(db, ops[s])
  <2>1. CASE ops[s].kind = "reschedule"
    BY <1>1, <1>2, <1>4, <2>1 DEF EditInFlight, Rescheduled, Event
  <2>2. CASE ops[s].kind # "reschedule"
    BY <1>1, <1>2, <1>4, <2>2 DEF EditInFlight
  <2>. QED
    BY <2>1, <2>2
<1>5. CASE ProgressInFlight(db, ops[s])
  BY <1>1, <1>2, <1>5 DEF ProgressInFlight, WithStatus, Event
<1>6. CASE JobInFlight(db, ops[s])
  <2>1. db'.checkTime = db.checkTime
    BY <1>1, <1>6 DEF JobInFlight, CheckParticipantsForStart, Start, End, Event
  <2>. QED
    BY <1>1, <1>2, <1>6, <2>1 DEF JobInFlight, JobName
<1>7. ~CreateInFlight(db, ops[s]) /\ ~LeaveInFlight(db, ops[s])
  BY <1>1 DEF CreateInFlight, LeaveInFlight
<1>. QED
  BY <1>1, <1>3, <1>4, <1>5, <1>6, <1>7 DEF Derived

\* The jobs after a save: none is active, those of other names stay.
LEMMA JobsAfterSave ==
  ASSUME SerialInv, ChainInv, NoOverlap, NEW s \in Slots, ops[s] # Idle,
         \/ jobs' = Finished(ops[s].kind, ops[s].at)
         \/ ops[s].kind \in JobName /\ jobs' = Deactivated(ops[s].kind)
  PROVE  /\ \A j \in jobs' : ~j.active /\ \E k \in jobs : k.name = j.name /\ k.at = j.at
         /\ \A j, k \in jobs' : j.name = k.name => j = k
         /\ \A k \in jobs : k.name # ops[s].kind => k \in jobs'
         /\ ops[s].kind \notin JobName => jobs' = jobs
<1>a. JobsType
  BY TypeParts DEF SerialInv
<1>1. \A k \in jobs : k.active => ops[s].kind = k.name /\ ops[s].at = k.at
  <2>. SUFFICES ASSUME NEW k \in jobs, k.active
                PROVE  ops[s].kind = k.name /\ ops[s].at = k.at
    OBVIOUS
  <2>1. PICK r \in Slots : ops[r].kind = k.name /\ ops[r].at = k.at
    BY DEF ChainInv, JobsOnTime
  <2>2. ops[r] # Idle
    BY <1>a, <2>1 DEF JobsType, Job, JobName, Idle
  <2>. QED
    BY <2>1, <2>2 DEF NoOverlap
<1>2. \A k \in jobs : k.name \in JobName /\ k.active \in BOOLEAN
  BY <1>a DEF JobsType, Job
<1>3. CASE jobs' = Finished(ops[s].kind, ops[s].at)
  <2>1. jobs' \subseteq jobs /\ \A j \in jobs' : ~j.active
    BY <1>1, <1>3 DEF Finished
  <2>2. \A k \in jobs : k.name # ops[s].kind => k \in jobs'
    BY <1>3 DEF Finished
  <2>. QED
    BY <1>2, <2>1, <2>2 DEF ChainInv, JobsOnTime
<1>4. CASE ops[s].kind \in JobName /\ jobs' = Deactivated(ops[s].kind)
  <2>. DEFINE idle(k) == [k EXCEPT !.active = IF k.name = ops[s].kind THEN FALSE ELSE @]
  <2>1. jobs' = {idle(k) : k \in jobs}
    BY <1>4 DEF Deactivated
  <2>2. ASSUME NEW k \in jobs
        PROVE  /\ idle(k).name = k.name /\ idle(k).at = k.at /\ ~idle(k).active
               /\ k.name # ops[s].kind => idle(k) = k
    BY <1>1, <1>a DEF JobsType, Job
  <2>. HIDE DEF idle
  <2>. QED
    BY <1>4, <2>1, <2>2 DEF ChainInv, JobsOnTime
<1>. QED
  BY <1>3, <1>4

\* What a save delivers was in the registry.
LEMMA DeliveredBefore ==
  ASSUME RegistryType, NEW s \in Slots, DispatchEventsForAggregate(s, Handled)
  PROVE  /\ deliveries \subseteq deliveries'
         /\ \A d \in deliveries' : d \in deliveries \/ \E i \in Instances : d \in domainEvents[i]
         /\ \A i \in Instances : domainEvents'[i] \subseteq domainEvents[i]
BY DEF DispatchEventsForAggregate, RegistryType, Instances

\* A save, acknowledged or not, leaves what takes the event further.
LEMMA ChainStores ==
  ASSUME SerialInv, SerialInv', ChainInv, AnnounceInv, NoOverlap, NEW s \in Slots, Stored(s),
         \/ jobs' = Finished(ops[s].kind, ops[s].at)
         \/ ops[s].kind \in JobName /\ jobs' = Deactivated(ops[s].kind)
  PROVE  ChainInv'
<1>a. TypeOK /\ OpsType /\ RegistryType /\ DbType /\ JobsType
  BY TypeParts DEF SerialInv
<1>b. /\ ops[s] \in Op /\ ops[s] # Idle /\ Derived(db, ops[s]) /\ ops[s].pc = "save"
      /\ Relies(s) /\ Return(s) /\ now' = now /\ nextRow' = nextRow
  BY <1>a, AtCall, OpNotIdle DEF Stored, Pc, SerialInv, OpsDerived, At, ChainInv
<1>c. /\ \A j \in jobs' : ~j.active /\ \E k \in jobs : k.name = j.name /\ k.at = j.at
      /\ \A j, k \in jobs' : j.name = k.name => j = k
      /\ \A k \in jobs : k.name # ops[s].kind => k \in jobs'
      /\ ops[s].kind \notin JobName => jobs' = jobs
  BY <1>b, JobsAfterSave
<1>d. /\ deliveries \subseteq deliveries'
      /\ \A d \in deliveries' : d \in deliveries \/ \E i \in Instances : d \in domainEvents[i]
      /\ \A i \in Instances : domainEvents'[i] \subseteq domainEvents[i]
  BY <1>a, DeliveredBefore DEF Stored
<1>e. \A r \in Slots : ops'[r] = Idle
  BY <1>a, <1>b, ReturnShape DEF Others, NoOverlap
<1>f. ~Handling({"reschedule"})' /\ ~Handling({"reschedule", "delete"})'
  BY <1>e DEF Handling, Idle
<1>1. \A d \in deliveries' : Timely(d)
  BY <1>d DEF ChainInv, EventsTimely
<1>2. \A i \in Instances : \A d \in domainEvents'[i] : d.type \notin FollowUps \/ i \in Slots
  BY <1>d DEF ChainInv, EventsTimely
<1>3. \A j \in jobs' : ~j.active /\ j.at >= now /\ \E k \in jobs : k.name = j.name
  BY <1>c DEF ChainInv, JobsOnTime
<1>4. SUFFICES (\A d \in deliveries' : Timely(d)') /\ JobsFit' /\ ChainUnbroken'
  BY <1>b, <1>c, <1>2, <1>3, ChainEnds
<1>5. CASE db = None
  <2>1. ops[s].kind = "create" /\ CreateInFlight(db, ops[s])
    BY <1>b, <1>5 DEF Derived, CreateInFlight
  <2>2. /\ db' = NewEvent(0, ops[s].event.checkTime) /\ NotYet
    BY <1>5, <2>1 DEF Stored, Saved, CreateInFlight, NotYet, Handling
  <2>3. /\ db'.status = "RECRUITING" /\ ~db'.checked /\ db'.checkTime = ops[s].event.checkTime
    BY <2>2 DEF NewEvent
  <2>4. /\ ~Scheduled("LOCATION_SHARING_START") /\ ~Pending(Passed)
        /\ \A i \in Instances : ~PassedIn(i)
    BY <2>2 DEF SerialInv, StartComesAfterCheck, Passed
  <2>5. jobs' = jobs
    BY <1>c, <2>1 DEF JobName
  <2>6. \A d \in deliveries' : d.type # "ParticipantsCheckPassed"
    BY <1>d, <2>4 DEF Pending, Passed, PassedIn
  <2>7. \A d \in deliveries' : Timely(d)'
    BY <1>b, <1>1, <2>6 DEF Timely
  <2>8. CheckJobs # {} /\ \A j \in CheckJobs : j.at = ops[s].event.checkTime
    BY <1>b, <2>1 DEF Relies
  <2>9. JobsFit'
    BY <2>3, <2>4, <2>5, <2>8 DEF JobsFit, CheckJobs, Scheduled
  <2>10. ChainUnbroken'
    BY <2>3, <2>5, <2>8 DEF ChainUnbroken, CheckJobs, Scheduled
  <2>. QED
    BY <2>7, <2>9, <2>10
<1>6. CASE db # None
  <2>1. /\ ops[s].kind \notin {"create", "delete"} /\ db' # None
        /\ ops[s].kind = "reschedule" => Open(db)
        /\ ops[s].kind # "reschedule" => db'.checkTime = db.checkTime
        /\ ops[s].kind \notin JobName =>
             db'.status = db.status /\ db'.checked = db.checked
    BY <1>6, StoredKeeps
  <2>2. db \in Event /\ db' = ops[s].event
    BY <1>6, StoredCopy
  <2>3. ASSUME ops[s].kind = "reschedule"
        PROVE  /\ ~Scheduled("LOCATION_SHARING_START")
               /\ \A d \in deliveries' : d.type # "ParticipantsCheckPassed"
    <3>1. ~Scheduled("LOCATION_SHARING_START") /\ ~Pending(Passed)
      BY <1>6, <2>1, <2>3 DEF SerialInv, StartComesAfterCheck, Open, Passed
    <3>2. \A i \in Instances : \A d \in domainEvents[i] : d.type \notin FollowUps
      <4>1. \A r \in Slots : ops[r].kind \notin JobName
        BY <1>b, <2>3 DEF NoOverlap, JobName, Idle
      <4>. QED
        BY <4>1, NoFollowUps DEF ChainInv
    <3>. QED
      BY <1>d, <3>1, <3>2 DEF Pending, Passed, FollowUps
  <2>4. \A d \in deliveries' : Timely(d)'
    <3>1. CASE ops[s].kind = "reschedule"
      BY <1>b, <1>1, <2>3, <3>1 DEF Timely
    <3>2. CASE ops[s].kind # "reschedule"
      BY <1>b, <1>1, <1>6, <2>1, <3>2 DEF Timely, TrackingStartTime
    <3>. QED
      BY <3>1, <3>2
  <2>5. JobsFit'
    <3>1. CASE ops[s].kind = "reschedule"
      <4>1. jobs' = jobs /\ \A j \in CheckJobs : j.at = ops[s].event.checkTime
        BY <1>b, <1>c, <3>1 DEF Relies, JobName
      <4>. QED
        BY <2>2, <2>3, <3>1, <4>1 DEF JobsFit, CheckJobs, Scheduled
    <3>2. CASE ops[s].kind # "reschedule"
      <4>1. ~Handling({"reschedule"})
        BY <1>b, <3>2 DEF NoOverlap, Handling, Idle
      <4>2. \A k \in jobs : /\ k.name = "LOCATION_SHARING_START" => k.at = TrackingStartTime(db)
                            /\ k.name = "PARTICIPANT_CHECK" => k.at = db.checkTime
        BY <1>6, <4>1 DEF ChainInv, JobsFit, CheckJobs
      <4>3. TrackingStartTime(db') = TrackingStartTime(db) /\ db'.checkTime = db.checkTime
        BY <2>1, <3>2 DEF TrackingStartTime
      <4>4. \A j \in jobs' : /\ j.name = "LOCATION_SHARING_START" => j.at = TrackingStartTime(db')
                             /\ j.name = "PARTICIPANT_CHECK" => j.at = db'.checkTime
        BY <1>c, <4>2, <4>3
      <4>. QED
        BY <4>4 DEF JobsFit, CheckJobs, TrackingStartTime
    <3>. QED
      BY <3>1, <3>2
  <2>6. ChainUnbroken'
    <3>a. \A type : Pending(type) => Pending(type)'
      BY <1>d DEF Pending
    <3>b. \A name : name # ops[s].kind /\ Scheduled(name) => Scheduled(name)'
      BY <1>c DEF Scheduled
    <3>c. ASSUME NEW type \in Observed, ops[s].kind \in JobName, Bears(s) => Holds(s, type)
          PROVE  Pending(type)'
      BY <3>c, JobAnnounces DEF Announced, Pending
    <3>d. "ParticipantsCheckPassed" \in Observed /\ "EventStarted" \in Observed
      BY SchedulersAreObserved
    <3>1. CASE ops[s].kind \notin JobName
      <4>1. jobs' = jobs /\ db'.status = db.status /\ db'.checked = db.checked
        BY <1>c, <2>1, <3>1
      <4>2. CASE db.status = "RECRUITING" /\ ~db.checked
        <5>1. Scheduled("PARTICIPANT_CHECK")
          <6>1. CASE ops[s].kind = "reschedule"
            BY <1>b, <6>1 DEF Relies, CheckJobs, Scheduled
          <6>2. CASE ops[s].kind # "reschedule"
            <7>1. ~Handling({"reschedule", "delete"})
              BY <1>b, <2>1, <6>2 DEF NoOverlap, Handling, Idle
            <7>. QED
              BY <1>6, <4>2, <7>1 DEF ChainInv, ChainUnbroken
          <6>. QED
            BY <6>1, <6>2
        <5>. QED
          BY <4>1, <4>2, <5>1 DEF ChainUnbroken, Scheduled
      <4>3. CASE ~(db.status = "RECRUITING" /\ ~db.checked)
        BY <1>6, <3>a, <3>b, <3>1, <4>1, <4>3 DEF ChainInv, ChainUnbroken, JobName
      <4>. QED
        BY <4>2, <4>3
    <3>2. CASE ops[s].kind = "PARTICIPANT_CHECK"
      <4>1. db' = CheckParticipantsForStart(db)
        BY <1>b, <2>2, <3>2, CallersAre DEF JobInFlight, JobName
      <4>2. CASE db.status # "RECRUITING"
        <5>1. db' = db
          BY <4>1, <4>2 DEF CheckParticipantsForStart
        <5>. QED
          BY <1>6, <3>a, <3>b, <3>2, <4>2, <5>1 DEF ChainInv, ChainUnbroken
      <4>3. CASE db.status = "RECRUITING"
        <5>1. /\ db'.status = IF HasQuorum(db) THEN "RECRUITING" ELSE "CANCELLED"
              /\ db'.checked
          BY <2>2, <4>1, <4>3 DEF CheckParticipantsForStart, Event
        <5>2. HasQuorum(db) => Pending("ParticipantsCheckPassed")'
          BY <3>2, <3>c, <3>d, <4>3 DEF Bears, CanStart, JobName
        <5>. QED
          BY <5>1, <5>2 DEF ChainUnbroken
      <4>. QED
        BY <4>2, <4>3
    <3>3. CASE ops[s].kind = "LOCATION_SHARING_START"
      <4>1. db'.status = "IN_PROGRESS"
        BY <1>b, <2>2, <3>3, CallersAre DEF JobInFlight, JobName, Start, Event
      <4>2. Pending("EventStarted")'
        BY <3>3, <3>c, <3>d DEF Bears, JobName
      <4>. QED
        BY <4>1, <4>2 DEF ChainUnbroken
    <3>4. CASE ops[s].kind = "END"
      <4>1. db'.status = "ENDED"
        BY <1>b, <2>2, <3>4, CallersAre DEF JobInFlight, JobName, End, Event
      <4>. QED
        BY <4>1 DEF ChainUnbroken
    <3>. QED
      BY <3>1, <3>2, <3>3, <3>4 DEF JobName
  <2>. QED
    BY <2>4, <2>5, <2>6
<1>. QED
  BY <1>5, <1>6

LEMMA ChainContinues ==
  ASSUME SerialInv, SerialInv', ChainInv, AnnounceInv, NoOverlap, "save" \notin Faults,
         NEW s \in Slots, Continues(s)
  PROVE  ChainInv'
<1>a. TypeOK /\ OpsType /\ RegistryType /\ DbType /\ JobsType /\ NumType
  BY TypeParts DEF SerialInv
<1>b. ASSUME NEW pc \in Pc, At(s, pc)
      PROVE  /\ ops[s] \in Op /\ ops[s] # Idle /\ Derived(db, ops[s]) /\ ops[s].pc = pc
             /\ Relies(s)
  BY <1>a, <1>b, AtCall, OpNotIdle DEF SerialInv, OpsDerived, At, ChainInv
<1>c. ASSUME NEW pc \in Pc, At(s, pc), NEW to, Goto(s, to)
      PROVE  /\ ops'[s].kind = ops[s].kind /\ ops'[s].pc = to /\ ops'[s].at = ops[s].at
             /\ ops'[s].event = ops[s].event /\ Others(s)
  BY <1>a, <1>b, <1>c DEF Goto, OpsType, Op, Others
<1>d. ASSUME NEW e, Applied(s, e), NEW pc \in Pc, At(s, pc)
      PROVE  /\ ops'[s].kind = ops[s].kind /\ ops'[s].pc = "save" /\ ops'[s].at = ops[s].at
             /\ Others(s)
  <2>1. ops'[s] = [[ops[s] EXCEPT !.pc = "save"] EXCEPT !.event = e] /\ Others(s)
    BY <1>a, <1>d DEF OpsType, Applied, Others
  <2>. QED
    BY <1>b, <1>d, <2>1 DEF Op
<1>e. ASSUME NEW d, AddDomainEvent(s, d)
      PROVE  /\ \A i \in Instances : \A e \in domainEvents'[i] :
                  e \in domainEvents[i] \/ (i = s /\ e = d)
             /\ deliveries' = deliveries
  BY <1>a, <1>e DEF AddDomainEvent, RegistryType, Instances
<1>f. ASSUME ops[s] # Idle, ops[s].kind \notin JobName
      PROVE  /\ \A r \in Slots : ops[r].kind \notin JobName
             /\ \A j \in jobs : ~j.active /\ j.at >= now
             /\ \A i \in Instances : \A d \in domainEvents[i] : d.type \notin FollowUps
  <2>1. \A r \in Slots : ops[r].kind \notin JobName
    BY <1>f DEF NoOverlap, Idle, JobName
  <2>. QED
    BY <1>a, <2>1, NoneActive, NoFollowUps DEF ChainInv, JobsOnTime
\* A request that uses no job ends and leaves the status as it is.
<1>g. ASSUME ops[s] # Idle, ops[s].kind \in {"join", "leave"}, Return(s),
             UNCHANGED <<jobs, now, nextRow, deliveries>>,
             \A i \in Instances : \A d \in domainEvents'[i] :
               \E k \in Instances : d \in domainEvents[k],
             \/ db' = db
             \/ /\ db # None /\ db'.status = db.status
                /\ db'.checked = db.checked /\ db'.checkTime = db.checkTime
      PROVE  ChainInv'
  <2>1. \A r \in Slots : ops'[r] = Idle
    BY <1>a, <1>g, ReturnShape DEF Others, NoOverlap
  <2>2. ~Handling({"reschedule"}) /\ ~Handling({"reschedule", "delete"})
    BY <1>g DEF NoOverlap, Handling, Idle
  <2>3. /\ \A j \in jobs : ~j.active /\ j.at >= now
        /\ \A i \in Instances : \A d \in domainEvents[i] : d.type \notin FollowUps
    BY <1>f, <1>g DEF JobName
  <2>4. \A d \in deliveries' : Timely(d)'
    BY <1>g DEF ChainInv, EventsTimely, Timely, TrackingStartTime
  <2>5. JobsFit'
    BY <1>g, <2>2 DEF ChainInv, JobsFit, CheckJobs, TrackingStartTime
  <2>6. ChainUnbroken'
    BY <1>g, <2>2 DEF ChainInv, ChainUnbroken, Scheduled, Pending
  <2>7. \A j, k \in jobs' : j.name = k.name => j = k
    BY <1>g DEF ChainInv, JobsOnTime
  <2>8. \A i \in Instances : \A d \in domainEvents'[i] : d.type \notin FollowUps \/ i \in Slots
    BY <1>g, <2>3
  <2>. QED
    BY <1>g, <2>3, <2>4, <2>5, <2>6, <2>7, <2>8, ChainEnds
<1>1. CASE JoinConflicts(s)
  <2>1. /\ ops[s] # Idle /\ ops[s].kind = "join" /\ Throw(s)
        /\ UNCHANGED <<db, jobs, now, nextRow>>
    BY <1>b, <1>1 DEF JoinConflicts, Pc, countVars, queueVars
  <2>2. /\ deliveries' = deliveries
        /\ \A i \in Instances : \A d \in domainEvents'[i] :
             \E k \in Instances : d \in domainEvents[k]
    BY <1>a, <2>1 DEF Throw, Forget, RegistryType, Instances
  <2>. QED
    BY <1>g, <2>1, <2>2 DEF Throw
<1>2. CASE LeaveGroupWithdraws(s)
  <2>1. /\ ops[s] # Idle /\ ops[s].kind = "leave" /\ db # None /\ Return(s)
        /\ UNCHANGED <<jobs, now, nextRow, deliveries, domainEvents>>
    BY <1>b, <1>2, CallersAre
       DEF LeaveGroupWithdraws, LeaveInFlight, Pc, countVars, queueVars, registryVars
  <2>2. db' = [db EXCEPT !.participants = {p \in @ : p.user # ops[s].user}]
    BY <1>2, <2>1 DEF LeaveGroupWithdraws
  <2>3. db'.status = db.status /\ db'.checked = db.checked /\ db'.checkTime = db.checkTime
    BY <1>a, <2>1, <2>2 DEF DbType, Event
  <2>. QED
    BY <1>g, <2>1, <2>3
<1>3. CASE DeleteMarks(s)
  <2>1. /\ ops[s] # Idle /\ ops[s].kind = "delete" /\ ops[s].pc = "apply" /\ Relies(s)
        /\ ops'[s].kind = "delete" /\ ops'[s].pc = "unschedule" /\ ops'[s].at = ops[s].at
        /\ Others(s) /\ UNCHANGED <<db, jobs, now, nextRow>>
        /\ AddDomainEvent(s, Announcing("EventCancelled"))
    BY <1>b, <1>c, <1>3 DEF DeleteMarks, Pc, countVars, queueVars
  <2>2. Relies(s)'
    BY <2>1 DEF Relies, CheckJobs
  <2>3. /\ deliveries' = deliveries
        /\ \A i \in Instances : \A d \in domainEvents'[i] :
             d \in domainEvents[i] \/ (i = s /\ Timely(d) /\ d.type \notin FollowUps)
    BY <1>e, <2>1 DEF Announcing, Timely, FollowUps
  <2>. QED
    BY <2>1, <2>2, <2>3, ChainGoes
<1>4. CASE Unschedule(s)
  <2>1. /\ ops[s] # Idle /\ ops[s].kind \in {"delete", "reschedule"}
        /\ ops[s].pc = "unschedule" /\ Relies(s)
    BY <1>b, <1>4, CallersAre DEF Unschedule, Pc
  <2>2. /\ \A j \in jobs : ~j.active
        /\ \E j \in jobs : j.name = "PARTICIPANT_CHECK"
    BY <1>f, <2>1 DEF Relies, CheckJobs, JobName
  <2>3. CanRemove("PARTICIPANT_CHECK")
    BY <2>2 DEF CanRemove
  <2>4. /\ jobs' = WithoutJob("PARTICIPANT_CHECK") /\ UNCHANGED <<db, now, nextRow, registryVars>>
        /\ ops'[s].pc = IF ops[s].kind = "delete" THEN "delete" ELSE "schedule"
        /\ ops'[s].kind = ops[s].kind /\ ops'[s].event = ops[s].event /\ Others(s)
    BY <1>c, <1>4, <2>3 DEF Unschedule, Pc, countVars
  <2>5. \A r \in Slots : ops'[r].kind = ops[r].kind /\ (r # s => ops'[r] = Idle)
    BY <2>1, <2>4 DEF Others, NoOverlap
  <2>6. jobs' \subseteq jobs /\ CheckJobs' = {}
    BY <2>4 DEF WithoutJob, CheckJobs
  <2>7. JobsOnTime'
    BY <2>2, <2>4, <2>6 DEF ChainInv, JobsOnTime
  <2>8. EventsTimely'
    BY <2>4, <2>5 DEF ChainInv, EventsTimely, Timely, registryVars
  <2>9. JobsFit'
    BY <2>4, <2>6 DEF ChainInv, JobsFit
  <2>10. ChainUnbroken'
    <3>1. Handling({"reschedule", "delete"})'
      BY <2>1, <2>5 DEF Handling
    <3>2. \A name : name # "PARTICIPANT_CHECK" /\ Scheduled(name) => Scheduled(name)'
      BY <2>4 DEF WithoutJob, Scheduled
    <3>. QED
      BY <2>4, <3>1, <3>2 DEF ChainInv, ChainUnbroken, Pending, registryVars
  <2>11. Relies(s)'
    BY <2>1, <2>4, <2>6 DEF Relies, JobName
  <2>. QED
    BY <2>5, <2>7, <2>8, <2>9, <2>10, <2>11 DEF ChainInv
<1>5. CASE ScheduleCheck(s)
  <2>. DEFINE t == ops[s].event.checkTime
              n == [name |-> "PARTICIPANT_CHECK", at |-> t, active |-> FALSE]
  <2>1. /\ ops[s] \in Op /\ ops[s] # Idle /\ ops[s].kind \in {"create", "reschedule"}
        /\ ops[s].pc = "schedule" /\ Relies(s) /\ Derived(db, ops[s])
    BY <1>b, <1>5, CallersAre DEF ScheduleCheck, Pc
  <2>2. t > now /\ CheckJobs = {} /\ t \in Nat /\ now \in Nat
    BY <1>a, <2>1 DEF Relies, Op, Event, NumType
  <2>3. ~Scheduled("PARTICIPANT_CHECK")
    BY <2>2 DEF Scheduled, CheckJobs
  <2>4. CanSchedule("PARTICIPANT_CHECK", t)
    BY <2>2, <2>3 DEF CanSchedule
  <2>5. /\ jobs' = jobs \cup {n} /\ UNCHANGED <<db, now, nextRow, registryVars>>
        /\ ops'[s].pc = "save" /\ ops'[s].kind = ops[s].kind
        /\ ops'[s].event = ops[s].event /\ ops'[s].at = ops[s].at /\ Others(s)
    <3>1. Goto(s, "save") /\ jobs' = WithJob("PARTICIPANT_CHECK", t)
          /\ UNCHANGED <<db, now, nextRow, registryVars>>
      BY <1>5, <2>4 DEF ScheduleCheck, countVars
    <3>. QED
      BY <1>c, <1>5, <2>3, <3>1 DEF ScheduleCheck, WithJob, Pc
  <2>6. \A r \in Slots : ops'[r].kind = ops[r].kind /\ ops'[r].at = ops[r].at
                         /\ (r # s => ops'[r] = Idle)
    BY <2>1, <2>5 DEF Others, NoOverlap
  <2>7. n.name = "PARTICIPANT_CHECK" /\ n.at = t /\ ~n.active /\ n.at >= now
    BY <2>2
  <2>. HIDE DEF n
  <2>8. CheckJobs' = {n} /\ nextRow # 0
    <3>1. nextRow # 0
      BY <2>1, CallersAre DEF SerialInv, DbSound, NotYet, Counting, Handling
    <3>. QED
      BY <2>2, <2>5, <2>7, <3>1 DEF CheckJobs
  <2>9. JobsOnTime'
    <3>1. \A j \in jobs : j.name # "PARTICIPANT_CHECK"
      BY <2>3 DEF Scheduled
    <3>2. \A j, k \in jobs' : j.name = k.name => j = k
      BY <2>5, <2>7, <3>1 DEF ChainInv, JobsOnTime
    <3>3. \A j \in jobs' :
             /\ j.at >= now
             /\ j.active => \E r \in Slots : ops'[r].kind = j.name /\ ops'[r].at = j.at
      BY <2>5, <2>6, <2>7 DEF ChainInv, JobsOnTime
    <3>. QED
      BY <2>5, <2>8, <3>2, <3>3 DEF JobsOnTime
  <2>10. EventsTimely'
    BY <2>5, <2>6 DEF ChainInv, EventsTimely, Timely, registryVars
  <2>11. JobsFit'
    <3>1. db # None => Handling({"reschedule"})'
      BY <2>1, <2>5, CallersAre DEF Handling
    <3>. QED
      BY <2>5, <2>7, <3>1 DEF ChainInv, JobsFit
  <2>12. ChainUnbroken'
    BY <2>5, <2>6 DEF ChainInv, ChainUnbroken, Handling, Scheduled, Pending, registryVars
  <2>13. Relies(s)'
    BY <2>1, <2>2, <2>5, <2>7, <2>8 DEF Relies, JobName
  <2>. QED
    BY <2>6, <2>9, <2>10, <2>11, <2>12, <2>13 DEF ChainInv
<1>6. CASE Rollback(s) \/ Restore(s)
  BY <1>b, <1>6 DEF Rollback, Restore, Relies, Pc
<1>7. CASE CheckApplies(s)
  <2>1. /\ ops[s] # Idle /\ Derived(db, ops[s]) /\ ops[s].kind = "PARTICIPANT_CHECK"
        /\ ops[s].pc = "apply" /\ Relies(s)
    BY <1>b, <1>7 DEF CheckApplies, Pc
  <2>2. db # None /\ ops[s].event = db /\ db \in Event
    BY <1>a, <2>1, CallersAre DEF JobInFlight, JobName, DbType
  <2>3. /\ ops'[s].kind = ops[s].kind /\ ops'[s].pc = "save" /\ ops'[s].at = ops[s].at
        /\ Others(s) /\ UNCHANGED <<db, jobs, now, nextRow>>
    BY <1>d, <1>7 DEF CheckApplies, Pc, countVars, queueVars
  <2>4. Relies(s)'
    BY <2>1, <2>3 DEF Relies
  <2>5. ASSUME NEW d, AddDomainEvent(s, d), Timely(d)
        PROVE  /\ deliveries' = deliveries
               /\ \A i \in Instances : \A e \in domainEvents'[i] :
                    e \in domainEvents[i] \/ (i = s /\ Timely(e))
    BY <1>e, <2>5
  <2>6. Timely(AnnouncingAt("ParticipantsCheckPassed", TrackingStartTime(db)))
    BY <1>a, <2>1, <2>2 DEF AnnouncingAt, Timely, TrackingStartTime, Relies, Event, NumType
  <2>7. Timely(Announcing("EventCancelled"))
    BY DEF Announcing, Timely, FollowUps
  <2>8. /\ deliveries' = deliveries
        /\ \A i \in Instances : \A e \in domainEvents'[i] :
             e \in domainEvents[i] \/ (i = s /\ Timely(e))
    BY <1>7, <2>2, <2>5, <2>6, <2>7 DEF CheckApplies, registryVars
  <2>. QED
    BY <2>1, <2>3, <2>4, <2>8, ChainGoes DEF JobName
<1>8. CASE StartApplies(s)
  <2>1. /\ ops[s] # Idle /\ Derived(db, ops[s]) /\ ops[s].kind = "LOCATION_SHARING_START"
        /\ ops[s].pc = "apply" /\ Relies(s)
    BY <1>b, <1>8 DEF StartApplies, Pc
  <2>2. db # None /\ ops[s].event = db /\ db \in Event
    BY <1>a, <2>1, CallersAre DEF JobInFlight, JobName, DbType
  <2>3. /\ ops'[s].kind = ops[s].kind /\ ops'[s].pc = "save" /\ ops'[s].at = ops[s].at
        /\ Others(s) /\ UNCHANGED <<db, jobs, now, nextRow>>
    BY <1>d, <1>8 DEF StartApplies, Pc, countVars, queueVars
  <2>4. Relies(s)'
    BY <2>1, <2>3 DEF Relies
  <2>5. Timely(AnnouncingAt("EventStarted", EndTime(db)))
    BY <1>a, <2>1, <2>2 DEF AnnouncingAt, Timely, EndTime, Relies, Event, NumType
  <2>6. /\ deliveries' = deliveries
        /\ \A i \in Instances : \A e \in domainEvents'[i] :
             e \in domainEvents[i] \/ (i = s /\ Timely(e))
    BY <1>8, <1>e, <2>2, <2>5 DEF StartApplies
  <2>. QED
    BY <2>1, <2>3, <2>4, <2>6, ChainGoes DEF JobName
<1>9. CASE EndApplies(s)
  <2>1. ops[s] # Idle /\ ops[s].kind = "END" /\ ops[s].pc = "apply" /\ Relies(s)
    BY <1>b, <1>9 DEF EndApplies, Pc
  <2>2. /\ ops'[s].kind = ops[s].kind /\ ops'[s].pc = "save" /\ ops'[s].at = ops[s].at
        /\ Others(s) /\ UNCHANGED <<db, jobs, now, nextRow>>
    BY <1>d, <1>9 DEF EndApplies, Pc, queueVars
  <2>3. Relies(s)'
    BY <2>1, <2>2 DEF Relies
  <2>4. Timely(Announcing("EventEnded"))
    BY DEF Announcing, Timely, FollowUps
  <2>5. /\ deliveries' = deliveries
        /\ \A i \in Instances : \A e \in domainEvents'[i] :
             e \in domainEvents[i] \/ (i = s /\ Timely(e))
    BY <1>9, <1>e, <2>4 DEF EndApplies
  <2>. QED
    BY <2>1, <2>2, <2>3, <2>5, ChainGoes DEF JobName
<1>10. CASE Commit(s)
  BY <1>10, ChainStores DEF Commit
<1>11. CASE DeleteCommits(s)
  <2>1. /\ ops[s] # Idle /\ ops[s].kind = "delete" /\ Return(s) /\ db' = None
        /\ UNCHANGED <<jobs, now, nextRow>> /\ DispatchEventsForAggregate(s, Handled)
    BY <1>b, <1>11, CallersAre DEF DeleteCommits, Pc, countVars, queueVars
  <2>2. /\ \A j \in jobs : ~j.active /\ j.at >= now
        /\ \A i \in Instances : \A d \in domainEvents[i] : d.type \notin FollowUps
    BY <1>f, <2>1 DEF JobName
  <2>3. /\ \A d \in deliveries' : d \in deliveries \/ \E i \in Instances : d \in domainEvents[i]
        /\ \A i \in Instances : domainEvents'[i] \subseteq domainEvents[i]
    BY <1>a, <2>1, DeliveredBefore
  <2>4. \A d \in deliveries' : Timely(d)'
    BY <2>1, <2>3 DEF ChainInv, EventsTimely, Timely
  <2>5. JobsFit' /\ ChainUnbroken'
    BY <2>1 DEF JobsFit, ChainUnbroken
  <2>6. /\ \A j, k \in jobs' : j.name = k.name => j = k
        /\ \A i \in Instances : \A d \in domainEvents'[i] : d.type \notin FollowUps \/ i \in Slots
    BY <2>1, <2>2, <2>3 DEF ChainInv, JobsOnTime
  <2>. QED
    BY <2>1, <2>2, <2>4, <2>5, <2>6, ChainEnds
<1>12. CASE DeleteFails(s)
  BY <1>b, <1>12, CallersAre DEF DeleteFails, Fault, Pc
<1>. QED
  BY <1>1, <1>2, <1>3, <1>4, <1>5, <1>6, <1>7, <1>8, <1>9, <1>10, <1>11, <1>12 DEF Continues

LEMMA ChainInit == Init => ChainInv
BY DEF Init, QueueInit, RegistryInit, ChainInv, JobsOnTime, EventsTimely, JobsFit,
       ChainUnbroken, CheckJobs, Idle

LEMMA ChainStep ==
  ASSUME Faults \subseteq {"ack"}, Prompt, SerialInv, SerialInv', ChainInv, AnnounceInv,
         NoOverlap, NoOverlap', [Next]_vars
  PROVE  ChainInv'
<1>1. ASSUME NEW s \in Slots, Fails(s) PROVE ChainInv'
  <2>1. CASE CommitUnacknowledged(s)
    BY <2>1, ChainStores DEF CommitUnacknowledged
  <2>2. ~SaveFails(s)
    BY DEF SaveFails, Fault
  <2>. QED
    BY <1>1, <2>1, <2>2 DEF Fails
<1>2. ~Crash
  BY DEF Crash, Fault
<1>3. CASE UNCHANGED vars
  BY <1>3 DEF vars, queueVars, countVars, registryVars, ChainInv, JobsOnTime, EventsTimely,
     Timely, JobsFit, ChainUnbroken, CheckJobs, Handling, Scheduled, Pending, Relies
<1>. QED
  BY <1>1, <1>2, <1>3, ChainReads, ChainContinues, ChainDelivers, ChainHandles, ChainTicks
     DEF Next

\* With a clock that waits for what is due and no fault but a lost
\* acknowledgement, requests that do not overlap never leave an event without
\* the job or the handler that takes it further, on either queue driver.
THEOREM TheChainHolds ==
  ASSUME Faults \subseteq {"ack"}, Prompt
  PROVE  Spec /\ []NoOverlap => []ChainUnbroken
<1>1. ChainInv => ChainUnbroken
  BY DEF ChainInv
<1>2. /\ ChainInv /\ AnnounceInv /\ SerialInv /\ SerialInv' /\ NoOverlap /\ NoOverlap'
      /\ [Next]_vars
      => ChainInv'
  BY ChainStep
<1>3. Spec /\ []NoOverlap => []AnnounceInv
  BY AnnounceCorrect
<1>. QED
  BY <1>1, <1>2, <1>3, ChainInit, SerialCorrect, PTL DEF Spec

=============================================================================
