-------------------------- MODULE EventBooking_proofs --------------------------
(***************************************************************************)
(* Proofs about EventBooking with LocationTracking, for every set of       *)
(* users, events and rows, and requests and jobs in flight: the tables are *)
(* well-formed and the rows of those on their way are those of departures; *)
(* as long as activities do not overlap, nobody is booked twice, whoever   *)
(* is on the way is tracked and the limit of a group is kept, which the    *)
(* requests and jobs in flight bound where they do overlap; and what Views *)
(* shows of it never disagrees.                                            *)
(***************************************************************************)
EXTENDS Views, FiniteSetTheorems, FunctionTheorems, TLAPS

-----------------------------------------------------------------------------
(***************************************************************************)
(* The inductive invariant.  A row comes from work that was started by a   *)
(* departure some awaits ago; in between the event may be deleted, which   *)
(* takes the rows and not the work, and a stale save may bring the event   *)
(* back.  So the invariant speaks of the work too, and only of events that *)
(* are there; and since a new event must find nothing left of one that had *)
(* its id, it says that an id that a creation holds is free.               *)
(***************************************************************************)
StartsRow == {"check", "insert", "update"}
UserOf(w) == IF w.do \in {"insert", "update"} THEN w.row.user ELSE w.user

RowsAreOfEvents == \A r \in trackings : events[r.event] # None
WorkIsOfDepartures ==
  \A w \in work :
    w.do \in StartsRow /\ events[EventOf(w)] # None /\ EventOf(w) \notin revived
      => <<EventOf(w), UserOf(w)>> \in departed
CreationsAreFresh ==
  \A s \in Slots : ops[s].kind = "create" =>
    /\ events[ops[s].event] = None
    /\ \A t \in Slots \ {s} : ops[t] # Idle => ops[t].event # ops[s].event
    /\ \A w \in work : EventOf(w) # ops[s].event

BookingInv ==
  /\ RowsAreOfEvents /\ WorkIsOfDepartures /\ CreationsAreFresh
  /\ RowsAreOfDepartures

-----------------------------------------------------------------------------
(***************************************************************************)
(* Shapes.                                                                 *)
(***************************************************************************)

\* A request or job in flight is one of Op.
LEMMA OpShape ==
  ASSUME TypeOK, NEW s \in Slots
  PROVE  /\ ops[s] # Idle => ops[s] \in Op
         /\ ops[s].kind # "idle" => ops[s] \in Op
         /\ ops[s].pc # "idle" => ops[s] \in Op
         /\ ops[s] \in Op => ops[s] # Idle
BY DEF TypeOK, Idle, Op

\* Work names an event and, when it is about a row, who the row is of.
LEMMA WorkShape ==
  ASSUME TypeOK, NEW w \in work
  PROVE  /\ w \in Work /\ EventOf(w) \in Events
         /\ w.do = "check" => /\ w.event \in Events /\ w.user \in Users
                              /\ EventOf(w) = w.event /\ UserOf(w) = w.user
         /\ w.do \in {"insert", "update"} =>
              /\ w.row \in Tracking
              /\ EventOf(w) = w.row.event /\ UserOf(w) = w.row.user
         /\ w.do = "clean" => w.event \in Events
<1>1. w \in Work
  BY DEF TypeOK, TrackingTypeOK
<1>2. CASE w \in [do : {"check"}, event : Events, user : Users]
  BY <1>1, <1>2 DEF EventOf, UserOf
<1>3. CASE w \in [do : {"insert", "update"}, row : Tracking]
  BY <1>1, <1>3 DEF EventOf, UserOf, Tracking
<1>4. CASE w \in [do : {"clean"}, event : Events]
  BY <1>1, <1>4 DEF EventOf
<1>. QED
  BY <1>1, <1>2, <1>3, <1>4 DEF Work

\* What Holding builds is a request or a job.
LEMMA HoldingOp ==
  ASSUME NEW kind \in Kind, NEW pc \in {"conflict", "save", "delete"},
         NEW e \in Events, NEW u \in Users, NEW copy \in EventRow
  PROVE  LET op == Holding(kind, pc, e, u, copy) IN
         /\ op \in Op
         /\ op.kind = kind /\ op.pc = pc /\ op.event = e /\ op.user = u
         /\ op.copy = copy
BY DEF Holding, Op

-----------------------------------------------------------------------------
(***************************************************************************)
(* Requests and jobs that read.                                            *)
(***************************************************************************)
Starts(s) ==
  \/ CreateEvent(s) \/ JoinEvent(s) \/ WithdrawEvent(s)
  \/ UpdateEvent(s) \/ EditEvent(s) \/ DeleteEvent(s)
  \/ DepartEvent(s) \/ ArriveEvent(s) \/ RunJob(s)
GoesOn(s) ==
  \/ ConflictFree(s) \/ ConflictFound(s)
  \/ Save(s) \/ DeleteCommits(s) \/ DeleteFails(s)

\* The status of the row that is read, and that of the copy.
MovesOn(kind, before, after) ==
  /\ kind \in {"join", "withdraw", "update", "edit", "delete"} =>
       before = "RECRUITING" /\ after = "RECRUITING"
  /\ kind = "check" => before = "RECRUITING" /\ after \in {"CHECKED", "CANCELLED"}
  /\ kind = "start" => before = "CHECKED" /\ after = "IN_PROGRESS"
  /\ kind \in {"depart", "arrive"} => before = "IN_PROGRESS" /\ after = "IN_PROGRESS"
  /\ kind = "end" => before = "IN_PROGRESS" /\ after = "ENDED"

\* A copy differs from the row by what the request is about, and a request
\* that is to add its user has found the schedules free.
Follows(op) ==
  LET row == events[op.event] IN
  /\ op.pc = "conflict" => op.kind \in {"create", "join"}
  /\ op.pc = "delete" <=> op.kind = "delete"
  /\ op.kind = "create" =>
       op.copy.status = "RECRUITING" /\ op.copy.participants = {op.user}
  /\ op.kind # "create" =>
       /\ row # None /\ MovesOn(op.kind, row.status, op.copy.status)
       /\ op.copy.creator = row.creator /\ op.copy.group = row.group
       /\ op.kind # "update" =>
            /\ op.copy.checkTime = row.checkTime
            /\ op.copy.participants \subseteq row.participants \cup {op.user}
  /\ op.kind \notin {"create", "join", "update"} =>
       op.copy.participants \subseteq row.participants
  /\ op.kind = "update" =>
       /\ op.copy.participants = {row.creator}
       /\ row.participants \subseteq {row.creator} \cup op.removed
  /\ op.pc = "save" /\ op.kind \in {"create", "join"} =>
       ~HasScheduleConflict(op.user, op.copy.checkTime, op.event)

\* What starts holds a copy of the row it has read, or that of a new event of
\* an id that nothing refers to, in a group that is within its limit.
LEMMA RequestBegins ==
  ASSUME TypeOK, NEW s \in Slots, Starts(s)
  PROVE  /\ Unmoved
         /\ \E op \in Op : /\ Begin(s, op) /\ Follows(op)
                           /\ op.kind = "create" =>
                                FreshEvent(op.event) /\ WithinLimit(op.copy.group)
<1> DEFINE Begun == /\ Unmoved
                    /\ \E op \in Op : /\ Begin(s, op) /\ Follows(op)
                                      /\ op.kind = "create" =>
                                           FreshEvent(op.event) /\ WithinLimit(op.copy.group)
<1>0. \A e \in Events : MayChange(events[e]) =>
        /\ events[e] # None /\ events[e] \in EventRow
        /\ events[e].status = "RECRUITING"
  BY DEF MayChange, TypeOK
<1>1. ASSUME NEW e \in Events, NEW g \in Groups, NEW u \in Users,
             NEW t \in CheckTimes, CreateCounts(s, e, g, u, t)
      PROVE  Begun
  <2> DEFINE copy == [group |-> g, creator |-> u, checkTime |-> t,
                      status |-> "RECRUITING", participants |-> {u}, underWay |-> {}]
             op == Holding("create", "conflict", e, u, copy)
  <2>1. /\ copy \in EventRow /\ copy.status = "RECRUITING"
        /\ copy.participants = {u} /\ copy.group = g
    BY DEF EventRow, Status
  <2>2. Begin(s, op) /\ Unmoved /\ FreshEvent(e) /\ WithinLimit(g)
    BY <1>1 DEF CreateCounts
  <2> HIDE DEF copy
  <2>3. /\ op \in Op /\ op.kind = "create" /\ op.pc = "conflict" /\ op.event = e
        /\ op.user = u /\ op.copy = copy
    BY <2>1, HoldingOp DEF Kind
  <2> HIDE DEF op
  <2>4. Follows(op)
    BY <2>1, <2>3 DEF Follows
  <2>. QED
    BY <2>1, <2>2, <2>3, <2>4
\* A copy of a row that is there, with another status, time or participants.
<1>2. ASSUME NEW e \in Events, events[e] # None, NEW op \in Op, op.event = e,
             op.kind # "create", Begin(s, op), Unmoved, Follows(op)
      PROVE  Begun
  BY <1>2
<1>3. ASSUME NEW e \in Events, NEW u \in Users, JoinReads(s, e, u)
      PROVE  Begun
  <2> DEFINE copy == [events[e] EXCEPT !.participants = @ \cup {u}]
             op == Holding("join", "conflict", e, u, copy)
  <2>1. events[e] # None /\ events[e] \in EventRow /\ events[e].status = "RECRUITING"
    BY <1>0, <1>3 DEF JoinReads
  <2>2. /\ copy \in EventRow /\ copy.group = events[e].group
        /\ copy.status = "RECRUITING" /\ copy.creator = events[e].creator
        /\ copy.checkTime = events[e].checkTime
        /\ copy.participants = events[e].participants \cup {u}
    BY <2>1 DEF EventRow
  <2>3. Begin(s, op) /\ Unmoved
    BY <1>3 DEF JoinReads
  <2> HIDE DEF copy
  <2>4. /\ op \in Op /\ op.kind = "join" /\ op.pc = "conflict" /\ op.user = u
        /\ op.event = e /\ op.copy = copy
    BY <2>2, HoldingOp DEF Kind
  <2> HIDE DEF op
  <2>5. Follows(op)
    BY <2>1, <2>2, <2>4 DEF Follows, MovesOn
  <2>. QED
    BY <1>2, <2>1, <2>3, <2>4, <2>5
<1>4. ASSUME NEW e \in Events, NEW u \in Users, WithdrawReads(s, e, u)
      PROVE  Begun
  <2> DEFINE copy == [events[e] EXCEPT !.participants = @ \ {u}, !.underWay = @ \ {u}]
             op == [Holding("withdraw", "save", e, u, copy) EXCEPT !.removed = {u}]
  <2>1. events[e] # None /\ events[e] \in EventRow /\ events[e].status = "RECRUITING"
    BY <1>0, <1>4 DEF WithdrawReads
  <2>2. /\ copy \in EventRow /\ copy.group = events[e].group
        /\ copy.status = "RECRUITING" /\ copy.creator = events[e].creator
        /\ copy.checkTime = events[e].checkTime
        /\ copy.participants \subseteq events[e].participants
    BY <2>1 DEF EventRow
  <2>3. Begin(s, op) /\ Unmoved
    BY <1>4 DEF WithdrawReads
  <2> HIDE DEF copy
  <2>4. op = [kind |-> "withdraw", pc |-> "save", event |-> e, user |-> u,
              copy |-> copy, removed |-> {u}]
    BY DEF Holding
  <2> HIDE DEF op
  <2>5. op \in Op
    BY <2>2, <2>4 DEF Op, Kind
  <2>6. Follows(op)
    BY <2>1, <2>2, <2>4 DEF Follows, MovesOn
  <2>. QED
    BY <1>2, <2>1, <2>3, <2>4, <2>5, <2>6
<1>5. ASSUME NEW e \in Events, NEW t \in CheckTimes, UpdateReads(s, e, t)
      PROVE  Begun
  <2> DEFINE u == events[e].creator
             copy == [events[e] EXCEPT !.checkTime = t, !.participants = {u},
                                       !.underWay = @ \cap {u}]
             removed == events[e].participants \ {u}
             op == [Holding("update", "save", e, u, copy) EXCEPT !.removed = removed]
  <2>1. events[e] # None /\ events[e] \in EventRow /\ events[e].status = "RECRUITING"
    BY <1>0, <1>5 DEF UpdateReads
  <2>2. /\ copy \in EventRow /\ copy.group = events[e].group
        /\ copy.status = "RECRUITING" /\ copy.creator = u /\ u \in Users
        /\ copy.participants = {u} /\ removed \in SUBSET Users
        /\ events[e].participants \subseteq {u} \cup removed
    BY <2>1 DEF EventRow
  <2>3. Begin(s, op) /\ Unmoved
    BY <1>5 DEF UpdateReads
  <2> HIDE DEF copy, removed
  <2> HIDE DEF u
  <2>4. op = [kind |-> "update", pc |-> "save", event |-> e, user |-> u,
              copy |-> copy, removed |-> removed]
    BY DEF Holding
  <2> HIDE DEF op
  <2>5. op \in Op
    BY <2>2, <2>4 DEF Op, Kind
  <2>6. Follows(op)
    BY <2>1, <2>2, <2>4 DEF Follows, MovesOn, u
  <2>. QED
    BY <1>2, <2>1, <2>3, <2>4, <2>5, <2>6
\* What leaves the participants as they were.
<1>6. ASSUME NEW e \in Events, events[e] # None, NEW u \in Users, NEW copy \in EventRow,
             NEW kind \in Kind \ {"create", "join", "update"},
             NEW pc \in {"save", "delete"}, pc = "delete" <=> kind = "delete",
             copy.group = events[e].group, copy.creator = events[e].creator,
             copy.checkTime = events[e].checkTime,
             copy.participants = events[e].participants,
             MovesOn(kind, events[e].status, copy.status),
             Begin(s, Holding(kind, pc, e, u, copy)), Unmoved
      PROVE  Begun
  <2> DEFINE op == Holding(kind, pc, e, u, copy)
  <2>1. /\ op \in Op /\ op.kind = kind /\ op.pc = pc /\ op.user = u
        /\ op.event = e /\ op.copy = copy
    BY HoldingOp
  <2>2. Begin(s, op)
    BY <1>6
  <2> HIDE DEF op
  <2>3. Follows(op)
    BY <1>6, <2>1 DEF Follows
  <2>. QED
    BY <1>2, <1>6, <2>1, <2>2, <2>3
<1>7. ASSUME NEW e \in Events, EditReads(s, e) \/ DeleteReads(s, e)
      PROVE  Begun
  <2>1. events[e] # None /\ events[e] \in EventRow /\ events[e].status = "RECRUITING"
    BY <1>0, <1>7 DEF EditReads, DeleteReads
  <2>2. events[e].creator \in Users
    BY <2>1 DEF EventRow
  <2>. QED
    BY <1>6, <1>7, <2>1, <2>2 DEF EditReads, DeleteReads, MovesOn, Kind
<1>8. ASSUME NEW e \in Events, NEW u \in Users, DepartReads(s, e, u)
      PROVE  Begun
  <2> DEFINE copy == [events[e] EXCEPT !.underWay = @ \cup {u}]
  <2>1. events[e] # None /\ events[e] \in EventRow /\ events[e].status = "IN_PROGRESS"
    BY <1>8 DEF DepartReads, IsInProgress, TypeOK
  <2>2. /\ copy \in EventRow /\ copy.group = events[e].group
        /\ copy.status = events[e].status /\ copy.creator = events[e].creator
        /\ copy.checkTime = events[e].checkTime
        /\ copy.participants = events[e].participants
    BY <2>1 DEF EventRow
  <2>3. Begin(s, Holding("depart", "save", e, u, copy)) /\ Unmoved
    BY <1>8 DEF DepartReads
  <2> HIDE DEF copy
  <2>. QED
    BY <1>6, <2>1, <2>2, <2>3 DEF MovesOn, Kind
<1>9. ASSUME NEW e \in Events, NEW u \in Users, ArriveReads(s, e, u)
      PROVE  Begun
  <2>1. events[e] # None /\ events[e] \in EventRow /\ events[e].status = "IN_PROGRESS"
    BY <1>9 DEF ArriveReads, IsInProgress, TypeOK
  <2>. QED
    BY <1>6, <1>9, <2>1 DEF ArriveReads, MovesOn, Kind
<1>10. ASSUME NEW e \in Events, events[e] # None, NEW job \in JobKind,
              NEW status \in Status, MovesOn(job, events[e].status, status),
              JobReads(s, job, e, status)
       PROVE  Begun
  <2> DEFINE copy == [events[e] EXCEPT !.status = status]
  <2>1. events[e] \in EventRow
    BY <1>10 DEF TypeOK
  <2>2. /\ copy \in EventRow /\ copy.group = events[e].group
        /\ copy.status = status /\ copy.creator = events[e].creator
        /\ copy.checkTime = events[e].checkTime
        /\ copy.participants = events[e].participants /\ events[e].creator \in Users
    BY <2>1 DEF EventRow
  <2>3. Begin(s, Holding(job, "save", e, events[e].creator, copy)) /\ Unmoved
    BY <1>10 DEF JobReads
  <2>4. job \in Kind \ {"create", "join", "update"} /\ job # "delete"
    BY DEF JobKind, Kind
  <2> HIDE DEF copy
  <2>. QED
    BY <1>6, <1>10, <2>2, <2>3, <2>4
<1>11. ASSUME NEW e \in Events,
              \/ HandleParticipantCheck(s, e) \/ HandleLocationSharingStart(s, e)
              \/ HandleEventEnd(s, e)
       PROVE  Begun
  <2>1. CASE HandleParticipantCheck(s, e)
    <3>1. PICK status \in {"CHECKED", "CANCELLED"} : JobReads(s, "check", e, status)
      BY <2>1 DEF HandleParticipantCheck
    <3>. QED
      BY <1>10, <2>1, <3>1 DEF HandleParticipantCheck, DueToCheck, MovesOn, JobKind, Status
  <2>2. CASE HandleLocationSharingStart(s, e)
    BY <1>10, <2>2 DEF HandleLocationSharingStart, DueToStart, MovesOn, JobKind, Status
  <2>3. CASE HandleEventEnd(s, e)
    BY <1>10, <2>3 DEF HandleEventEnd, DueToEnd, IsInProgress, MovesOn, JobKind, Status
  <2>. QED
    BY <1>11, <2>1, <2>2, <2>3
<1> HIDE DEF Begun
<1>12. Begun
  BY <1>1, <1>3, <1>4, <1>5, <1>7, <1>8, <1>9, <1>11
     DEF Starts, CreateEvent, JoinEvent, WithdrawEvent, UpdateEvent, EditEvent,
         DeleteEvent, DepartEvent, ArriveEvent, RunJob
<1>. QED
  BY <1>12 DEF Begun

-----------------------------------------------------------------------------
(***************************************************************************)
(* Steps of requests.                                                      *)
(***************************************************************************)

\* What a step that only changes the requests must show.
LEMMA OnlyRequests ==
  ASSUME TypeOK, BookingInv, ops' \in [Slots -> Op \cup {Idle}],
         disturbed' \in BOOLEAN, CreationsAreFresh',
         UNCHANGED <<events, departed, now, moved, revived, trackingVars>>
  PROVE  TypeOK' /\ BookingInv'
<1> USE DEF trackingVars
<1>1. TypeOK'
  BY DEF TypeOK, TrackingTypeOK
<1>2. RowsAreOfEvents' /\ RowsAreOfDepartures'
  BY DEF BookingInv, RowsAreOfEvents, RowsAreOfDepartures
<1>3. WorkIsOfDepartures'
  BY DEF BookingInv, WorkIsOfDepartures, EventOf, UserOf
<1>. QED
  BY <1>1, <1>2, <1>3 DEF BookingInv

\* Disturbing is a yes or a no.
LEMMA DisturbsType ==
  ASSUME TypeOK, NEW others, Disturbs(others)
  PROVE  disturbed' \in BOOLEAN
BY Zenon DEF Disturbs

LEMMA BeginKeeps ==
  ASSUME TypeOK, BookingInv, NEW s \in Slots, Starts(s)
  PROVE  TypeOK' /\ BookingInv'
<1>1. PICK op \in Op : /\ Begin(s, op)
                       /\ op.kind = "create" => FreshEvent(op.event)
                       /\ op.kind # "create" => events[op.event] # None
  BY RequestBegins DEF Follows
<1>2. ops' = [ops EXCEPT ![s] = op] /\ disturbed' \in BOOLEAN
  BY <1>1, DisturbsType DEF Begin
<1>3. ops'[s] = op /\ \A t \in Slots \ {s} : ops'[t] = ops[t]
  BY <1>2 DEF TypeOK
<1>4. ops' \in [Slots -> Op \cup {Idle}]
  BY <1>2 DEF TypeOK
<1>5. UNCHANGED <<events, departed, now, moved, revived, trackingVars>>
  BY RequestBegins DEF Unmoved
<1>6. CreationsAreFresh'
  <2> SUFFICES ASSUME NEW t \in Slots, ops'[t].kind = "create"
               PROVE  /\ events[ops'[t].event] = None
                      /\ \A x \in Slots \ {t} : ops'[x] # Idle =>
                           ops'[x].event # ops'[t].event
                      /\ \A w \in work : EventOf(w) # ops'[t].event
    BY <1>5 DEF CreationsAreFresh, trackingVars, EventOf
  <2>1. CASE t = s
    BY <1>1, <1>3, <2>1 DEF FreshEvent
  <2>2. CASE t # s
    <3>1. /\ events[ops[t].event] = None
          /\ \A x \in Slots \ {t} : ops[x] # Idle => ops[x].event # ops[t].event
          /\ \A w \in work : EventOf(w) # ops[t].event
      BY <1>3, <2>2 DEF BookingInv, CreationsAreFresh
    <3>2. op.event # ops[t].event
      BY <1>1, <1>3, <2>2, <3>1 DEF FreshEvent
    <3>. QED
      BY <1>3, <2>2, <3>1, <3>2
  <2>. QED
    BY <2>1, <2>2
<1>. QED
  BY <1>2, <1>4, <1>5, <1>6, OnlyRequests

\* A request that ends frees what it held.
LEMMA ReturnFresh ==
  ASSUME TypeOK, BookingInv, NEW s \in Slots, Return(s)
  PROVE  /\ ops' \in [Slots -> Op \cup {Idle}]
         /\ ops'[s] = Idle
         /\ \A t \in Slots \ {s} : ops'[t] = ops[t]
         /\ \A t \in Slots : ops'[t].kind = "create" =>
              t # s /\ ops[t].kind = "create"
BY DEF Return, TypeOK, Idle

LEMMA ThrowKeeps ==
  ASSUME TypeOK, BookingInv, NEW s \in Slots, Throw(s)
  PROVE  TypeOK' /\ BookingInv'
<1>1. Return(s) /\ disturbed' \in BOOLEAN
      /\ UNCHANGED <<events, departed, now, moved, revived, trackingVars>>
  BY DEF Throw, TypeOK
<1>2. CreationsAreFresh'
  BY <1>1, ReturnFresh
     DEF BookingInv, CreationsAreFresh, trackingVars, EventOf
<1>. QED
  BY <1>1, <1>2, ReturnFresh, OnlyRequests

LEMMA ConflictFreeKeeps ==
  ASSUME TypeOK, BookingInv, NEW s \in Slots, ConflictFree(s)
  PROVE  TypeOK' /\ BookingInv'
<1> DEFINE op == [ops[s] EXCEPT !.pc = "save"]
<1>1. ops[s] \in Op /\ ops[s] # Idle
  BY OpShape DEF ConflictFree, Idle
<1>2. op \in Op /\ op.kind = ops[s].kind /\ op.event = ops[s].event
  BY <1>1 DEF Op
<1>3. ops' = [ops EXCEPT ![s] = op]
  BY DEF ConflictFree
<1> HIDE DEF op
<1>4. ops' \in [Slots -> Op \cup {Idle}]
  BY <1>2, <1>3 DEF TypeOK
<1>5. \A t \in Slots : /\ ops'[t].kind = ops[t].kind
                       /\ ops'[t].event = ops[t].event
                       /\ ops'[t] # Idle => ops[t] # Idle
  BY <1>1, <1>2, <1>3 DEF TypeOK
<1>6. CreationsAreFresh'
  BY <1>5 DEF ConflictFree, BookingInv, CreationsAreFresh, trackingVars, EventOf
<1>7. /\ disturbed' \in BOOLEAN
      /\ UNCHANGED <<events, departed, now, moved, revived, trackingVars>>
  BY DEF ConflictFree, TypeOK
<1>. QED
  BY <1>4, <1>6, <1>7, OnlyRequests

\* What a save writes is a row, with what the copy holds and the participants
\* of both.
LEMMA SavedRow ==
  ASSUME TypeOK, NEW e \in Events, NEW copy \in EventRow, NEW removed
  PROVE  LET row == Saved(e, copy, removed) IN
         /\ row \in EventRow /\ row # None
         /\ row.group = copy.group /\ row.creator = copy.creator
         /\ row.status = copy.status /\ row.checkTime = copy.checkTime
         /\ events[e] = None => row.participants = copy.participants
         /\ events[e] # None => row.participants =
              copy.participants \cup (events[e].participants \ removed)
<1> DEFINE row == Saved(e, copy, removed)
<1>1. CASE events[e] = None
  BY <1>1, NoneIsNoEventRow DEF Saved
<1>2. CASE events[e] # None
  <2> DEFINE staying == events[e].participants \ (copy.participants \cup removed)
             p == copy.participants \cup staying
             w == copy.underWay \cup (events[e].underWay \cap staying)
  <2>1. /\ events[e].participants \subseteq Users /\ copy.participants \subseteq Users
        /\ events[e].underWay \subseteq Users /\ copy.underWay \subseteq Users
    BY <1>2 DEF TypeOK, EventRow
  <2>2. row = [copy EXCEPT !.participants = p, !.underWay = w]
    BY <1>2 DEF Saved, EventRow
  <2>3. /\ p \in SUBSET Users /\ w \in SUBSET Users
        /\ p = copy.participants \cup (events[e].participants \ removed)
    BY <2>1
  <2> HIDE DEF row, p, w
  <2>4. /\ row \in EventRow /\ row.participants = p
        /\ row.group = copy.group /\ row.creator = copy.creator
        /\ row.status = copy.status /\ row.checkTime = copy.checkTime
    BY <2>2, <2>3 DEF EventRow
  <2>. QED
    BY <1>2, <2>3, <2>4, NoneIsNoEventRow DEF row
<1>. QED
  BY <1>1, <1>2

\* The handlers that a save calls start work for those who depart and for an
\* event that ends, and leave the rows alone.
LEMMA SaveCalls ==
  ASSUME TypeOK, NEW s \in Slots, Save(s)
  PROVE  /\ UNCHANGED <<trackings, now, disturbed>> /\ Return(s)
         /\ departed \subseteq departed' /\ departed' \subseteq Events \X Users
         /\ ops[s].kind # "depart" => departed' = departed
         /\ ops[s].kind = "depart" => departed' = departed \cup {<<ops[s].event, ops[s].user>>}
         /\ work' \subseteq Work
         /\ ops[s].kind \notin {"depart", "end"} => work' = work
         /\ ops[s].kind = "depart" => work' =
              work \cup {[do |-> "check", event |-> ops[s].event, user |-> ops[s].user]}
         /\ ops[s].kind = "end" => work' =
              work \cup {[do |-> "clean", event |-> ops[s].event]}
         /\ \A w \in work' : w \in work \/
              /\ EventOf(w) = ops[s].event
              /\ w.do \in StartsRow => <<ops[s].event, UserOf(w)>> \in departed'
<1>1. ops[s].event \in Events /\ ops[s].user \in Users
  BY OpShape DEF Save, Idle, Op
<1>2. UNCHANGED <<now, disturbed>> /\ Return(s) /\ CallsHandlers(ops[s])
  BY DEF Save
<1>3. departed' = IF ops[s].kind = "depart" THEN departed \cup {<<ops[s].event, ops[s].user>>}
                  ELSE departed
  BY DEF Save
<1>4. /\ ops[s].kind = "depart" => OnParticipantDeparted(ops[s].event, ops[s].user)
      /\ ops[s].kind = "end" => OnEventEnded(ops[s].event)
      /\ ops[s].kind \notin {"depart", "end"} => UNCHANGED trackingVars
  BY <1>2 DEF CallsHandlers
<1>5. CASE ops[s].kind = "depart"
  <2> DEFINE w == [do |-> "check", event |-> ops[s].event, user |-> ops[s].user]
  <2>1. /\ w \in Work /\ EventOf(w) = ops[s].event /\ UserOf(w) = ops[s].user
    BY <1>1 DEF Work, EventOf, UserOf
  <2>2. work' = work \cup {w} /\ trackings' = trackings
    BY <1>4, <1>5 DEF OnParticipantDeparted
  <2> HIDE DEF w
  <2>. QED
    BY <1>1, <1>2, <1>3, <1>5, <2>1, <2>2 DEF TypeOK, TrackingTypeOK, w
<1>6. CASE ops[s].kind = "end"
  <2> DEFINE w == [do |-> "clean", event |-> ops[s].event]
  <2>1. w \in Work /\ EventOf(w) = ops[s].event /\ w.do \notin StartsRow
    BY <1>1 DEF Work, EventOf, StartsRow
  <2>2. work' = work \cup {w} /\ trackings' = trackings
    BY <1>4, <1>6 DEF OnEventEnded
  <2> HIDE DEF w
  <2>. QED
    BY <1>2, <1>3, <1>6, <2>1, <2>2 DEF TypeOK, TrackingTypeOK, w
<1>7. CASE ops[s].kind \notin {"depart", "end"}
  BY <1>2, <1>3, <1>4, <1>7 DEF TypeOK, TrackingTypeOK, trackingVars
<1>. QED
  BY <1>5, <1>6, <1>7

\* A save makes an event anew under an id that is free, brings one back, which
\* is remembered, or changes one that is there.
LEMMA SaveKeeps ==
  ASSUME TypeOK, BookingInv, NEW s \in Slots, Save(s)
  PROVE  TypeOK' /\ BookingInv'
<1> DEFINE op == ops[s]
           e == op.event
           row == Saved(e, op.copy, op.removed)
<1>1. op \in Op /\ op # Idle /\ op.pc = "save"
  BY OpShape DEF Save, Idle
<1>2. e \in Events /\ op.copy \in EventRow
  BY <1>1 DEF Op
<1>3. row \in EventRow /\ row # None
  BY <1>2, SavedRow
<1>4. events' = [events EXCEPT ![e] = row]
  BY DEF Save
<1> HIDE DEF row
<1>5. events'[e] # None /\ \A f \in Events \ {e} : events'[f] = events[f]
  BY <1>2, <1>3, <1>4 DEF TypeOK
<1>6. /\ Return(s) /\ UNCHANGED <<trackings, now, disturbed>>
      /\ departed \subseteq departed'
      /\ \A w \in work' : w \in work \/
           /\ EventOf(w) = e
           /\ w.do \in StartsRow => <<e, UserOf(w)>> \in departed'
  BY SaveCalls
<1>7. /\ revived' \subseteq Events /\ moved' \subseteq Events
      /\ \A f \in Events \ {e} : f \in revived' <=> f \in revived
  BY <1>2 DEF Save, TypeOK
<1>8. TypeOK'
  <2>1. events' \in [Events -> EventRow \cup {None}]
    BY <1>2, <1>3, <1>4 DEF TypeOK
  <2>. QED
    BY <1>6, <1>7, <2>1, ReturnFresh, SaveCalls DEF TypeOK, TrackingTypeOK
\* Either nothing is left of the id, or the event was there before and is as
\* revived as it was, or it is revived now.
<1>9. \/ /\ \A r \in trackings : r.event # e
         /\ \A w \in work : EventOf(w) # e
      \/ events[e] # None /\ (e \in revived' <=> e \in revived)
      \/ e \in revived'
  <2>1. CASE op.kind = "create"
    <3>1. events[e] = None /\ \A w \in work : EventOf(w) # e
      BY <2>1 DEF BookingInv, CreationsAreFresh
    <3>. QED
      BY <3>1 DEF BookingInv, RowsAreOfEvents
  <2>2. CASE op.kind # "create"
    BY <1>2, <2>2 DEF Save
  <2>. QED
    BY <2>1, <2>2
<1>10. RowsAreOfEvents'
  <2> SUFFICES ASSUME NEW r \in trackings PROVE events'[r.event] # None
    BY <1>6 DEF RowsAreOfEvents
  <2>1. r.event \in Events
    BY DEF TypeOK, TrackingTypeOK, Tracking
  <2>. QED
    BY <1>5, <2>1 DEF BookingInv, RowsAreOfEvents
<1>11. RowsAreOfDepartures'
  <2>1. \A r, q \in trackings' : r.event = q.event /\ r.user = q.user => r = q
    BY <1>6 DEF BookingInv, RowsAreOfDepartures
  <2> SUFFICES ASSUME NEW r \in trackings, r.event \notin revived'
               PROVE  <<r.event, r.user>> \in departed
    BY <1>6, <2>1 DEF RowsAreOfDepartures
  <2>2. r.event \in Events
    BY DEF TypeOK, TrackingTypeOK, Tracking
  <2>3. r.event \notin revived
    BY <1>7, <1>9, <2>2
  <2>. QED
    BY <2>3 DEF BookingInv, RowsAreOfDepartures
<1>12. WorkIsOfDepartures'
  <2> SUFFICES ASSUME NEW w \in work', w.do \in StartsRow,
                      events'[EventOf(w)] # None, EventOf(w) \notin revived'
               PROVE  <<EventOf(w), UserOf(w)>> \in departed'
    BY DEF WorkIsOfDepartures, EventOf, UserOf
  <2>1. CASE w \in work
    <3>1. EventOf(w) \in Events
      BY <2>1, WorkShape
    <3>2. EventOf(w) \notin revived /\ events[EventOf(w)] # None
      BY <1>5, <1>7, <1>9, <2>1, <3>1
    <3>. QED
      BY <1>6, <2>1, <3>2 DEF BookingInv, WorkIsOfDepartures
  <2>2. CASE w \notin work
    BY <1>6, <2>2
  <2>. QED
    BY <2>1, <2>2
<1>13. CreationsAreFresh'
  <2> SUFFICES ASSUME NEW t \in Slots, ops'[t].kind = "create"
               PROVE  /\ events'[ops'[t].event] = None
                      /\ \A x \in Slots \ {t} : ops'[x] # Idle =>
                           ops'[x].event # ops'[t].event
                      /\ \A w \in work' : EventOf(w) # ops'[t].event
    BY DEF CreationsAreFresh, EventOf
  <2>1. t # s /\ ops'[t] = ops[t] /\ ops[t].kind = "create"
    BY <1>6, ReturnFresh
  <2>2. /\ events[ops[t].event] = None
        /\ \A x \in Slots \ {t} : ops[x] # Idle => ops[x].event # ops[t].event
        /\ \A w \in work : EventOf(w) # ops[t].event
    BY <2>1 DEF BookingInv, CreationsAreFresh
  <2>3. ops[t].event # e /\ ops[t].event \in Events
    BY <1>1, <2>1, <2>2, OpShape DEF Op
  <2>. QED
    BY <1>5, <1>6, <2>1, <2>2, <2>3, ReturnFresh
<1>. QED
  BY <1>8, <1>10, <1>11, <1>12, <1>13 DEF BookingInv

\* An event goes with its rows; what was started for it finds nothing.
LEMMA DeleteCommitsKeeps ==
  ASSUME TypeOK, BookingInv, NEW s \in Slots, DeleteCommits(s)
  PROVE  TypeOK' /\ BookingInv'
<1> DEFINE e == ops[s].event
<1>1. e \in Events
  BY OpShape DEF DeleteCommits, Idle, Op
<1>2. events'[e] = None /\ \A f \in Events \ {e} : events'[f] = events[f]
  BY <1>1 DEF DeleteCommits, TypeOK
<1>3. /\ trackings' = {r \in trackings : r.event # e}
      /\ departed' = {d \in departed : d[1] # e}
      /\ Return(s) /\ UNCHANGED <<now, revived, disturbed, work>>
      /\ moved' = moved \ {e}
  BY DEF DeleteCommits
<1>4. TypeOK'
  <2>1. events' \in [Events -> EventRow \cup {None}]
    BY <1>1 DEF DeleteCommits, TypeOK
  <2>. QED
    BY <1>3, <2>1, ReturnFresh DEF TypeOK, TrackingTypeOK
<1>5. RowsAreOfEvents'
  <2> SUFFICES ASSUME NEW r \in trackings, r.event # e
               PROVE  events'[r.event] # None
    BY <1>3 DEF RowsAreOfEvents
  <2>1. r.event \in Events
    BY DEF TypeOK, TrackingTypeOK, Tracking
  <2>. QED
    BY <1>2, <2>1 DEF BookingInv, RowsAreOfEvents
<1>6. RowsAreOfDepartures'
  BY <1>3 DEF BookingInv, RowsAreOfDepartures
<1>7. WorkIsOfDepartures'
  <2> SUFFICES ASSUME NEW w \in work, w.do \in StartsRow,
                      events'[EventOf(w)] # None, EventOf(w) \notin revived
               PROVE  <<EventOf(w), UserOf(w)>> \in departed'
    BY <1>3 DEF WorkIsOfDepartures, EventOf, UserOf
  <2>1. EventOf(w) # e /\ EventOf(w) \in Events
    BY <1>2, WorkShape
  <2>2. <<EventOf(w), UserOf(w)>> \in departed
    BY <1>2, <2>1 DEF BookingInv, WorkIsOfDepartures
  <2>. QED
    BY <1>3, <2>1, <2>2
<1>8. CreationsAreFresh'
  <2> SUFFICES ASSUME NEW t \in Slots, ops'[t].kind = "create"
               PROVE  /\ events'[ops'[t].event] = None
                      /\ \A x \in Slots \ {t} : ops'[x] # Idle =>
                           ops'[x].event # ops'[t].event
                      /\ \A w \in work : EventOf(w) # ops'[t].event
    BY <1>3 DEF CreationsAreFresh, EventOf
  <2>1. t # s /\ ops'[t] = ops[t] /\ ops[t].kind = "create"
    BY <1>3, ReturnFresh
  <2>2. /\ events[ops[t].event] = None
        /\ \A x \in Slots \ {t} : ops[x] # Idle => ops[x].event # ops[t].event
        /\ \A w \in work : EventOf(w) # ops[t].event
    BY <2>1 DEF BookingInv, CreationsAreFresh
  <2>3. ops[t].event \in Events
    BY <2>1, OpShape DEF Op
  <2>. QED
    BY <1>2, <1>3, <2>1, <2>2, <2>3, ReturnFresh
<1>. QED
  BY <1>4, <1>5, <1>6, <1>7, <1>8 DEF BookingInv

-----------------------------------------------------------------------------
(***************************************************************************)
(* Steps that leave the requests alone.                                    *)
(***************************************************************************)

\* An event that is there is held by no creation.
LEMMA NotCreated ==
  ASSUME TypeOK, BookingInv, NEW e, events[e] # None
  PROVE  \A s \in Slots : ops[s].kind = "create" => ops[s].event # e
BY DEF BookingInv, CreationsAreFresh

\* What a step that leaves the events and the requests alone must show: the
\* rows and the work it adds are of events that are there.
LEMMA OnlyTracking ==
  ASSUME TypeOK, BookingInv,
         trackings' \subseteq Tracking, work' \subseteq Work,
         disturbed' \in BOOLEAN,
         UNCHANGED <<events, departed, ops, now, moved, revived>>,
         \A r \in trackings' : r \in trackings \/
           /\ events[r.event] # None
           /\ r.event \notin revived => <<r.event, r.user>> \in departed',
         \A w \in work' : w \in work \/
           /\ \A s \in Slots : ops[s].kind = "create" => ops[s].event # EventOf(w)
           /\ w.do \in StartsRow /\ events[EventOf(w)] # None
                /\ EventOf(w) \notin revived
              => <<EventOf(w), UserOf(w)>> \in departed',
         \A r, q \in trackings' : r.event = q.event /\ r.user = q.user => r = q
  PROVE  TypeOK' /\ BookingInv'
<1>1. TypeOK'
  BY DEF TypeOK, TrackingTypeOK
<1>2. RowsAreOfEvents'
  BY DEF BookingInv, RowsAreOfEvents
<1>3. RowsAreOfDepartures'
  BY DEF BookingInv, RowsAreOfDepartures
<1>4. WorkIsOfDepartures'
  BY DEF BookingInv, WorkIsOfDepartures, EventOf, UserOf
<1>5. CreationsAreFresh'
  BY DEF BookingInv, CreationsAreFresh, EventOf
<1>. QED
  BY <1>1, <1>2, <1>3, <1>4, <1>5 DEF BookingInv

\* Moving a position starts the save of a copy of a row that is there.
LEMMA PatchKeeps ==
  ASSUME TypeOK, BookingInv, NEW r \in trackings, NEW p \in Positions,
         PatchLocation(r, p)
  PROVE  TypeOK' /\ BookingInv'
<1> DEFINE row == [r EXCEPT !.position = p]
           w == [do |-> "update", row |-> row]
<1>1. r \in Tracking
  BY DEF TypeOK, TrackingTypeOK
<1>2. row \in Tracking /\ row.event = r.event /\ row.user = r.user
  BY <1>1 DEF Tracking
<1>3. work' = work \cup {w} /\ trackings' = trackings
  BY DEF PatchLocation, UpdateLocation
<1> HIDE DEF row
<1>4. w \in Work /\ EventOf(w) = r.event /\ UserOf(w) = r.user
  BY <1>2 DEF Work, EventOf, UserOf
<1> HIDE DEF w
<1>5. events[r.event] # None /\ r.event \in Events
  BY <1>1 DEF BookingInv, RowsAreOfEvents, Tracking
<1>6. \A s \in Slots : ops[s].kind = "create" => ops[s].event # r.event
  BY <1>5, NotCreated
<1>7. disturbed' \in BOOLEAN /\ UNCHANGED <<events, departed, ops, now, moved, revived>>
  BY DisturbsType DEF PatchLocation, bookingVars
<1>8. r.event \notin revived => <<r.event, r.user>> \in departed
  BY DEF BookingInv, RowsAreOfDepartures
<1>9. \A x \in work' : x \in work \/
        /\ \A s \in Slots : ops[s].kind = "create" => ops[s].event # EventOf(x)
        /\ x.do \in StartsRow /\ events[EventOf(x)] # None /\ EventOf(x) \notin revived
           => <<EventOf(x), UserOf(x)>> \in departed'
  BY <1>3, <1>4, <1>6, <1>7, <1>8
<1>10. trackings' \subseteq Tracking /\ work' \subseteq Work
  BY <1>3, <1>4 DEF TypeOK, TrackingTypeOK
<1>11. \A x, q \in trackings' : x.event = q.event /\ x.user = q.user => x = q
  BY <1>3 DEF BookingInv, RowsAreOfDepartures
<1>. QED
  BY <1>3, <1>7, <1>9, <1>10, <1>11, OnlyTracking DEF TypeOK

\* A departure that is checked becomes an insert for the same event and user.
LEMMA ChecksKeep ==
  ASSUME TypeOK, BookingInv, NEW w \in work, NEW i \in RowIds,
         CreateChecks(w, i, IsInProgress(w.event)),
         UNCHANGED <<bookingVars, disturbed>>
  PROVE  TypeOK' /\ BookingInv'
<1> DEFINE row == [id |-> i, event |-> w.event, user |-> w.user, position |-> None]
           x == [do |-> "insert", row |-> row]
<1>1. w.do = "check" /\ w.event \in Events /\ w.user \in Users
      /\ EventOf(w) = w.event /\ UserOf(w) = w.user
  BY WorkShape DEF CreateChecks
<1>2. x \in Work /\ EventOf(x) = w.event /\ UserOf(x) = w.user
  BY <1>1 DEF Work, Tracking, EventOf, UserOf
<1>3. work' \subseteq work \cup {x} /\ trackings' = trackings
  BY DEF CreateChecks, Then, Done
<1> HIDE DEF x
<1>4. UNCHANGED <<events, departed, ops, now, moved, revived, disturbed>>
  BY DEF bookingVars
<1>5. \A s \in Slots : ops[s].kind = "create" => ops[s].event # w.event
  BY <1>1 DEF BookingInv, CreationsAreFresh
<1>6. events[w.event] # None /\ w.event \notin revived => <<w.event, w.user>> \in departed
  BY <1>1 DEF BookingInv, WorkIsOfDepartures, StartsRow
<1>7. \A y \in work' : y \in work \/
        /\ \A s \in Slots : ops[s].kind = "create" => ops[s].event # EventOf(y)
        /\ y.do \in StartsRow /\ events[EventOf(y)] # None /\ EventOf(y) \notin revived
           => <<EventOf(y), UserOf(y)>> \in departed'
  BY <1>2, <1>3, <1>4, <1>5, <1>6
<1>8. trackings' \subseteq Tracking /\ work' \subseteq Work
  BY <1>2, <1>3 DEF TypeOK, TrackingTypeOK
<1>9. \A r, q \in trackings' : r.event = q.event /\ r.user = q.user => r = q
  BY <1>3 DEF BookingInv, RowsAreOfDepartures
<1>. QED
  BY <1>3, <1>4, <1>7, <1>8, <1>9, OnlyTracking DEF TypeOK

\* A row is stored for an event that is there and only where no other row has
\* its event and user.
LEMMA StoresKeep ==
  ASSUME TypeOK, BookingInv, NEW w \in work,
         SaveTracking(w, events[EventOf(w)] # None),
         UNCHANGED <<bookingVars, disturbed>>
  PROVE  TypeOK' /\ BookingInv'
<1> DEFINE row == w.row
<1>1. /\ row \in Tracking /\ w.do \in {"insert", "update"}
      /\ EventOf(w) = row.event /\ UserOf(w) = row.user
  BY WorkShape DEF SaveTracking
<1>2. UNCHANGED <<events, departed, ops, now, moved, revived, disturbed>>
  BY DEF bookingVars
<1>3. work' = work \ {w}
  BY DEF SaveTracking, Done
<1>4. \/ trackings' = trackings
      \/ /\ Conflicting(row) = {} /\ events[row.event] # None
         /\ trackings' = {r \in trackings : r.id # row.id} \cup {row}
  BY <1>1 DEF SaveTracking
<1>5. \A r \in trackings' : r \in trackings \/
        /\ events[r.event] # None
        /\ r.event \notin revived => <<r.event, r.user>> \in departed'
  BY <1>1, <1>2, <1>4 DEF BookingInv, WorkIsOfDepartures, StartsRow
<1>6. \A r, q \in trackings' : r.event = q.event /\ r.user = q.user => r = q
  <2>1. CASE trackings' = trackings
    BY <2>1 DEF BookingInv, RowsAreOfDepartures
  <2>2. CASE /\ Conflicting(row) = {}
             /\ trackings' = {r \in trackings : r.id # row.id} \cup {row}
    <3>1. \A r \in trackings : r.event = row.event /\ r.user = row.user => r.id = row.id
      BY <2>2 DEF Conflicting, RowOf
    <3>. QED
      BY <2>2, <3>1 DEF BookingInv, RowsAreOfDepartures
  <2>. QED
    BY <1>4, <2>1, <2>2
<1>7. trackings' \subseteq Tracking /\ work' \subseteq Work
  BY <1>1, <1>3, <1>4 DEF TypeOK, TrackingTypeOK
<1>. QED
  BY <1>2, <1>3, <1>5, <1>6, <1>7, OnlyTracking DEF TypeOK

\* Cleaning up and losing work only take away.
LEMMA CleansKeep ==
  ASSUME TypeOK, BookingInv, NEW w \in work, DeleteByEventId(w),
         UNCHANGED <<bookingVars, disturbed>>
  PROVE  TypeOK' /\ BookingInv'
<1>1. UNCHANGED <<events, departed, ops, now, moved, revived, disturbed>>
  BY DEF bookingVars
<1>2. work' \subseteq work /\ trackings' \subseteq trackings
  BY DEF DeleteByEventId, Done
<1>3. \A r, q \in trackings' : r.event = q.event /\ r.user = q.user => r = q
  BY <1>2 DEF BookingInv, RowsAreOfDepartures
<1>. QED
  BY <1>1, <1>2, <1>3, OnlyTracking DEF TypeOK, TrackingTypeOK

\* A restart forgets the requests and the work.
LEMMA CrashKeeps ==
  ASSUME TypeOK, BookingInv, Crash
  PROVE  TypeOK' /\ BookingInv'
<1>1. /\ ops' = [s \in Slots |-> Idle] /\ work' = {} /\ trackings' = trackings
      /\ disturbed' = TRUE /\ UNCHANGED <<events, departed, now, moved, revived>>
  BY DEF Crash, WorkIsLost
<1>2. TypeOK'
  BY <1>1 DEF TypeOK, TrackingTypeOK
<1>3. CreationsAreFresh' /\ WorkIsOfDepartures'
  BY <1>1 DEF CreationsAreFresh, WorkIsOfDepartures, Idle
<1>4. RowsAreOfEvents' /\ RowsAreOfDepartures'
  BY <1>1 DEF BookingInv, RowsAreOfEvents, RowsAreOfDepartures
<1>. QED
  BY <1>2, <1>3, <1>4 DEF BookingInv

\* Time passes, or nothing happens.
LEMMA NothingKeeps ==
  ASSUME TypeOK, BookingInv, now' \in Nat,
         UNCHANGED <<events, departed, ops, moved, revived, disturbed, trackingVars>>
  PROVE  TypeOK' /\ BookingInv'
BY DEF TypeOK, TrackingTypeOK, trackingVars, BookingInv, RowsAreOfEvents,
       WorkIsOfDepartures, CreationsAreFresh, RowsAreOfDepartures, EventOf, UserOf

-----------------------------------------------------------------------------
LEMMA BookingStarts ==
  ASSUME Init
  PROVE  TypeOK /\ BookingInv
<1>1. TypeOK
  BY DEF Init, TrackingInit, TypeOK, TrackingTypeOK
<1>2. RowsAreOfEvents /\ WorkIsOfDepartures /\ RowsAreOfDepartures
  BY DEF Init, TrackingInit, RowsAreOfEvents, WorkIsOfDepartures,
         RowsAreOfDepartures
<1>3. CreationsAreFresh
  BY DEF Init, CreationsAreFresh, Idle
<1>. QED
  BY <1>1, <1>2, <1>3 DEF BookingInv

LEMMA BookingKept ==
  ASSUME TypeOK, BookingInv, [Next]_vars
  PROVE  TypeOK' /\ BookingInv'
<1>1. ASSUME NEW s \in Slots, Starts(s) PROVE TypeOK' /\ BookingInv'
  BY <1>1, BeginKeeps
<1>2. ASSUME NEW s \in Slots, GoesOn(s) PROVE TypeOK' /\ BookingInv'
  BY <1>2, ConflictFreeKeeps, ThrowKeeps, SaveKeeps, DeleteCommitsKeeps
     DEF GoesOn, ConflictFound, DeleteFails
<1>3. CASE UpdateMyLocation
  BY <1>3, PatchKeeps DEF UpdateMyLocation
<1>4. ASSUME NEW w \in work, Handle(w)
      PROVE  TypeOK' /\ BookingInv'
  BY <1>4, ChecksKeep, StoresKeep, CleansKeep DEF Handle
<1>5. CASE Tick
  <2>1. now' \in Nat
    BY <1>5 DEF Tick, TypeOK
  <2>. QED
    BY <1>5, <2>1, NothingKeeps DEF Tick
<1>6. CASE UNCHANGED vars
  BY <1>6, NothingKeeps DEF vars, bookingVars, TypeOK
<1>. QED
  BY <1>1, <1>2, <1>3, <1>4, <1>5, <1>6, CrashKeeps DEF Next, Starts, GoesOn

LEMMA BookingInvariant == Spec => [](TypeOK /\ BookingInv)
<1>1. Init => TypeOK /\ BookingInv
  BY BookingStarts
<1>2. TypeOK /\ BookingInv /\ [Next]_vars => TypeOK' /\ BookingInv'
  BY BookingKept
<1>. QED
  BY <1>1, <1>2, PTL DEF Spec

\* The rows of events and positions keep their form.
THEOREM BookingTypeCorrect == Spec => []TypeOK
BY BookingInvariant, PTL

\* Whatever departures, updates, clean-up, deletions and restarts overlap, for
\* any number of events and users: a position is one of somebody who departed
\* to that event, one for each, but on an event that a stale save brought back.
THEOREM RowsStayOfDepartures == Spec => []RowsAreOfDepartures
BY BookingInvariant, PTL DEF BookingInv

-----------------------------------------------------------------------------
(***************************************************************************)
(* As long as nothing is disturbed.  One activity at most is in flight, a  *)
(* request, a job or a piece of work; so what a request or job has read,   *)
(* the row it has copied and the schedules it has compared, is still so    *)
(* when it saves.                                                          *)
(***************************************************************************)
Alone ==
  ~disturbed =>
    /\ \A s, t \in Slots : ops[s] # Idle /\ ops[t] # Idle => s = t
    /\ \A w, x \in work : w = x
    /\ work = {} \/ \A s \in Slots : ops[s] = Idle

CopiesFollow == ~disturbed => \A s \in Slots : ops[s] # Idle => Follows(ops[s])

AloneInv == TypeOK /\ BookingInv /\ Alone /\ CopiesFollow

-----------------------------------------------------------------------------
\* A step that disturbs nothing found nothing else in flight.
LEMMA DisturbsNothing ==
  ASSUME Disturbs(InFlight \cup work), ~disturbed'
  PROVE  ~disturbed /\ work = {} /\ \A s \in Slots : ops[s] = Idle
<1>1. ~disturbed /\ ~(InFlight \cup work # {})
  BY Zenon DEF Disturbs
<1>. QED
  BY <1>1 DEF InFlight

\* A step of one request or job finds no other activity, and leaves one.
LEMMA RequestAlone ==
  ASSUME TypeOK, Alone, NEW s \in Slots, Starts(s) \/ GoesOn(s), ~disturbed'
  PROVE  /\ ~disturbed /\ work = {}
         /\ \A t \in Slots \ {s} : ops[t] = Idle /\ ops'[t] = Idle
         /\ \E x : work' \subseteq {x}
         /\ work' = {} \/ ops'[s] = Idle
<1>1. CASE Starts(s)
  <2>1. PICK op : Begin(s, op)
    BY <1>1, RequestBegins
  <2>2. ~disturbed /\ work = {} /\ \A t \in Slots : ops[t] = Idle
    BY <2>1, DisturbsNothing DEF Begin
  <2>3. \A t \in Slots \ {s} : ops'[t] = ops[t]
    BY <2>1 DEF Begin, TypeOK
  <2>4. work' = work
    BY <1>1, RequestBegins DEF Unmoved, trackingVars
  <2>. QED
    BY <2>2, <2>3, <2>4
<1>2. CASE GoesOn(s)
  <2>1. ops[s].pc # "idle" /\ UNCHANGED disturbed
    BY <1>2 DEF GoesOn, ConflictFree, ConflictFound, Save, DeleteCommits,
         DeleteFails, Throw
  <2>2. \E op : ops' = [ops EXCEPT ![s] = op]
    BY <1>2, Zenon DEF GoesOn, ConflictFree, ConflictFound, Save, DeleteCommits,
         DeleteFails, Throw, Return
  <2>3. \A t \in Slots \ {s} : ops'[t] = ops[t]
    BY <2>2 DEF TypeOK
  <2>4. ops[s] # Idle
    BY <2>1 DEF Idle
  <2>5. \/ work' = work
        \/ ops'[s] = Idle /\ \E x : work' \subseteq work \cup {x}
    <3>1. CASE Save(s)
      <4>1. ops'[s] = Idle
        BY SaveCalls, <3>1 DEF Return, TypeOK
      <4>2. work' = work \/ \E x : work' = work \cup {x}
        BY SaveCalls, <3>1, Zenon
      <4>. QED
        BY <4>1, <4>2
    <3>. QED
      BY <1>2, <3>1 DEF GoesOn, ConflictFree, ConflictFound, DeleteCommits,
           DeleteFails, Throw, trackingVars
  <2>. QED
    BY <2>1, <2>3, <2>4, <2>5 DEF Alone
<1>. QED
  BY <1>1, <1>2

LEMMA FollowsStays ==
  ASSUME UNCHANGED events, NEW op, Follows(op)
  PROVE  Follows(op)'
BY DEF Follows, HasScheduleConflict, IsActive, IsRecruiting

\* What a step of a request leaves in its slot.
LEMMA CopiesStep ==
  ASSUME TypeOK, Alone, NEW s \in Slots, Starts(s) \/ GoesOn(s),
         NEW op, ops' = [ops EXCEPT ![s] = op], op # Idle => Follows(op)'
  PROVE  Alone' /\ CopiesFollow'
<1>1. ops'[s] = op
  BY DEF TypeOK
<1>2. ASSUME ~disturbed'
      PROVE  \A t \in Slots \ {s} : ops'[t] = Idle
  BY <1>2, RequestAlone
<1>3. Alone'
  BY <1>2, RequestAlone DEF Alone
<1>4. Follows(op)' => Follows(ops[s])'
  BY <1>1 DEF Follows, HasScheduleConflict, IsActive, IsRecruiting
<1>5. CopiesFollow'
  BY <1>1, <1>2, <1>4 DEF CopiesFollow
<1>. QED
  BY <1>3, <1>5

LEMMA RequestsAloneKeep ==
  ASSUME AloneInv, NEW s \in Slots, Starts(s) \/ GoesOn(s)
  PROVE  Alone' /\ CopiesFollow'
<1> USE DEF AloneInv
<1>1. CASE Starts(s)
  <2>1. PICK op : Begin(s, op) /\ Follows(op)
    BY <1>1, RequestBegins
  <2>2. UNCHANGED events
    BY <1>1, RequestBegins DEF Unmoved
  <2>. QED
    BY <1>1, <2>1, <2>2, FollowsStays, CopiesStep DEF Begin
<1>2. ASSUME Return(s), GoesOn(s) PROVE Alone' /\ CopiesFollow'
  BY <1>2, CopiesStep DEF Return
<1>3. CASE ConflictFree(s)
  <2> SUFFICES ASSUME ~disturbed PROVE Alone' /\ CopiesFollow'
    BY <1>3 DEF ConflictFree, Alone, CopiesFollow
  <2> DEFINE op == [ops[s] EXCEPT !.pc = "save"]
  <2>1. ops[s] \in Op /\ ops[s] # Idle /\ ops[s].pc = "conflict"
    BY <1>3, OpShape DEF ConflictFree, Idle
  <2>2. /\ op.pc = "save" /\ op.kind = ops[s].kind /\ op.event = ops[s].event
        /\ op.user = ops[s].user /\ op.copy = ops[s].copy /\ op.removed = ops[s].removed
    BY <2>1 DEF Op
  <2>3. ops' = [ops EXCEPT ![s] = op] /\ UNCHANGED events
    BY <1>3 DEF ConflictFree
  <2> HIDE DEF op
  <2>4. Follows(ops[s])
    BY <2>1 DEF CopiesFollow
  <2>5. Follows(op)
    BY <1>3, <2>1, <2>2, <2>4 DEF Follows, ConflictFree
  <2>. QED
    BY <1>3, <2>3, <2>5, FollowsStays, CopiesStep DEF GoesOn
<1>. QED
  BY <1>1, <1>2, <1>3
     DEF GoesOn, ConflictFound, Save, DeleteCommits, DeleteFails, Throw

\* A position moves when nothing else goes on, and starts one piece of work.
LEMMA PatchAlone ==
  ASSUME AloneInv, ~disturbed', UpdateMyLocation
  PROVE  /\ ~disturbed /\ work = {} /\ \A s \in Slots : ops'[s] = Idle
         /\ \E x : work' \subseteq {x}
<1>1. Disturbs(InFlight \cup work) /\ ops' = ops
  BY DEF UpdateMyLocation, PatchLocation, bookingVars
<1>2. ~disturbed /\ work = {} /\ \A s \in Slots : ops[s] = Idle
  BY <1>1, DisturbsNothing
<1>3. \E x : work' \subseteq work \cup {x}
  BY DEF UpdateMyLocation, PatchLocation, UpdateLocation
<1>. QED
  BY <1>1, <1>2, <1>3

LEMMA HandleAlone ==
  ASSUME AloneInv, ~disturbed', NEW w \in work, Handle(w)
  PROVE  /\ ~disturbed /\ work = {w} /\ \A s \in Slots : ops'[s] = Idle
         /\ \E x : work' \subseteq {x}
<1>1. ~disturbed /\ ops' = ops
  BY DEF Handle, bookingVars
<1>2. work = {w} /\ \A s \in Slots : ops[s] = Idle
  BY <1>1 DEF AloneInv, Alone
<1>3. \E x : work' \subseteq (work \ {w}) \cup {x}
  BY Zenon DEF Handle, CreateChecks, SaveTracking, DeleteByEventId, Then, Done
<1>. QED
  BY <1>1, <1>2, <1>3

LEMMA AloneKept ==
  ASSUME AloneInv, [Next]_vars
  PROVE  AloneInv'
<1> SUFFICES Alone' /\ CopiesFollow'
  BY BookingKept DEF AloneInv
<1>1. ASSUME NEW s \in Slots, Starts(s) \/ GoesOn(s)
      PROVE  Alone' /\ CopiesFollow'
  BY <1>1, RequestsAloneKeep
<1>2. ASSUME ~disturbed' =>
               (\A s \in Slots : ops'[s] = Idle) /\ \E x : work' \subseteq {x}
      PROVE  Alone' /\ CopiesFollow'
  BY <1>2 DEF Alone, CopiesFollow
<1>3. CASE UpdateMyLocation
  BY <1>2, <1>3, PatchAlone
<1>4. ASSUME NEW w \in work, Handle(w) PROVE Alone' /\ CopiesFollow'
  BY <1>2, <1>4, HandleAlone
<1>5. CASE Crash
  BY <1>2, <1>5 DEF Crash
<1>6. CASE Tick \/ UNCHANGED vars
  <2>1. UNCHANGED <<events, ops, work, disturbed>>
    BY <1>6 DEF Tick, vars, bookingVars, trackingVars
  <2>2. CopiesFollow'
    BY <2>1, FollowsStays DEF AloneInv, CopiesFollow
  <2>. QED
    BY <2>1, <2>2 DEF AloneInv, Alone
<1>. QED
  BY <1>1, <1>3, <1>4, <1>5, <1>6 DEF Next, Starts, GoesOn

LEMMA AloneInvariant == Spec => []AloneInv
<1>1. Init => AloneInv
  BY BookingStarts DEF Init, TrackingInit, AloneInv, Alone, CopiesFollow
<1>2. AloneInv /\ [Next]_vars => AloneInv'
  BY AloneKept
<1>. QED
  BY <1>1, <1>2, PTL DEF Spec

-----------------------------------------------------------------------------
(***************************************************************************)
(* Nobody is booked twice.                                                 *)
(***************************************************************************)
Clash(e, f, u) ==
  /\ e # f /\ IsActive(events[e]) /\ IsActive(events[f])
  /\ u \in events[e].participants /\ u \in events[f].participants
  /\ Overlap(events[e].checkTime, events[f].checkTime)
OwnDoing(e, f, u) == \E m \in {e, f} \cap moved : events[m].creator = u
Booked ==
  ~disturbed => \A e, f \in Events : \A u \in Users :
    Clash(e, f, u) => OwnDoing(e, f, u)

LEMMA OverlapSymmetric ==
  ASSUME NEW x \in Nat, NEW y \in Nat, Overlap(x, y)
  PROVE  Overlap(y, x)
BY DEF Overlap, EndTime, TrackingStart

\* Which of the two is named first does not matter.
LEMMA ClashSymmetric ==
  ASSUME TypeOK', NEW e \in Events, NEW f \in Events, NEW u, Clash(e, f, u)'
  PROVE  /\ Clash(f, e, u)'
         /\ OwnDoing(f, e, u)' => OwnDoing(e, f, u)'
<1>1. events'[e] \in EventRow /\ events'[f] \in EventRow
  BY DEF Clash, IsActive, IsRecruiting, TypeOK
<1>2. events'[e].checkTime \in Nat /\ events'[f].checkTime \in Nat
  BY <1>1, BookingBounds DEF EventRow
<1>3. Clash(f, e, u)'
  BY <1>2, OverlapSymmetric DEF Clash
<1>4. OwnDoing(f, e, u)' => OwnDoing(e, f, u)'
  BY DEF OwnDoing
<1>. QED
  BY <1>3, <1>4

\* Two schedules overlap when they share a tick.
LEMMA OverlapIsBusy ==
  ASSUME TypeOK, NEW e \in Events, NEW f \in Events,
         IsActive(events[e]), IsActive(events[f])
  PROVE  Busy(events[e]) \cap Busy(events[f]) # {}
           => Overlap(events[e].checkTime, events[f].checkTime)
<1>1. events[e] \in EventRow /\ events[f] \in EventRow
  BY DEF IsActive, IsRecruiting, TypeOK
<1>2. events[e].checkTime \in Nat /\ events[f].checkTime \in Nat
  BY <1>1, BookingBounds DEF EventRow
<1> DEFINE x == events[e].checkTime
           y == events[f].checkTime
<1>3. ASSUME Busy(events[e]) \cap Busy(events[f]) # {} PROVE Overlap(x, y)
  <2>1. PICK k : k \in Busy(events[e]) /\ k \in Busy(events[f])
    BY <1>3
  <2>2. k \in (x + 1) .. ((x + 4) - 1) /\ k \in (y + 1) .. ((y + 4) - 1)
    BY <2>1 DEF Busy, TrackingStart, EndTime
  <2> HIDE DEF x, y
  <2>3. x \in Nat /\ y \in Nat
    BY <1>2 DEF x, y
  <2>. QED
    BY <2>2, <2>3 DEF Overlap, TrackingStart, EndTime
<1>. QED
  BY <1>3

\* A step under which no clash appears and none stops being somebody's doing.
LEMMA BookedStays ==
  ASSUME Booked, ~disturbed,
         \A e, f \in Events : \A u \in Users :
           Clash(e, f, u)' => Clash(e, f, u) /\ (OwnDoing(e, f, u) => OwnDoing(e, f, u)')
  PROVE  Booked'
BY DEF Booked

\* A save: a newcomer has been asked about, the creator who moves his event
\* has not, and everybody else was there before.
LEMMA SaveBooks ==
  ASSUME AloneInv, Booked, NEW s \in Slots, Save(s)
  PROVE  Booked'
<1> SUFFICES ASSUME ~disturbed' PROVE Booked'
  BY DEF Booked
<1> USE DEF AloneInv
<1> DEFINE op == ops[s]
<1>1. op \in Op /\ op # Idle /\ op.pc = "save" /\ ~disturbed
  BY OpShape DEF Save, Idle
<1>2. Follows(op)
  BY <1>1 DEF CopiesFollow
<1>e. PICK e \in Events : e = op.event
  BY <1>1 DEF Op
<1> DEFINE row == Saved(e, op.copy, op.removed)
<1>3. op.copy \in EventRow /\ op.kind # "delete"
  BY <1>1, <1>2 DEF Op, Follows
<1>4. row \in EventRow
  BY <1>3, SavedRow
<1>5. /\ row.checkTime = op.copy.checkTime /\ row.status = op.copy.status
      /\ row.creator = op.copy.creator
      /\ events[e] = None => row.participants = op.copy.participants
      /\ events[e] # None =>
           row.participants = op.copy.participants \cup (events[e].participants \ op.removed)
  BY <1>3, SavedRow
<1>6. events' = [events EXCEPT ![e] = row]
  BY <1>e DEF Save
<1>7. op.kind = "create" => events[e] = None
  BY <1>e DEF BookingInv, CreationsAreFresh
<1> HIDE DEF row
<1>8. events'[e] = row /\ \A f \in Events \ {e} : events'[f] = events[f]
  BY <1>3, <1>6 DEF TypeOK
<1>9. moved \subseteq moved' /\ (op.kind = "update" => e \in moved')
  BY <1>e DEF Save
<1>p. /\ op.kind = "create" => row.participants = {op.user}
      /\ op.kind = "join" => row.participants \subseteq events[e].participants \cup {op.user}
      /\ op.kind \notin {"create", "join", "update"} =>
           row.participants \subseteq events[e].participants
      /\ op.kind = "update" => row.participants \subseteq {row.creator}
  BY <1>2, <1>5, <1>7, <1>e DEF Follows
\* A clash of the saved event with another one.
<1>10. ASSUME NEW f \in Events, NEW u \in Users, Clash(e, f, u)'
       PROVE  OwnDoing(e, f, u)'
  <2>1. /\ e # f /\ IsActive(events[f]) /\ u \in events[f].participants
        /\ u \in row.participants
        /\ Overlap(row.checkTime, events[f].checkTime)
    <3>1. events'[f] = events[f]
      BY <1>8, <1>10 DEF Clash
    <3>. QED
      BY <1>8, <1>10, <3>1 DEF Clash
  <2>2. ASSUME op.kind \in {"create", "join"} PROVE u # op.user
    BY <1>1, <1>2, <1>5, <1>e, <2>1, <2>2 DEF Follows, HasScheduleConflict
  <2>3. CASE op.kind = "create"
    BY <1>p, <2>1, <2>2, <2>3
  <2>4. CASE op.kind \notin {"create", "update"}
    <3>1. /\ events[e] # None /\ MovesOn(op.kind, events[e].status, row.status)
          /\ row.checkTime = events[e].checkTime /\ row.creator = events[e].creator
      BY <1>2, <1>5, <1>e, <2>4 DEF Follows
    <3>2. u \in events[e].participants
      BY <1>p, <2>1, <2>2, <2>4
    <3>3. IsActive(row)
      BY <1>8, <1>10 DEF Clash
    <3>4. op.kind \in Kind \ {"create", "update"}
      BY <1>1, <2>4 DEF Op
    <3>5. IsActive(events[e])
      BY <3>1, <3>3, <3>4 DEF IsActive, IsRecruiting, MovesOn, Kind, JobKind
    <3>6. Clash(e, f, u)
      BY <2>1, <3>1, <3>2, <3>5 DEF Clash
    <3>7. OwnDoing(e, f, u)
      BY <1>1, <3>6 DEF Booked
    <3>8. \A m \in {e, f} : events'[m].creator = events[m].creator
      BY <1>8, <2>1, <3>1
    <3>. QED
      BY <1>9, <3>7, <3>8 DEF OwnDoing
  <2>5. CASE op.kind = "update"
    BY <1>8, <1>9, <1>p, <2>1, <2>5 DEF OwnDoing
  <2>. QED
    BY <2>3, <2>4, <2>5
<1>11. TypeOK'
  BY BookingKept DEF Next
<1>. QED
  <2> SUFFICES ASSUME NEW f \in Events, NEW g \in Events, NEW u \in Users,
                      Clash(f, g, u)'
               PROVE  OwnDoing(f, g, u)'
    BY DEF Booked
  <2>1. CASE f = e
    BY <1>10, <2>1
  <2>2. CASE g = e
    BY <1>10, <1>11, <2>2, ClashSymmetric
  <2>3. CASE f # e /\ g # e
    <3>1. events'[f] = events[f] /\ events'[g] = events[g]
      BY <1>8, <2>3
    <3>2. Clash(f, g, u)
      BY <3>1 DEF Clash
    <3>. QED
      BY <1>1, <1>9, <3>1, <3>2 DEF Booked, OwnDoing
  <2>. QED
    BY <2>1, <2>2, <2>3

LEMMA DeleteBooks ==
  ASSUME AloneInv, Booked, NEW s \in Slots, DeleteCommits(s)
  PROVE  Booked'
<1> SUFFICES ASSUME ~disturbed' PROVE Booked'
  BY DEF Booked
<1>1. ops[s].event \in Events /\ ~disturbed
  BY OpShape DEF DeleteCommits, Idle, Op, AloneInv
<1>e. PICK e \in Events : e = ops[s].event
  BY <1>1
<1>2. events'[e] = None /\ \A f \in Events \ {e} : events'[f] = events[f]
  BY <1>e DEF DeleteCommits, AloneInv, TypeOK
<1>3. moved' = moved \ {e}
  BY <1>e DEF DeleteCommits
<1> SUFFICES ASSUME NEW f \in Events, NEW g \in Events, NEW u \in Users,
                    Clash(f, g, u)'
             PROVE  Clash(f, g, u) /\ (OwnDoing(f, g, u) => OwnDoing(f, g, u)')
  BY <1>1, BookedStays
<1>4. f # e /\ g # e
  BY <1>2 DEF Clash, IsActive, IsRecruiting
<1>5. events'[f] = events[f] /\ events'[g] = events[g]
  BY <1>2, <1>4
<1>. QED
  BY <1>3, <1>4, <1>5 DEF Clash, OwnDoing

LEMMA BookedInvariant == Spec => []Booked
<1>1. Init => Booked
  BY DEF Init, Booked, Clash, IsActive, IsRecruiting
<1>2. AloneInv /\ Booked /\ [Next]_vars => Booked'
  <2> SUFFICES ASSUME AloneInv, Booked, [Next]_vars PROVE Booked'
    OBVIOUS
  <2>1. ASSUME UNCHANGED <<events, moved>>, ~disturbed' => ~disturbed PROVE Booked'
    BY <2>1 DEF Booked, Clash, OwnDoing
  <2>2. ASSUME NEW s \in Slots, Starts(s) PROVE Booked'
    <3>1. UNCHANGED <<events, moved>>
      BY <2>2, RequestBegins DEF AloneInv, Unmoved
    <3>. QED
      BY <2>1, <2>2, <3>1, RequestAlone DEF AloneInv
  <2>3. ASSUME NEW s \in Slots, ConflictFree(s) \/ Throw(s) PROVE Booked'
    BY <2>1, <2>3 DEF ConflictFree, Throw
  <2>4. CASE UpdateMyLocation
    <3>1. UNCHANGED <<events, moved>>
      BY <2>4 DEF UpdateMyLocation, PatchLocation, bookingVars
    <3>. QED
      BY <2>1, <2>4, <3>1, PatchAlone
  <2>5. ASSUME NEW w \in work, Handle(w) PROVE Booked'
    BY <2>1, <2>5 DEF Handle, bookingVars
  <2>6. CASE Crash
    BY <2>1, <2>6 DEF Crash
  <2>7. CASE Tick \/ UNCHANGED vars
    BY <2>1, <2>7 DEF Tick, vars, bookingVars
  <2>. QED
    BY <2>2, <2>3, <2>4, <2>5, <2>6, <2>7, SaveBooks, DeleteBooks
       DEF Next, Starts, ConflictFound, DeleteFails
<1>. QED
  BY <1>1, <1>2, AloneInvariant, PTL DEF Spec

\* Nobody takes part in two events whose times overlap, however many events
\* there are, but by having moved one of his own; unless activities overlap.
THEOREM NobodyIsBookedTwice == Spec => []NoDoubleBooking
<1>1. AloneInv /\ Booked => NoDoubleBooking
  <2> SUFFICES ASSUME AloneInv, Booked, ~disturbed,
                      NEW e \in Events, NEW f \in Events, NEW u \in Users,
                      e # f, IsActive(events[e]), IsActive(events[f]),
                      u \in events[e].participants \cap events[f].participants,
                      Busy(events[e]) \cap Busy(events[f]) # {}
               PROVE  \E m \in {e, f} \cap moved : events[m].creator = u
    BY DEF NoDoubleBooking
  <2>1. Clash(e, f, u)
    BY OverlapIsBusy DEF AloneInv, Clash
  <2>. QED
    BY <2>1 DEF Booked, OwnDoing
<1>. QED
  BY <1>1, AloneInvariant, BookedInvariant, PTL

-----------------------------------------------------------------------------
(***************************************************************************)
(* Those on their way are tracked.                                         *)
(***************************************************************************)
RowIdsApart == \A r, q \in trackings : r.id = q.id => r = q

Clean(e) == [do |-> "clean", event |-> e]

\* The row of a departure is there, or on its way there.
Arriving(e, u) ==
  \/ RowOf(e, u) # {}
  \/ \E w \in work : w.do \in {"check", "insert"} /\ EventOf(w) = e /\ UserOf(w) = u
\* Work about a row is of an event in progress; an insert's id is in no row,
\* an update's in the one it moves; what is cleaned up is over.
WorkIsCurrent(w) ==
  /\ w.do \in StartsRow => IsInProgress(EventOf(w))
  /\ w.do = "insert" => \A r \in trackings : r.id # w.row.id
  /\ w.do = "update" => \E r \in trackings :
       r.id = w.row.id /\ r.event = w.row.event /\ r.user = w.row.user
  /\ w.do = "clean" => ~IsInProgress(w.event)
Tracked ==
  /\ \A r \in trackings : IsInProgress(r.event) \/ Clean(r.event) \in work
  /\ \A d \in departed :
       events[d[1]] # None /\ events[d[1]].status \in {"IN_PROGRESS", "ENDED"}
  /\ \A d \in departed : IsInProgress(d[1]) => Arriving(d[1], d[2])
  /\ \A w \in work : WorkIsCurrent(w)
TrackedInv == RowIdsApart /\ (~disturbed => Tracked)

\* A row saved takes the place of the one that has its id.
LEMMA IdsStayApart ==
  ASSUME TypeOK, RowIdsApart, [Next]_vars
  PROVE  RowIdsApart'
<1>1. \/ trackings' \subseteq trackings
      \/ \E w \in work : trackings' = {r \in trackings : r.id # w.row.id} \cup {w.row}
  <2>1. CASE UNCHANGED trackings
    BY <2>1
  <2>2. ASSUME NEW s \in Slots, DeleteCommits(s) PROVE trackings' \subseteq trackings
    BY <2>2 DEF DeleteCommits
  <2>3. ASSUME NEW w \in work, Handle(w)
        PROVE  \/ trackings' \subseteq trackings
               \/ \E x \in work :
                    trackings' = {r \in trackings : r.id # x.row.id} \cup {x.row}
    BY <2>3 DEF Handle, CreateChecks, SaveTracking, DeleteByEventId
  <2>4. CASE UpdateMyLocation
    BY <2>4 DEF UpdateMyLocation, PatchLocation, UpdateLocation
  <2>5. CASE Crash \/ Tick \/ UNCHANGED vars
    BY <2>5 DEF Crash, WorkIsLost, Tick, vars, trackingVars
  <2>6. ASSUME NEW s \in Slots,
               Starts(s) \/ ConflictFree(s) \/ ConflictFound(s) \/ Save(s) \/ DeleteFails(s)
        PROVE  UNCHANGED trackings
    BY <2>6, RequestBegins, SaveCalls
       DEF Unmoved, trackingVars, ConflictFree, ConflictFound, DeleteFails, Throw
  <2>. QED
    BY <2>1, <2>2, <2>3, <2>4, <2>5, <2>6 DEF Next, Starts
<1>. QED
  BY <1>1 DEF RowIdsApart

\* A step that keeps which events are in progress and those departed, the rows
\* and the work.
LEMMA TrackedStays ==
  ASSUME Tracked, TypeOK, UNCHANGED <<departed, trackings, work>>,
         \A e \in Events : IsInProgress(e)' <=> IsInProgress(e),
         \A e \in Events : events[e] # None /\ events[e].status \in {"IN_PROGRESS", "ENDED"}
           => events'[e] # None /\ events'[e].status \in {"IN_PROGRESS", "ENDED"}
  PROVE  Tracked'
<1>1. \A r \in trackings : r.event \in Events
  BY DEF TypeOK, TrackingTypeOK, Tracking
<1>2. \A d \in departed : d[1] \in Events
  BY DEF TypeOK
<1>3. \A w \in work : EventOf(w) \in Events /\ (w.do = "clean" => w.event \in Events)
  BY WorkShape
<1>4. \A r \in trackings' : IsInProgress(r.event)' \/ Clean(r.event) \in work'
  BY <1>1 DEF Tracked
<1>5. \A d \in departed' :
        events'[d[1]] # None /\ events'[d[1]].status \in {"IN_PROGRESS", "ENDED"}
  BY <1>2 DEF Tracked
<1>6. \A d \in departed' : IsInProgress(d[1])' => Arriving(d[1], d[2])'
  BY <1>2 DEF Tracked, Arriving, RowOf
<1>7. \A w \in work' : WorkIsCurrent(w)'
  BY <1>3 DEF Tracked, WorkIsCurrent
<1>. QED
  BY <1>4, <1>5, <1>6, <1>7 DEF Tracked

\* What a save makes of an event: a start is of one that nobody has departed
\* to, an end starts the clean-up, and a departure the row.
LEMMA SaveTracks ==
  ASSUME AloneInv, Tracked, NEW s \in Slots, Save(s), ~disturbed'
  PROVE  Tracked'
<1> USE DEF AloneInv
<1> DEFINE op == ops[s]
<1>1. op \in Op /\ op # Idle /\ op.pc = "save" /\ ~disturbed
  BY OpShape DEF Save, Idle
<1>2. Follows(op)
  BY <1>1 DEF CopiesFollow
<1>e. PICK e \in Events : e = op.event
  BY <1>1 DEF Op
<1> DEFINE row == Saved(e, op.copy, op.removed)
<1>3. row # None /\ row.status = op.copy.status
  BY <1>1, SavedRow DEF Op
<1>4. events' = [events EXCEPT ![e] = row]
  BY <1>e DEF Save
<1> HIDE DEF row
<1>5. events'[e] = row /\ \A f \in Events \ {e} : events'[f] = events[f]
  BY <1>4 DEF TypeOK
<1>6. op.kind \in Kind /\ op.user \in Users
  BY <1>1 DEF Op
<1>7. \/ op.kind = "create" /\ events[e] = None /\ row.status = "RECRUITING"
      \/ /\ op.kind # "create" /\ events[e] # None
         /\ MovesOn(op.kind, events[e].status, row.status)
  BY <1>2, <1>3, <1>e DEF Follows, BookingInv, CreationsAreFresh
<1>8. work = {} /\ trackings' = trackings
  BY RequestAlone, SaveCalls DEF GoesOn
<1>9. /\ \A d \in departed : d[1] \in Events /\ RowOf(d[1], d[2]) \subseteq trackings
      /\ \A d \in departed : IsInProgress(d[1]) => RowOf(d[1], d[2]) # {}
      /\ \A r \in trackings : r.event \in Events /\ IsInProgress(r.event)
  BY <1>8 DEF Tracked, Arriving, RowOf, TypeOK, TrackingTypeOK, Tracking
<1>10. CASE op.kind \notin {"start", "depart", "end"}
  <2>1. \/ /\ events[e] = None \/ events[e].status = "RECRUITING"
           /\ row.status \in {"RECRUITING", "CHECKED", "CANCELLED"}
        \/ events[e] # None /\ events[e].status = row.status
    BY <1>6, <1>7, <1>10 DEF MovesOn, Kind, JobKind
  <2>2. \A f \in Events : IsInProgress(f)' <=> IsInProgress(f)
    <3>1. IsInProgress(e)' <=> IsInProgress(e)
      BY <1>3, <1>5, <2>1 DEF IsInProgress
    <3>. QED
      BY <1>5, <3>1 DEF IsInProgress
  <2>3. \A f \in Events : events[f] # None /\ events[f].status \in {"IN_PROGRESS", "ENDED"}
          => events'[f] # None /\ events'[f].status \in {"IN_PROGRESS", "ENDED"}
    BY <1>3, <1>5, <2>1
  <2>4. UNCHANGED <<departed, trackings, work>>
    BY <1>10, SaveCalls
  <2>. QED
    BY <2>2, <2>3, <2>4, TrackedStays
<1>11. CASE op.kind = "start"
  <2>1. events[e].status = "CHECKED" /\ UNCHANGED <<departed, work>>
    BY <1>7, <1>11, SaveCalls DEF MovesOn
  <2>2. \A d \in departed : d[1] # e
    BY <2>1 DEF Tracked
  <2>3. \A r \in trackings : r.event # e
    BY <1>9, <2>1 DEF IsInProgress
  <2>4. \A r \in trackings' : IsInProgress(r.event)'
    BY <1>5, <1>8, <1>9, <2>3 DEF IsInProgress
  <2>5. \A d \in departed' :
          events'[d[1]] # None /\ events'[d[1]].status \in {"IN_PROGRESS", "ENDED"}
    BY <1>5, <1>9, <2>1, <2>2 DEF Tracked
  <2>6. \A d \in departed' : IsInProgress(d[1])' => Arriving(d[1], d[2])'
    BY <1>5, <1>8, <1>9, <2>1, <2>2 DEF IsInProgress, Arriving, RowOf
  <2>. QED
    BY <1>8, <2>1, <2>4, <2>5, <2>6 DEF Tracked
<1>12. CASE op.kind = "depart"
  <2>u. PICK u \in Users : u = op.user
    BY <1>6
  <2> DEFINE w == [do |-> "check", event |-> e, user |-> u]
  <2>1. w.do = "check" /\ EventOf(w) = e /\ UserOf(w) = u
    BY DEF EventOf, UserOf
  <2>2. work' = {w} /\ departed' = departed \cup {<<e, u>>}
    BY <1>8, <1>12, <1>e, <2>u, SaveCalls
  <2> HIDE DEF w
  <2>3. IsInProgress(e) /\ IsInProgress(e)'
    BY <1>3, <1>5, <1>7, <1>12 DEF MovesOn, IsInProgress
  <2>4. \A f \in Events : IsInProgress(f)' <=> IsInProgress(f)
    BY <1>5, <2>3 DEF IsInProgress
  <2>5. \A r \in trackings' : IsInProgress(r.event)'
    BY <1>8, <1>9, <2>4
  <2>6. \A d \in departed' :
          events'[d[1]] # None /\ events'[d[1]].status \in {"IN_PROGRESS", "ENDED"}
    BY <1>5, <1>9, <2>2, <2>3 DEF Tracked, IsInProgress
  <2>7. Arriving(e, u)'
    <3>1. w \in work' /\ w.do \in {"check", "insert"}
      BY <2>1, <2>2
    <3>. QED
      BY <2>1, <3>1, Zenon DEF Arriving, EventOf, UserOf
  <2>8. \A d \in departed : IsInProgress(d[1])' => RowOf(d[1], d[2])' # {}
    BY <1>8, <1>9, <2>4 DEF RowOf
  <2>9. WorkIsCurrent(w)'
    BY <2>1, <2>3 DEF WorkIsCurrent, EventOf
  <2>10. \A d \in departed' : IsInProgress(d[1])' => Arriving(d[1], d[2])'
    <3>1. \A d \in departed : IsInProgress(d[1])' => Arriving(d[1], d[2])'
      BY <2>8 DEF Arriving
    <3>. QED
      BY <2>2, <2>7, <3>1
  <2>. QED
    BY <2>2, <2>5, <2>6, <2>9, <2>10 DEF Tracked
<1>13. CASE op.kind = "end"
  <2>1. work' = {Clean(e)} /\ departed' = departed
    BY <1>8, <1>13, <1>e, SaveCalls DEF Clean
  <2>2. events'[e] # None /\ events'[e].status = "ENDED"
    BY <1>3, <1>5, <1>7, <1>13 DEF MovesOn
  <2>3. \A r \in trackings' : IsInProgress(r.event)' \/ Clean(r.event) \in work'
    BY <1>5, <1>8, <1>9, <2>1 DEF IsInProgress
  <2>4. \A d \in departed' :
          events'[d[1]] # None /\ events'[d[1]].status \in {"IN_PROGRESS", "ENDED"}
    BY <1>5, <1>9, <2>1, <2>2 DEF Tracked
  <2>5. ~IsInProgress(e)'
    BY <2>2 DEF IsInProgress
  <2>6. ASSUME NEW d \in departed', IsInProgress(d[1])' PROVE Arriving(d[1], d[2])'
    <3>1. d[1] # e /\ d \in departed
      BY <2>1, <2>5, <2>6
    <3>2. IsInProgress(d[1])
      BY <1>5, <1>9, <2>6, <3>1 DEF IsInProgress
    <3>. QED
      BY <1>8, <1>9, <3>1, <3>2 DEF Arriving, RowOf
  <2>7. Clean(e).do = "clean" /\ Clean(e).event = e
    BY DEF Clean
  <2>8. WorkIsCurrent(Clean(e))'
    BY <2>5, <2>7 DEF WorkIsCurrent, StartsRow
  <2>. QED
    BY <2>1, <2>3, <2>4, <2>6, <2>8 DEF Tracked
<1>. QED
  BY <1>10, <1>11, <1>12, <1>13

LEMMA DeleteTracks ==
  ASSUME AloneInv, Tracked, NEW s \in Slots, DeleteCommits(s), ~disturbed'
  PROVE  Tracked'
<1> USE DEF AloneInv
<1>1. ops[s] \in Op /\ ops[s] # Idle /\ ops[s].pc = "delete"
  BY OpShape DEF DeleteCommits, Idle
<1>e. PICK e \in Events : e = ops[s].event
  BY <1>1 DEF Op
<1>2. work = {} /\ work' = {}
  BY RequestAlone DEF GoesOn, DeleteCommits
<1>3. \A f \in Events \ {e} : events'[f] = events[f]
  BY <1>e DEF DeleteCommits, TypeOK
<1>4. /\ trackings' = {r \in trackings : r.event # e}
      /\ departed' = {d \in departed : d[1] # e}
  BY <1>e DEF DeleteCommits
<1>5. /\ \A r \in trackings' : r.event \in Events \ {e} /\ IsInProgress(r.event)
      /\ \A d \in departed' : d[1] \in Events \ {e}
  BY <1>2, <1>4 DEF Tracked, TypeOK, TrackingTypeOK, Tracking
<1>6. \A r \in trackings' : IsInProgress(r.event)'
  BY <1>3, <1>5 DEF IsInProgress
<1>7. \A d \in departed' :
        events'[d[1]] # None /\ events'[d[1]].status \in {"IN_PROGRESS", "ENDED"}
  BY <1>3, <1>4, <1>5 DEF Tracked
<1>8. ASSUME NEW d \in departed', IsInProgress(d[1])'
      PROVE  Arriving(d[1], d[2])'
  <2>1. IsInProgress(d[1]) /\ d[1] # e
    BY <1>3, <1>5, <1>8 DEF IsInProgress
  <2>2. RowOf(d[1], d[2]) # {}
    BY <1>2, <1>4, <2>1 DEF Tracked, Arriving
  <2>3. RowOf(d[1], d[2])' = RowOf(d[1], d[2])
    BY <1>4, <2>1 DEF RowOf
  <2>. QED
    BY <2>2, <2>3 DEF Arriving
<1>. QED
  BY <1>2, <1>6, <1>7, <1>8 DEF Tracked

\* A position that moves is of an event in progress.
LEMMA PatchTracks ==
  ASSUME AloneInv, Tracked, NEW r \in trackings, NEW p \in Positions,
         PatchLocation(r, p), work = {}
  PROVE  Tracked'
<1> DEFINE row == [r EXCEPT !.position = p]
           w == [do |-> "update", row |-> row]
<1>1. r \in Tracking
  BY DEF AloneInv, TypeOK, TrackingTypeOK
<1>2. row.id = r.id /\ row.event = r.event /\ row.user = r.user
  BY <1>1 DEF Tracking
<1>3. work' = {w} /\ UNCHANGED <<trackings, events, departed>>
  BY DEF PatchLocation, UpdateLocation, bookingVars
<1> HIDE DEF row
<1>4. /\ w.do = "update" /\ EventOf(w) = r.event /\ w.row = row
  BY <1>2 DEF EventOf
<1> HIDE DEF w
<1>5. IsInProgress(r.event)
  BY DEF Tracked
<1>6. \A q \in trackings' : IsInProgress(q.event)'
  BY <1>3 DEF Tracked, IsInProgress
<1>7. \A d \in departed' :
        events'[d[1]] # None /\ events'[d[1]].status \in {"IN_PROGRESS", "ENDED"}
  BY <1>3 DEF Tracked
<1>8. \A d \in departed' : IsInProgress(d[1])' => RowOf(d[1], d[2])' # {}
  BY <1>3 DEF Tracked, Arriving, IsInProgress, RowOf
<1>9. WorkIsCurrent(w)'
  BY <1>2, <1>3, <1>4, <1>5 DEF WorkIsCurrent, IsInProgress, EventOf
<1>. QED
  BY <1>3, <1>6, <1>7, <1>8, <1>9 DEF Tracked, Arriving

\* The only work in flight is done, or goes on.
LEMMA ChecksTrack ==
  ASSUME AloneInv, Tracked, NEW w \in work, work = {w}, NEW i \in RowIds,
         CreateChecks(w, i, IsInProgress(w.event)),
         UNCHANGED <<bookingVars, disturbed>>
  PROVE  Tracked'
<1> DEFINE row == [id |-> i, event |-> w.event, user |-> w.user, position |-> None]
           x == [do |-> "insert", row |-> row]
<1>1. w.do = "check" /\ EventOf(w) = w.event /\ UserOf(w) = w.user
  BY WorkShape DEF CreateChecks, AloneInv
<1>2. IsInProgress(w.event)
  BY <1>1 DEF Tracked, WorkIsCurrent, StartsRow
<1>3. work' = {x} /\ UNCHANGED <<trackings, events, departed>>
  BY <1>2 DEF CreateChecks, Then, bookingVars
<1>4. x.do = "insert" /\ EventOf(x) = w.event /\ UserOf(x) = w.user /\ x.row.id = i
  BY DEF EventOf, UserOf
<1>5. \A r \in trackings : r.id # i
  BY DEF CreateChecks, FreshRow
<1> HIDE DEF x
<1>6. \A r \in trackings' : IsInProgress(r.event)'
  BY <1>1, <1>3 DEF Tracked, IsInProgress, Clean
<1>7. \A d \in departed' :
        events'[d[1]] # None /\ events'[d[1]].status \in {"IN_PROGRESS", "ENDED"}
  BY <1>3 DEF Tracked
<1>8. ASSUME NEW d \in departed', IsInProgress(d[1])' PROVE Arriving(d[1], d[2])'
  <2>1. Arriving(d[1], d[2])
    BY <1>3, <1>8 DEF Tracked, IsInProgress
  <2>2. RowOf(d[1], d[2]) # {} \/ (d[1] = w.event /\ d[2] = w.user)
    BY <1>1, <2>1 DEF Arriving
  <2>. QED
    BY <1>3, <1>4, <2>2 DEF Arriving, RowOf, EventOf, UserOf
<1>9. WorkIsCurrent(x)'
  BY <1>2, <1>3, <1>4, <1>5 DEF WorkIsCurrent, IsInProgress, EventOf
<1>. QED
  BY <1>3, <1>6, <1>7, <1>8, <1>9 DEF Tracked

LEMMA StoresTrack ==
  ASSUME AloneInv, RowIdsApart, Tracked, NEW w \in work, work = {w},
         SaveTracking(w, events[EventOf(w)] # None),
         UNCHANGED <<bookingVars, disturbed>>
  PROVE  Tracked'
<1> DEFINE row == w.row
<1>1. /\ row \in Tracking /\ w.do \in {"insert", "update"}
      /\ EventOf(w) = row.event /\ UserOf(w) = row.user
  BY WorkShape DEF SaveTracking, AloneInv
<1>2. IsInProgress(row.event)
  BY <1>1 DEF Tracked, WorkIsCurrent, StartsRow
<1>3. UNCHANGED <<events, departed>> /\ work' = {}
  BY DEF SaveTracking, Done, bookingVars
<1>4. \/ trackings' = trackings /\ RowOf(row.event, row.user) # {}
      \/ trackings' = {r \in trackings : r.id # row.id} \cup {row}
  BY <1>1, <1>2 DEF SaveTracking, IsInProgress, Conflicting
\* A row that gives way is of the same event and user.
<1>5. \A r \in trackings : r.id = row.id => r.event = row.event /\ r.user = row.user
  BY <1>1 DEF Tracked, WorkIsCurrent, RowIdsApart
<1>6. \A r \in trackings' : IsInProgress(r.event)'
  <2>1. \A r \in trackings : IsInProgress(r.event)
    BY <1>1 DEF Tracked, Clean
  <2>. QED
    BY <1>2, <1>3, <1>4, <2>1 DEF IsInProgress
<1>7. \A d \in departed' :
        events'[d[1]] # None /\ events'[d[1]].status \in {"IN_PROGRESS", "ENDED"}
  BY <1>3 DEF Tracked
<1>8. ASSUME NEW d \in departed', IsInProgress(d[1])'
      PROVE  RowOf(d[1], d[2])' # {}
  <2>1. Arriving(d[1], d[2])
    BY <1>3, <1>8 DEF Tracked, IsInProgress
  <2>2. RowOf(d[1], d[2]) # {} \/ (d[1] = row.event /\ d[2] = row.user)
    BY <1>1, <2>1 DEF Arriving
  <2>3. CASE trackings' = trackings /\ RowOf(row.event, row.user) # {}
    BY <2>2, <2>3 DEF RowOf
  <2>4. CASE trackings' = {r \in trackings : r.id # row.id} \cup {row}
    <3>1. CASE d[1] = row.event /\ d[2] = row.user
      BY <2>4, <3>1 DEF RowOf
    <3>2. CASE ~(d[1] = row.event /\ d[2] = row.user)
      <4>1. PICK r \in trackings : r.event = d[1] /\ r.user = d[2]
        BY <2>2, <3>2 DEF RowOf
      <4>2. r \in trackings'
        BY <1>5, <2>4, <3>2, <4>1
      <4>. QED
        BY <4>1, <4>2 DEF RowOf
    <3>. QED
      BY <3>1, <3>2
  <2>. QED
    BY <1>4, <2>3, <2>4
<1>. QED
  BY <1>3, <1>6, <1>7, <1>8 DEF Tracked, Arriving

LEMMA CleansTrack ==
  ASSUME AloneInv, Tracked, NEW w \in work, work = {w}, DeleteByEventId(w),
         UNCHANGED <<bookingVars, disturbed>>
  PROVE  Tracked'
<1>1. w.do = "clean" /\ UNCHANGED <<events, departed>> /\ work' = {}
      /\ trackings' = {r \in trackings : r.event # w.event}
  BY DEF DeleteByEventId, Done, bookingVars
<1>2. ~IsInProgress(w.event)
  BY <1>1 DEF Tracked, WorkIsCurrent
<1>3. \A r \in trackings' : IsInProgress(r.event)'
  BY <1>1 DEF Tracked, Clean, IsInProgress
<1>4. \A d \in departed' :
        events'[d[1]] # None /\ events'[d[1]].status \in {"IN_PROGRESS", "ENDED"}
  BY <1>1 DEF Tracked
<1>5. ASSUME NEW d \in departed', IsInProgress(d[1])'
      PROVE  RowOf(d[1], d[2])' # {}
  <2>1. IsInProgress(d[1]) /\ d[1] # w.event
    BY <1>1, <1>2, <1>5 DEF IsInProgress
  <2>2. RowOf(d[1], d[2]) # {}
    BY <1>1, <2>1 DEF Tracked, Arriving
  <2>. QED
    BY <1>1, <2>1, <2>2 DEF RowOf
<1>. QED
  BY <1>1, <1>3, <1>4, <1>5 DEF Tracked, Arriving

LEMMA TrackedInvariant == Spec => []TrackedInv
<1>1. Init => TrackedInv
  BY DEF Init, TrackingInit, TrackedInv, RowIdsApart, Tracked
<1>2. AloneInv /\ TrackedInv /\ [Next]_vars => TrackedInv'
  <2> SUFFICES ASSUME AloneInv, TrackedInv, [Next]_vars, ~disturbed'
               PROVE  Tracked'
    BY IdsStayApart DEF TrackedInv, AloneInv
  <2> USE DEF TrackedInv
  <2>1. ASSUME UNCHANGED <<events, departed, trackings, work>>, ~disturbed
        PROVE  Tracked'
    BY <2>1, TrackedStays DEF AloneInv, IsInProgress
  <2>2. ASSUME NEW s \in Slots, Starts(s) PROVE Tracked'
    <3>1. UNCHANGED <<events, departed, trackings, work>>
      BY <2>2, RequestBegins DEF AloneInv, Unmoved, trackingVars
    <3>. QED
      BY <2>1, <2>2, <3>1, RequestAlone DEF AloneInv
  <2>3. ASSUME NEW s \in Slots, ConflictFree(s) \/ Throw(s) PROVE Tracked'
    BY <2>1, <2>3 DEF ConflictFree, Throw, trackingVars
  <2>4. ASSUME NEW s \in Slots, Save(s) \/ DeleteCommits(s) PROVE Tracked'
    <3>1. ~disturbed
      BY <2>4 DEF Save, DeleteCommits
    <3>. QED
      BY <2>4, <3>1, SaveTracks, DeleteTracks
  <2>5. CASE UpdateMyLocation
    BY <2>5, PatchAlone, PatchTracks DEF UpdateMyLocation
  <2>6. ASSUME NEW w \in work, Handle(w) PROVE Tracked'
    BY <2>6, HandleAlone, ChecksTrack, StoresTrack, CleansTrack DEF Handle
  <2>7. CASE Crash
    BY <2>7 DEF Crash
  <2>8. CASE Tick \/ UNCHANGED vars
    BY <2>1, <2>8 DEF Tick, vars, bookingVars, trackingVars
  <2>. QED
    BY <2>2, <2>3, <2>4, <2>5, <2>6, <2>7, <2>8
       DEF Next, Starts, ConflictFound, DeleteFails
<1>. QED
  BY <1>1, <1>2, AloneInvariant, PTL DEF Spec

\* Once the handlers are done there is a row for each departure to an event
\* in progress and none of an event that is over; unless activities overlapped
\* or the process stopped.
THEOREM DeparturesAreTracked == Spec => []TrackedWhileOnTheWay
<1>1. TrackedInv => TrackedWhileOnTheWay
  BY DEF TrackedInv, Tracked, TrackedWhileOnTheWay, FindByEventId, Arriving
<1>. QED
  BY <1>1, TrackedInvariant, PTL

-----------------------------------------------------------------------------
(***************************************************************************)
(* The views.  ViewsSpec only adds members and results to the steps of     *)
(* EventBooking, and so what holds of the events holds there.  Two things  *)
(* are added: participants are finitely many, as each join adds one - or   *)
(* the results of an event could not be counted -, and results are of      *)
(* events that are there, as a deletion takes them along.                  *)
(***************************************************************************)
Few(r) == r # None => IsFiniteSet(r.participants)
FewTakePart ==
  /\ \A e \in Events : Few(events[e])
  /\ \A s \in Slots : Few(ops[s].copy)

\* What starts holds a copy of few participants.
LEMMA CopiesOfFew ==
  ASSUME TypeOK, FewTakePart, NEW s \in Slots, Starts(s)
  PROVE  \E op : Begin(s, op) /\ Few(op.copy)
<1>1. PICK op \in Op : Begin(s, op) /\ Follows(op)
  BY RequestBegins
<1>2. op.event \in Events
  BY DEF Op
<1> DEFINE row == events[op.event]
<1>3. CASE op.kind \in {"create", "update"}
  <2>1. PICK u : op.copy.participants = {u}
    BY <1>1, <1>3 DEF Follows
  <2>2. IsFiniteSet(op.copy.participants)
    BY <2>1, FS_Singleton
  <2>. QED
    BY <1>1, <2>2 DEF Few
<1>4. CASE op.kind \notin {"create", "update"}
  <2>1. row # None /\ op.copy.participants \subseteq row.participants \cup {op.user}
    BY <1>1, <1>4 DEF Follows
  <2>2. IsFiniteSet(row.participants)
    BY <1>2, <2>1 DEF FewTakePart, Few
  <2>3. IsFiniteSet(row.participants \cup {op.user})
    BY <2>2, FS_AddElement
  <2>4. IsFiniteSet(op.copy.participants)
    BY <2>1, <2>3, FS_Subset
  <2>. QED
    BY <1>1, <2>4 DEF Few
<1>. QED
  BY <1>3, <1>4

\* A save adds those of a copy to those of a row.
LEMMA SavesFew ==
  ASSUME TypeOK, FewTakePart, NEW s \in Slots, Save(s)
  PROVE  FewTakePart'
<1> DEFINE op == ops[s]
           row == Saved(op.event, op.copy, op.removed)
<1>1. op.event \in Events /\ op.copy \in EventRow
  BY OpShape DEF Save, Op, Idle
<1>2. events' = [events EXCEPT ![op.event] = row] /\ Return(s)
  BY DEF Save
<1>3. IsFiniteSet(op.copy.participants)
  BY <1>1, NoneIsNoEventRow DEF FewTakePart, Few
<1>4. Few(row)
  <2>1. CASE events[op.event] = None
    BY <1>3, <2>1 DEF Saved, Few
  <2>2. CASE events[op.event] # None
    <3>1. IsFiniteSet(events[op.event].participants)
      BY <1>1, <2>2 DEF FewTakePart, Few
    <3>2. IsFiniteSet(op.copy.participants \cup (events[op.event].participants \ op.removed))
      BY <1>3, <3>1, FS_Subset, FS_Union
    <3>3. row.participants =
            op.copy.participants \cup (events[op.event].participants \ op.removed)
      BY <1>1, <2>2, SavedRow
    <3>. QED
      BY <3>2, <3>3 DEF Few
  <2>. QED
    BY <2>1, <2>2
<1> HIDE DEF row
<1>5. \A e \in Events : events'[e] = events[e] \/ events'[e] = row
  BY <1>2 DEF TypeOK
<1>6. \A t \in Slots : ops'[t] = ops[t] \/ ops'[t].copy = None
  BY <1>2 DEF Return, TypeOK, Idle
<1>. QED
  BY <1>4, <1>5, <1>6 DEF FewTakePart, Few

LEMMA FewKept ==
  ASSUME TypeOK, FewTakePart, [Next]_vars
  PROVE  FewTakePart'
<1>1. ASSUME \A e \in Events : Few(events'[e]) \/ events'[e] = events[e],
             \A s \in Slots : Few(ops'[s].copy) \/ ops'[s].copy = ops[s].copy
      PROVE  FewTakePart'
  BY <1>1 DEF FewTakePart, Few
<1>2. ASSUME NEW s \in Slots, Return(s)
      PROVE  \A t \in Slots : Few(ops'[t].copy) \/ ops'[t].copy = ops[t].copy
  BY <1>2 DEF Return, TypeOK, Idle, Few
<1>3. ASSUME NEW s \in Slots, Starts(s) PROVE FewTakePart'
  <2>1. PICK op : Begin(s, op) /\ Few(op.copy)
    BY <1>3, CopiesOfFew
  <2>2. UNCHANGED events
    BY <1>3, RequestBegins DEF Unmoved
  <2>3. \A t \in Slots : ops'[t] = op \/ ops'[t] = ops[t]
    BY <2>1 DEF Begin, TypeOK
  <2>. QED
    BY <1>1, <2>1, <2>2, <2>3
<1>4. ASSUME NEW s \in Slots, ConflictFree(s) PROVE FewTakePart'
  <2>1. ops[s] \in Op
    BY <1>4, OpShape DEF ConflictFree, Idle
  <2>2. [ops[s] EXCEPT !.pc = "save"].copy = ops[s].copy
    BY <2>1 DEF Op
  <2>. QED
    BY <1>1, <1>4, <2>2 DEF ConflictFree, TypeOK
<1>5. ASSUME NEW s \in Slots, Throw(s) PROVE FewTakePart'
  BY <1>1, <1>2, <1>5 DEF Throw
<1>6. ASSUME NEW s \in Slots, DeleteCommits(s) PROVE FewTakePart'
  <2>1. \A e \in Events : events'[e] = None \/ events'[e] = events[e]
    BY <1>6 DEF DeleteCommits, TypeOK
  <2>. QED
    BY <1>1, <1>2, <1>6, <2>1 DEF DeleteCommits, Few
<1>7. CASE Crash
  <2>1. \A s \in Slots : ops'[s].copy = None
    BY <1>7 DEF Crash, Idle
  <2>. QED
    BY <1>1, <1>7, <2>1 DEF Crash, Few
<1>8. ASSUME UNCHANGED <<events, ops>> PROVE FewTakePart'
  BY <1>1, <1>8
<1>. QED
  BY <1>3, <1>4, <1>5, <1>6, <1>7, <1>8, SavesFew
     DEF Next, Starts, ConflictFound, DeleteFails, UpdateMyLocation, PatchLocation,
         Handle, Tick, bookingVars, vars

\* Only a deletion takes an event away.
LEMMA EventsStay ==
  ASSUME TypeOK, BookingInv, [Next]_vars, \A s \in Slots : ~DeleteCommits(s),
         NEW e \in Events, events[e] # None
  PROVE  events'[e] # None
<1>1. ASSUME NEW s \in Slots, Save(s) PROVE events'[e] # None
  <2> DEFINE row == Saved(ops[s].event, ops[s].copy, ops[s].removed)
  <2>1. ops[s].event \in Events /\ ops[s].copy \in EventRow
    BY <1>1, OpShape DEF Save, Op, Idle
  <2>2. row # None
    BY <2>1, SavedRow
  <2>3. events' = [events EXCEPT ![ops[s].event] = row]
    BY <1>1 DEF Save
  <2> HIDE DEF row
  <2>. QED
    BY <2>2, <2>3 DEF TypeOK
<1>2. ASSUME NEW s \in Slots, Starts(s) PROVE UNCHANGED events
  BY <1>2, RequestBegins DEF Unmoved
<1>. QED
  BY <1>1, <1>2
     DEF Next, Starts, ConflictFree, ConflictFound, DeleteFails, Throw,
         UpdateMyLocation, PatchLocation, Handle, Crash, Tick, bookingVars, vars

ViewInv ==
  /\ TypeOK /\ BookingInv /\ FewTakePart
  /\ members \in [Groups -> SUBSET Users]
  /\ results \subseteq ResultRow /\ IsFiniteSet(results)
  /\ \A x \in results : events[x.event] # None

\* The end of an event adds a result for each of few participants.
LEMMA EndsKeepResults ==
  ASSUME ViewInv, NEW s \in Slots, NEW a \in [Users -> Result],
         EndsWithResults(s, a)
  PROVE  /\ [Next]_vars /\ UNCHANGED members
         /\ results' \subseteq ResultRow /\ IsFiniteSet(results')
         /\ \A x \in results' : events'[x.event] # None
<1>1. Save(s) /\ UNCHANGED members
  BY DEF EndsWithResults, EndSaves
<1>2. ops[s] \in Op /\ ops[s] # Idle
  BY <1>1, OpShape DEF ViewInv, Save, Idle
<1>e. PICK e \in Events : e = ops[s].event
  BY <1>2 DEF Op
<1> DEFINE n == Cardinality(ResultsOf(e))
           P == ops[s].copy.participants
           row(u) == [event |-> e, user |-> u, result |-> a[u], before |-> n]
           added == {row(u) : u \in P}
<1>3. results' = results \cup added
  BY <1>e DEF EndsWithResults
<1>4. n \in Nat
  BY FS_Subset, FS_CardinalityType DEF ViewInv, ResultsOf
<1>5. P \subseteq Users /\ IsFiniteSet(P)
  <2>1. ops[s].copy \in EventRow
    BY <1>2 DEF Op
  <2>. QED
    BY <2>1, NoneIsNoEventRow DEF ViewInv, EventRow, FewTakePart, Few
<1> HIDE DEF n, P
<1>6. added \subseteq ResultRow /\ \A x \in added : x.event = e
  BY <1>4, <1>5 DEF ResultRow
<1>7. IsFiniteSet(added)
  <2> DEFINE f == [u \in P |-> row(u)]
  <2>1. f \in Surjection(P, added)
    BY DEF Surjection
  <2> HIDE DEF f, added
  <2>. QED
    BY <1>5, <2>1, FS_Surjection
<1> HIDE DEF added
<1>8. [Next]_vars /\ \A t \in Slots : ~DeleteCommits(t)
  <2>1. ASSUME NEW t \in Slots, DeleteCommits(t) PROVE FALSE
    <3>1. ops'[s] = Idle /\ ops'[t] = Idle /\ (t # s => ops'[s] = ops[s])
      BY <1>1, <2>1 DEF Save, DeleteCommits, Return, ViewInv, TypeOK
    <3>2. t = s
      BY <1>2, <3>1
    <3>. QED
      BY <1>1, <2>1, <3>2 DEF Save, DeleteCommits
  <2>. QED
    BY <1>1, <2>1 DEF Next
<1>9. \A f \in Events : events[f] # None => events'[f] # None
  BY <1>8, EventsStay DEF ViewInv
<1>10. events'[e] # None
  <2> DEFINE r == Saved(ops[s].event, ops[s].copy, ops[s].removed)
  <2>1. r # None
    BY <1>2, SavedRow DEF Op, ViewInv
  <2>2. events' = [events EXCEPT ![ops[s].event] = r]
    BY <1>1 DEF Save
  <2> HIDE DEF r
  <2>. QED
    BY <1>e, <2>1, <2>2 DEF ViewInv, TypeOK
<1>11. results' \subseteq ResultRow /\ IsFiniteSet(results')
  BY <1>3, <1>6, <1>7, FS_Union DEF ViewInv
<1>12. \A x \in results' : events'[x.event] # None
  BY <1>3, <1>6, <1>9, <1>10 DEF ViewInv, ResultRow
<1>. QED
  BY <1>1, <1>8, <1>11, <1>12

LEMMA ViewKept ==
  ASSUME ViewInv, [ViewsNext]_viewVars
  PROVE  ViewInv'
<1>1. ASSUME [Next]_vars, members' \in [Groups -> SUBSET Users],
             results' \subseteq ResultRow, IsFiniteSet(results'),
             \A x \in results' : events'[x.event] # None
      PROVE  ViewInv'
  BY <1>1, BookingKept, FewKept DEF ViewInv
<1>2. ASSUME UNCHANGED <<vars, results>>, members' \in [Groups -> SUBSET Users]
      PROVE  ViewInv'
  <2>1. events' = events /\ results' = results
    BY <1>2 DEF vars, bookingVars
  <2>. QED
    BY <1>1, <1>2, <2>1 DEF ViewInv
<1>3. ASSUME NEW g \in Groups, NEW u \in Users, JoinsGroup(g, u) \/ LeavesGroup(g, u)
      PROVE  ViewInv'
  <2>1. members' \in [Groups -> SUBSET Users]
    BY <1>3 DEF JoinsGroup, LeavesGroup, ViewInv
  <2>. QED
    BY <1>2, <1>3, <2>1 DEF JoinsGroup, LeavesGroup
<1>4. ASSUME NEW s \in Slots, NEW a \in [Users -> Result], EndsWithResults(s, a)
      PROVE  ViewInv'
  BY <1>1, <1>4, EndsKeepResults DEF ViewInv
<1>5. ASSUME NEW s \in Slots, DeletesWithResults(s) PROVE ViewInv'
  <2>1. results' = {x \in results : x.event # ops[s].event} /\ UNCHANGED members
    BY <1>5 DEF DeletesWithResults, ResultsOf
  <2>2. \A e \in Events : e # ops[s].event => events'[e] = events[e]
    BY <1>5 DEF DeletesWithResults, DeleteCommits, ViewInv, TypeOK
  <2>3. results' \subseteq ResultRow /\ IsFiniteSet(results')
    BY <2>1, FS_Subset DEF ViewInv
  <2>4. \A x \in results' : events'[x.event] # None
    BY <2>1, <2>2 DEF ViewInv, ResultRow
  <2>5. [Next]_vars
    BY <1>5 DEF DeletesWithResults, Next
  <2>. QED
    BY <1>1, <2>1, <2>3, <2>4, <2>5 DEF ViewInv
<1>6. CASE Next /\ ~ChangesResults /\ UNCHANGED <<members, results>>
  <2>1. \A x \in results : events'[x.event] # None
    BY <1>6, EventsStay DEF ChangesResults, ViewInv, ResultRow
  <2>. QED
    BY <1>1, <1>6, <2>1 DEF ViewInv
<1>7. CASE UNCHANGED viewVars
  BY <1>2, <1>7 DEF viewVars, ViewInv
<1>. QED
  BY <1>3, <1>4, <1>5, <1>6, <1>7 DEF ViewsNext

LEMMA ViewStarts ==
  ASSUME ViewsInit
  PROVE  ViewInv
<1>1. TypeOK /\ BookingInv
  BY BookingStarts DEF ViewsInit
<1>2. FewTakePart
  BY DEF ViewsInit, Init, FewTakePart, Few, Idle
<1>3. results = {} /\ members \in [Groups -> SUBSET Users]
  BY DEF ViewsInit
<1>4. IsFiniteSet({})
  BY FS_EmptySet
<1>. QED
  BY <1>1, <1>2, <1>3, <1>4 DEF ViewInv

LEMMA ViewInvariant == ViewsSpec => []ViewInv
<1>1. ViewsInit => ViewInv
  BY ViewStarts
<1>2. ViewInv /\ [ViewsNext]_viewVars => ViewInv'
  BY ViewKept
<1>. QED
  BY <1>1, <1>2, PTL DEF ViewsSpec

\* With members and results the events behave as EventBooking has them, so
\* what is proved of its Spec holds of what users are shown.
THEOREM ViewsShowTheEvents == ViewsSpec => Spec
<1>1. ViewsInit => Init
  BY DEF ViewsInit
<1>2. ViewInv /\ [ViewsNext]_viewVars => [Next]_vars
  <2>1. ASSUME NEW s \in Slots, DeletesWithResults(s) PROVE Next
    BY <2>1 DEF DeletesWithResults, Next
  <2>. QED
    BY <2>1, EndsKeepResults DEF ViewsNext, JoinsGroup, LeavesGroup, viewVars
<1>. QED
  BY <1>1, <1>2, ViewInvariant, PTL DEF ViewsSpec, Spec

\* The views of the calendar, of lists and of details.
LEMMA DayOfTime ==
  ASSUME NEW t \in Nat, NEW d \in Int
  PROVE  /\ KstDay(t) \in Nat
         /\ KstDay(t) = d <=> StartOfDay(d) <= t /\ t <= EndOfDay(d)
<1> DEFINE n == t + Offset
<1>1. n \in Nat /\ DayLength \in Nat \ {0} /\ Offset \in Nat
  BY CalendarIsSane
<1>2. n \div DayLength \in Nat
      /\ (n \div DayLength = d <=> (d * DayLength <= n /\ n < d * DayLength + DayLength))
  BY <1>1
<1>3. (d + 1) * DayLength = d * DayLength + DayLength /\ d * DayLength \in Int
  BY <1>1
<1> DEFINE q == n \div DayLength
           p == d * DayLength
<1>4. KstDay(t) = q
  BY DEF KstDay
<1>5. StartOfDay(d) = p - Offset /\ EndOfDay(d) = p + DayLength - Offset - 1
  BY <1>1, <1>3 DEF StartOfDay, EndOfDay
<1> HIDE DEF q, p
<1>6. q \in Nat /\ p \in Int
      /\ (q = d <=> (p <= n /\ n < p + DayLength))
  BY <1>2, <1>3 DEF q, p
<1>. QED
  BY <1>1, <1>4, <1>5, <1>6

LEMMA DayInItsMonth ==
  ASSUME NEW d \in Nat
  PROVE  /\ MonthOf(d) \in Nat
         /\ StartOfDay(FirstDay(MonthOf(d))) <= StartOfDay(d)
         /\ EndOfDay(d) <= EndOfDay(LastDay(MonthOf(d)))
         /\ {StartOfDay(FirstDay(MonthOf(d))), StartOfDay(d),
             EndOfDay(d), EndOfDay(LastDay(MonthOf(d)))} \subseteq Int
<1> DEFINE m == MonthOf(d)
           first == m * MonthLength
           last == (m + 1) * MonthLength - 1
<1>1. /\ DayLength \in Nat \ {0} /\ MonthLength \in Nat \ {0} /\ Offset \in Nat
  BY CalendarIsSane
<1>2. m \in Nat /\ first \in Nat /\ first <= d
      /\ last \in Int /\ d <= last
  BY <1>1 DEF MonthOf
<1>3. FirstDay(m) = first /\ LastDay(m) = last
  BY DEF FirstDay, LastDay
<1> HIDE DEF m, first, last
<1>4. /\ first * DayLength <= d * DayLength
      /\ (d + 1) * DayLength <= (last + 1) * DayLength
      /\ {first * DayLength, d * DayLength, (d + 1) * DayLength,
          (last + 1) * DayLength} \subseteq Int
  BY <1>1, <1>2
<1>5. /\ StartOfDay(first) <= StartOfDay(d) /\ EndOfDay(d) <= EndOfDay(last)
      /\ {StartOfDay(first), StartOfDay(d), EndOfDay(d), EndOfDay(last)} \subseteq Int
  BY <1>1, <1>4 DEF StartOfDay, EndOfDay
<1>. QED
  BY <1>2, <1>3, <1>5 DEF m

\* An event that is there has a time, in the group it is of.
LEMMA ShownTime ==
  ASSUME ViewInv, NEW e \in Events, events[e] # None
  PROVE  /\ TimeOf(e) \in Nat /\ KstDay(TimeOf(e)) \in Days
         /\ events[e].group \in Groups
<1>1. events[e] \in EventRow
  BY DEF ViewInv, TypeOK
<1>2. events[e].checkTime \in CheckTimes /\ events[e].checkTime \in Nat
  BY <1>1, BookingBounds DEF EventRow
<1>. QED
  BY <1>1, <1>2 DEF TimeOf, EventTime, Days, EventRow

LEMMA DaysAreNumbers ==
  ASSUME NEW d \in Days
  PROVE  d \in Nat
<1>1. PICK t \in CheckTimes : d = KstDay(EventTime(t))
  BY DEF Days
<1>2. EventTime(t) \in Nat
  BY BookingBounds DEF EventTime
<1>. QED
  BY <1>1, <1>2, DayOfTime

\* A day's list is of the events whose day it is, and so is what marks it.
LEMMA ListedOnItsDay ==
  ASSUME ViewInv, NEW u \in Users, NEW d \in Days, NEW e \in Events
  PROVE  e \in FindCalendarEventList(u, d)
           <=> e \in OfMembers(u) /\ InCalendar(e) /\ KstDay(TimeOf(e)) = d
<1>1. d \in Int
  BY DaysAreNumbers
<1>2. e \in OfMembers(u) => TimeOf(e) \in Nat
  BY ShownTime DEF OfMembers
<1>. QED
  BY <1>1, <1>2, DayOfTime DEF FindCalendarEventList, Between

LEMMA MarkedWhenListed ==
  ASSUME ViewInv, NEW u \in Users, NEW d \in Days
  PROVE  d \in FindCalendarMarkedDates(u, MonthOf(d))
           <=> FindCalendarEventList(u, d) # {}
<1>1. d \in Nat /\ d \in Int
  BY DaysAreNumbers
<1>2. ASSUME NEW e \in OfMembers(u), KstDay(TimeOf(e)) = d
      PROVE  Between(e, StartOfDay(FirstDay(MonthOf(d))), EndOfDay(LastDay(MonthOf(d))))
  <2>1. e \in Events /\ TimeOf(e) \in Nat
    BY ShownTime DEF OfMembers
  <2>2. StartOfDay(d) <= TimeOf(e) /\ TimeOf(e) <= EndOfDay(d)
    BY <1>1, <1>2, <2>1, DayOfTime
  <2>. QED
    BY <1>1, <2>1, <2>2, DayInItsMonth DEF Between
<1>3. d \in FindCalendarMarkedDates(u, MonthOf(d))
        <=> \E e \in OfMembers(u) : InCalendar(e) /\ KstDay(TimeOf(e)) = d
  BY <1>2 DEF FindCalendarMarkedDates
<1>4. \A e \in FindCalendarEventList(u, d) : e \in OfMembers(u)
  BY DEF FindCalendarEventList
<1>. QED
  BY <1>3, <1>4, ListedOnItsDay DEF OfMembers

LEMMA ViewsAgree ==
  ASSUME ViewInv
  PROVE  MarkedListedAndOpen
<1> SUFFICES ASSUME NEW u \in Users, NEW e \in Events
             PROVE
       LET listed == {d \in Days : e \in FindCalendarEventList(u, d)} IN
         /\ listed # {} => FindDetail(e, u) /\ Cardinality(listed) = 1
         /\ FindEventResult(e, u) => e \in FindList(u, events[e].group, "ENDED")
         /\ FindDetail(e, u) =>
              (FindEventResult(e, u) <=> events[e].status = "ENDED")
         /\ FindLocationsByEvent(e, u) # None <=> FindDetail(e, u)
         /\ \A g \in Groups : e \in FindActiveEventByGroupId(g, u) => FindDetail(e, u)
         /\ \A row \in FindGroupList(u) : e \in row.lastEnded => FindEventResult(e, u)
  BY MarkedWhenListed DEF MarkedListedAndOpen
<1> DEFINE listed == {d \in Days : e \in FindCalendarEventList(u, d)}
<1>1. listed # {} => FindDetail(e, u) /\ Cardinality(listed) = 1
  <2> SUFFICES ASSUME listed # {} PROVE FindDetail(e, u) /\ Cardinality(listed) = 1
    OBVIOUS
  <2>1. e \in OfMembers(u) /\ InCalendar(e)
    BY ListedOnItsDay
  <2>2. KstDay(TimeOf(e)) \in Days
    BY <2>1, ShownTime DEF OfMembers
  <2>3. listed = {KstDay(TimeOf(e))}
    BY <2>1, <2>2, ListedOnItsDay
  <2> HIDE DEF listed
  <2>. QED
    BY <2>1, <2>3, FS_Singleton DEF FindDetail
<1>2. FindLocationsByEvent(e, u) # None <=> FindDetail(e, u)
  <2>1. FindDetail(e, u) <=> IsGroupMemberOfEvent(e, u)
    BY ShownTime DEF FindDetail, OfMembers, IsGroupMemberOfEvent
  <2>2. IsGroupMemberOfEvent(e, u) => <<FindByEventId(e), TimeOf(e)>> # None
    <3>1. FindByEventId(e) \in SUBSET Tracking
      BY DEF FindByEventId, ViewInv, TypeOK, TrackingTypeOK
    <3>2. IsGroupMemberOfEvent(e, u) => TimeOf(e) \in Nat
      BY ShownTime DEF IsGroupMemberOfEvent
    <3>. QED
      BY <3>1, <3>2, NoneIsNoView
  <2>. QED
    BY <2>1, <2>2 DEF FindLocationsByEvent
<1>3. \A row \in FindGroupList(u) : e \in row.lastEnded => FindEventResult(e, u)
  BY DEF FindGroupList, LastEndedEvent, FindEventResult, OfMembers
<1>4. \A g \in Groups : e \in FindActiveEventByGroupId(g, u) => FindDetail(e, u)
  BY DEF FindActiveEventByGroupId, FindList, FindDetail
<1>5. FindEventResult(e, u) => e \in FindList(u, events[e].group, "ENDED")
  BY DEF FindEventResult, FindList
<1>6. FindDetail(e, u) => (FindEventResult(e, u) <=> events[e].status = "ENDED")
  BY DEF FindDetail, FindEventResult
<1>. QED
  BY <1>1, <1>2, <1>3, <1>4, <1>5, <1>6

\* For every length of days and months and every offset, as members come and
\* go and events are held, cancelled and deleted, disturbed or not: a day is
\* marked exactly when its list names an event, an event is listed on one day,
\* and what a list names can be opened by its members and nobody else.
THEOREM WhatIsListedOpens == ViewsSpec => []MarkedListedAndOpen
BY ViewInvariant, ViewsAgree, PTL

-----------------------------------------------------------------------------
\* Sets that share nothing count as many together as one by one.
AllOf(G, S) == UNION {S[g] : g \in G}
RanksOf(G, S) == UNION {{<<g, i>> : i \in 1..Cardinality(S[g])} : g \in G}
LEMMA CountedApart ==
  ASSUME NEW G, NEW S, \A g, h \in G : g # h => S[g] \cap S[h] = {},
         IsFiniteSet(AllOf(G, S))
  PROVE  Cardinality(AllOf(G, S)) = Cardinality(RanksOf(G, S))
<1> DEFINE all == AllOf(G, S)
           pairs == RanksOf(G, S)
           Ranks(g) == 1..Cardinality(S[g])
           nth == [g \in G |-> CHOOSE f : f \in Bijection(Ranks(g), S[g])]
           at == [p \in pairs |-> nth[p[1]][p[2]]]
<1>1. \A g \in G : nth[g] \in Bijection(Ranks(g), S[g])
  <2> SUFFICES ASSUME NEW g \in G
               PROVE  \E f : f \in Bijection(Ranks(g), S[g])
    OBVIOUS
  <2>1. S[g] \subseteq all
    BY DEF AllOf
  <2>2. ExistsBijection(Ranks(g), S[g])
    BY <2>1, FS_Subset, FS_CardinalityType
  <2>. QED
    BY <2>2 DEF ExistsBijection
<1>0. /\ \A x : x \in all <=> \E g \in G : x \in S[g]
      /\ \A p : p \in pairs <=> \E g \in G : \E i \in Ranks(g) : p = <<g, i>>
  BY DEF AllOf, RanksOf
<1> HIDE DEF nth, Ranks, all, pairs
<1>2. \A g \in G : /\ \A i \in Ranks(g) : nth[g][i] \in S[g]
                   /\ \A i, j \in Ranks(g) : nth[g][i] = nth[g][j] => i = j
                   /\ \A x \in S[g] : \E i \in Ranks(g) : nth[g][i] = x
  BY <1>1 DEF Bijection, Injection, IsInjective, Surjection
<1>3. \A p \in pairs : \E g \in G : \E i \in Ranks(g) :
        p = <<g, i>> /\ p[1] = g /\ p[2] = i
  BY <1>0
<1>4. \A g \in G : \A i \in Ranks(g) : <<g, i>> \in pairs
  BY <1>0
<1>5. \A p \in pairs : at[p] \in all
  BY <1>0, <1>2, <1>3
<1>6. \A p, q \in pairs : at[p] = at[q] => p = q
  <2> SUFFICES ASSUME NEW p \in pairs, NEW q \in pairs, at[p] = at[q]
               PROVE  p = q
    OBVIOUS
  <2>1. PICK g \in G : \E i \in Ranks(g) : p = <<g, i>> /\ p[1] = g /\ p[2] = i
    BY <1>3
  <2>2. PICK h \in G : \E i \in Ranks(h) : q = <<h, i>> /\ q[1] = h /\ q[2] = i
    BY <1>3
  <2>3. at[p] \in S[g] /\ at[q] \in S[h]
    BY <1>2, <2>1, <2>2
  <2>4. g = h
    BY <2>3
  <2>. QED
    BY <1>2, <2>1, <2>2, <2>4
<1>7. \A x \in all : \E p \in pairs : at[p] = x
  <2> SUFFICES ASSUME NEW g \in G, NEW x \in S[g]
               PROVE  \E p \in pairs : at[p] = x
    BY <1>0
  <2>1. PICK i \in Ranks(g) : nth[g][i] = x
    BY <1>2
  <2>2. <<g, i>> \in pairs /\ at[<<g, i>>] = x
    BY <1>4, <2>1
  <2>. QED
    BY <2>2
<1>8. at \in Bijection(pairs, all)
  BY <1>5, <1>6, <1>7 DEF Bijection, Injection, IsInjective, Surjection
<1>9. ExistsBijection(all, pairs)
  BY <1>8, Fun_ExistsBijSymmetric DEF ExistsBijection
<1>. QED
  BY <1>9, FS_Bijection DEF all, pairs

\* No rate exceeds 100 percent.
LEMMA RatesAreRates ==
  ASSUME NEW counts, \A r \in Result : counts[r] \in Nat
  PROVE  AttendanceRate(counts) <= 100
<1> DEFINE a == counts["ARRIVED"]
           l == counts["LATE"]
           b == counts["ABSENT"]
<1>1. a \in Nat /\ l \in Nat /\ b \in Nat
  BY DEF Result
<1>2. Total(counts) = a + l + b
  BY DEF Total
<1> HIDE DEF a, l, b
<1> DEFINE n == a + l + b
           q == (a * 100) \div n
<1>3. CASE n > 0
  <2>1. n \in Nat \ {0} /\ a <= n
    BY <1>1, <1>3
  <2> HIDE DEF n
  <2>2. q \in Nat /\ q * n <= a * 100 /\ a * 100 <= 100 * n
    BY <1>1, <2>1
  <2>3. q <= 100
    <3> SUFFICES ASSUME q >= 101 PROVE FALSE
      BY <2>2
    <3> HIDE DEF q
    <3>1. 101 * n <= q * n
      BY <2>1, <2>2
    <3>. QED
      BY <1>1, <2>1, <2>2, <3>1
  <2>. QED
    BY <1>2, <1>3, <2>3 DEF AttendanceRate, a, n
<1>4. CASE ~(n > 0)
  BY <1>2, <1>4 DEF AttendanceRate
<1>. QED
  BY <1>3, <1>4

LEMMA CountsAddUp ==
  ASSUME ViewInv, NEW u \in Users, NEW r \in Result
  PROVE
    LET mine == {g \in Groups : u \in members[g]}
        inGroup(g) == FindMemberAttendanceStatistics(g)[u][r]
        left == {x \in results : x.user = u /\ x.result = r
                                   /\ events[x.event].group \notin mine} IN
    FindByUserId(u, r) = Cardinality(left)
      + Cardinality(UNION {{<<g, i>> : i \in 1..inGroup(g)} : g \in mine})
<1> DEFINE mine == {g \in Groups : u \in members[g]}
           inGroup(g) == FindMemberAttendanceStatistics(g)[u][r]
           left == {x \in results : x.user = u /\ x.result = r
                                      /\ events[x.event].group \notin mine}
           own == {x \in results : x.user = u /\ x.result = r}
           S == [g \in mine |-> {x \in JoinedRows(g, u) : x.result = r}]
           there == UNION {S[g] : g \in mine}
<1>1. \A g \in mine : inGroup(g) = Cardinality(S[g])
  BY DEF FindMemberAttendanceStatistics
<1>2. there \subseteq own /\ left \subseteq own
  BY DEF JoinedRows
<1>3. IsFiniteSet(own) /\ IsFiniteSet(there) /\ IsFiniteSet(left)
  <2>1. IsFiniteSet(own)
    BY FS_Subset DEF ViewInv
  <2>. QED
    BY <1>2, <2>1, FS_Subset
<1>4. \A g, h \in mine : g # h => S[g] \cap S[h] = {}
  BY DEF JoinedRows
<1>5. own = left \cup there /\ left \cap there = {}
  <2>1. \A g \in mine : \A x : x \in S[g] <=>
          x \in own /\ events[x.event] # None /\ events[x.event].group = g
    BY DEF JoinedRows
  <2> HIDE DEF S
  <2>2. \A x : x \in there <=> \E g \in mine : x \in S[g]
    OBVIOUS
  <2> HIDE DEF there
  <2>3. \A x : x \in there <=> x \in own /\ events[x.event].group \in mine
    BY <2>1, <2>2 DEF ViewInv
  <2>. QED
    BY <2>3
<1>6. Cardinality(own) = Cardinality(left) + Cardinality(there)
  <2>1. Cardinality({}) = 0
    BY FS_EmptySet
  <2>2. Cardinality(left) \in Nat /\ Cardinality(there) \in Nat
    BY <1>3, FS_CardinalityType
  <2> HIDE DEF own, left, there
  <2>. QED
    BY <1>3, <1>5, <2>1, <2>2, FS_Union
<1>7. Cardinality(AllOf(mine, S)) = Cardinality(RanksOf(mine, S))
  <2>1. IsFiniteSet(AllOf(mine, S))
    BY <1>3 DEF AllOf
  <2> HIDE DEF S, mine
  <2>. QED
    BY <1>4, <2>1, CountedApart
<1>8. /\ there = AllOf(mine, S)
      /\ UNION {{<<g, i>> : i \in 1..inGroup(g)} : g \in mine} = RanksOf(mine, S)
  <2> HIDE DEF S, mine, inGroup
  <2>. QED
    BY <1>1, Zenon DEF AllOf, RanksOf
<1>. QED
  BY <1>6, <1>7, <1>8 DEF FindByUserId

LEMMA StatisticsAgree ==
  ASSUME ViewInv
  PROVE  StatisticsAddUp
<1>1. ASSUME NEW u \in Users, NEW g \in Groups, u \in members[g]
      PROVE  AttendanceRate(FindMemberAttendanceStatistics(g)[u]) <= 100
  <2> DEFINE counts == FindMemberAttendanceStatistics(g)[u]
  <2>1. \A r \in Result : counts[r] \in Nat
    <3> SUFFICES ASSUME NEW r \in Result PROVE counts[r] \in Nat
      OBVIOUS
    <3>1. counts[r] = Cardinality({x \in JoinedRows(g, u) : x.result = r})
      BY <1>1 DEF FindMemberAttendanceStatistics
    <3>2. {x \in JoinedRows(g, u) : x.result = r} \subseteq results
      BY DEF JoinedRows
    <3>. QED
      BY <3>1, <3>2, FS_Subset, FS_CardinalityType DEF ViewInv
  <2> HIDE DEF counts
  <2>2. AttendanceRate(counts) <= 100
    BY <2>1, RatesAreRates
  <2>. QED
    BY <2>2 DEF counts
<1>2. ASSUME NEW u \in Users, NEW row \in FindGroupList(u)
      PROVE  /\ DOMAIN FindMemberAttendanceStatistics(row.group)
                  = FindGroupDetail(row.group)
             /\ row.memberCount = Cardinality(FindGroupDetail(row.group))
  <2>1. DOMAIN FindMemberAttendanceStatistics(row.group) = members[row.group]
    BY DEF FindMemberAttendanceStatistics
  <2>2. row.memberCount = Cardinality(members[row.group])
    BY <1>2 DEF FindGroupList
  <2>. QED
    BY <2>1, <2>2 DEF FindGroupDetail
<1>. QED
  BY <1>1, <1>2, CountsAddUp DEF StatisticsAddUp

\* For every number of groups, events and results: what a user's groups count
\* and what the user has left behind in others is all there is of the user,
\* and no rate exceeds 100 percent.
THEOREM AttendanceIsCountedOnce == ViewsSpec => []StatisticsAddUp
BY ViewInvariant, StatisticsAgree, PTL

-----------------------------------------------------------------------------
(***************************************************************************)
(* The limit of a group.  A creation counts the group's recruiting events  *)
(* some awaits before it saves.  As long as no activities overlap, what it *)
(* has counted is still so.  Where they do, the events that recruit are    *)
(* taken together with those of which a request or job in flight holds a   *)
(* copy that recruits, and may yet save it: a creation finds less than the *)
(* limit recruiting and adds its own event to what the other slots hold,   *)
(* one each; every other copy that recruits is of an event that did when   *)
(* it was read, and a save moves an event from the one set to the other.   *)
(***************************************************************************)
Recruiting(g) == {e \in Events : IsRecruiting(events[e]) /\ events[e].group = g}
Creating(s, g) == ops[s].kind = "create" /\ ops[s].copy.group = g
Limited ==
  ~disturbed => \A g \in Groups :
    /\ IsFiniteSet(Recruiting(g)) /\ Cardinality(Recruiting(g)) <= MaxRecruiting
    /\ \A s \in Slots : Creating(s, g) => Cardinality(Recruiting(g)) < MaxRecruiting

LEMMA LimitedStays ==
  ASSUME Limited, ~disturbed,
         \A g \in Groups : Recruiting(g)' \subseteq Recruiting(g),
         \A g \in Groups : \A s \in Slots : Creating(s, g)' => Creating(s, g)
  PROVE  Limited'
<1> SUFFICES ASSUME NEW g \in Groups
             PROVE  /\ IsFiniteSet(Recruiting(g)')
                    /\ Cardinality(Recruiting(g)') <= MaxRecruiting
                    /\ \A s \in Slots : Creating(s, g)' =>
                         Cardinality(Recruiting(g)') < MaxRecruiting
  BY DEF Limited
<1> DEFINE R == Recruiting(g)
           Q == Recruiting(g)'
<1>1. IsFiniteSet(R) /\ Q \in SUBSET R /\ MaxRecruiting \in Nat
  BY BookingBounds DEF Limited
<1> HIDE DEF Q
<1>2. /\ IsFiniteSet(Q) /\ Cardinality(Q) <= Cardinality(R)
      /\ Cardinality(Q) \in Nat /\ Cardinality(R) \in Nat
  BY <1>1, FS_Subset, FS_CardinalityType
<1>3. /\ Cardinality(R) <= MaxRecruiting
      /\ \A s \in Slots : Creating(s, g) => Cardinality(R) < MaxRecruiting
  BY DEF Limited
<1> HIDE DEF R
<1>4. /\ IsFiniteSet(Q) /\ Cardinality(Q) <= MaxRecruiting
      /\ \A s \in Slots : Creating(s, g)' => Cardinality(Q) < MaxRecruiting
  BY <1>1, <1>2, <1>3
<1>. QED
  BY <1>4 DEF Q

\* What starts leaves the other slots alone; its copy recruits only if the row
\* it is of does, or else the events that do have been counted.
LEMMA CountedFirst ==
  ASSUME TypeOK, NEW s \in Slots, Starts(s)
  PROVE  /\ ops'[s] \in Op /\ \A t \in Slots \ {s} : ops'[t] = ops[t]
         /\ UNCHANGED events
         /\ ops'[s].kind # "create" /\ IsRecruiting(ops'[s].copy) =>
              ops'[s].event \in Recruiting(ops'[s].copy.group)
         /\ ops'[s].kind = "create" =>
              Cardinality(Recruiting(ops'[s].copy.group)) < MaxRecruiting
<1>1. PICK op \in Op : /\ Begin(s, op) /\ Follows(op)
                       /\ op.kind = "create" => WithinLimit(op.copy.group)
  BY RequestBegins
<1>2. ops'[s] = op /\ \A t \in Slots \ {s} : ops'[t] = ops[t]
  BY <1>1 DEF Begin, TypeOK
<1>3. UNCHANGED events
  BY RequestBegins DEF Unmoved
<1>4. ASSUME op.kind # "create", IsRecruiting(op.copy)
      PROVE  op.event \in Recruiting(op.copy.group)
  <2>1. /\ op.event \in Events /\ events[op.event] # None
        /\ MovesOn(op.kind, events[op.event].status, op.copy.status)
        /\ events[op.event].group = op.copy.group /\ op.kind \in Kind
    BY <1>1, <1>4 DEF Follows, Op
  <2>2. IsRecruiting(events[op.event])
    BY <1>4, <2>1 DEF MovesOn, IsRecruiting, Kind, JobKind
  <2>. QED
    BY <2>1, <2>2 DEF Recruiting
<1>5. ASSUME op.kind = "create"
      PROVE  Cardinality(Recruiting(op.copy.group)) < MaxRecruiting
  BY <1>1, <1>5 DEF WithinLimit, FindRecurringEventCountByGroupId, Recruiting
<1>. QED
  BY <1>2, <1>3, <1>4, <1>5

\* Who starts to create has counted; nobody else is creating.
LEMMA CountingLimits ==
  ASSUME AloneInv, Limited, NEW s \in Slots, Starts(s)
  PROVE  Limited'
<1> SUFFICES ASSUME ~disturbed' PROVE Limited'
  BY DEF Limited
<1>1. ~disturbed /\ \A t \in Slots \ {s} : ops'[t] = Idle
  BY RequestAlone DEF AloneInv
<1>2. UNCHANGED events
  BY RequestBegins DEF AloneInv, Unmoved
<1>3. \A g \in Groups : Recruiting(g)' = Recruiting(g)
  BY <1>2 DEF Recruiting, IsRecruiting
<1>4. ASSUME NEW g \in Groups, Creating(s, g)'
      PROVE  Cardinality(Recruiting(g)) < MaxRecruiting
  BY <1>4, CountedFirst DEF Creating, AloneInv
<1>5. \A g \in Groups : \A t \in Slots \ {s} : ~Creating(t, g)'
  BY <1>1 DEF Creating, Idle
<1>. QED
  BY <1>1, <1>3, <1>4, <1>5 DEF Limited

LEMMA SavesLimit ==
  ASSUME AloneInv, Limited, NEW s \in Slots, Save(s)
  PROVE  Limited'
<1> SUFFICES ASSUME ~disturbed' PROVE Limited'
  BY DEF Limited
<1> USE DEF AloneInv
<1> DEFINE op == ops[s]
           row == Saved(op.event, op.copy, op.removed)
<1>1. op \in Op /\ op # Idle /\ op.pc = "save" /\ ~disturbed
  BY OpShape DEF Save, Idle
<1>2. Follows(op) /\ op.event \in Events /\ op.copy \in EventRow
  BY <1>1 DEF CopiesFollow, Op
<1>3. row.status = op.copy.status /\ row.group = op.copy.group /\ row # None
  BY <1>2, SavedRow
<1>4. events' = [events EXCEPT ![op.event] = row]
  BY DEF Save
<1> HIDE DEF row
<1>5. events'[op.event] = row /\ \A f \in Events \ {op.event} : events'[f] = events[f]
  BY <1>2, <1>4 DEF TypeOK
<1>6. IsRecruiting(row) <=> op.copy.status \in {"RECRUITING", "CHECKED"}
  BY <1>3 DEF IsRecruiting
<1>7. \A t \in Slots : ops'[t].kind = "idle"
  <2>1. \A t \in Slots \ {s} : ops'[t] = Idle
    BY RequestAlone DEF GoesOn
  <2>2. ops'[s] = Idle
    BY DEF Save, Return, TypeOK
  <2>. QED
    BY <2>1, <2>2 DEF Idle
<1>8. CASE op.kind = "create"
  <2>1. events[op.event] = None
    BY <1>8 DEF BookingInv, CreationsAreFresh
  <2>2. \A g \in Groups : Recruiting(g)' =
          IF g = op.copy.group THEN Recruiting(g) \cup {op.event} ELSE Recruiting(g)
    <3>1. op.copy.status = "RECRUITING"
      BY <1>2, <1>8 DEF Follows
    <3>. QED
      BY <1>2, <1>3, <1>5, <2>1, <3>1 DEF Recruiting, IsRecruiting
  <2>3. op.copy.group \in Groups
    BY <1>2 DEF EventRow
  <2>4. ASSUME NEW g \in Groups
        PROVE  IsFiniteSet(Recruiting(g)') /\ Cardinality(Recruiting(g)') <= MaxRecruiting
    <3>1. IsFiniteSet(Recruiting(g)) /\ Cardinality(Recruiting(g)) <= MaxRecruiting
      BY <1>1 DEF Limited
    <3>2. CASE g = op.copy.group
      <4> DEFINE R == Recruiting(g)
      <4>1. Cardinality(R) < MaxRecruiting
        BY <1>1, <1>8, <3>2 DEF Limited, Creating
      <4>2. Cardinality(R) \in Nat /\ MaxRecruiting \in Nat
        BY <3>1, FS_CardinalityType, BookingBounds
      <4>3. Recruiting(g)' = R \cup {op.event}
        BY <2>2, <3>2
      <4> HIDE DEF R
      <4>4. /\ IsFiniteSet(R \cup {op.event})
            /\ Cardinality(R \cup {op.event}) <= Cardinality(R) + 1
            /\ Cardinality(R \cup {op.event}) \in Nat
        <5>1. IsFiniteSet(R)
          BY <3>1 DEF R
        <5>2. /\ IsFiniteSet(R \cup {op.event})
              /\ Cardinality(R \cup {op.event}) =
                   IF op.event \in R THEN Cardinality(R) ELSE Cardinality(R) + 1
          BY <5>1, FS_AddElement
        <5>. QED
          BY <4>2, <5>2
      <4>. QED
        BY <4>1, <4>2, <4>3, <4>4
    <3>3. CASE g # op.copy.group
      BY <2>2, <3>1, <3>3
    <3>. QED
      BY <3>2, <3>3
  <2>. QED
    BY <1>7, <2>4 DEF Limited, Creating
<1>9. CASE op.kind # "create"
  <2>1. /\ events[op.event] # None /\ op.kind \in Kind
        /\ MovesOn(op.kind, events[op.event].status, op.copy.status)
        /\ events[op.event].group = op.copy.group
    BY <1>1, <1>2, <1>9 DEF Follows, Op
  <2>2. \A g \in Groups : Recruiting(g)' \subseteq Recruiting(g)
    <3>1. IsRecruiting(row) => IsRecruiting(events[op.event])
      BY <1>6, <1>9, <2>1 DEF MovesOn, IsRecruiting, Kind, JobKind
    <3>. QED
      BY <1>3, <1>5, <2>1, <3>1 DEF Recruiting, IsRecruiting
  <2>3. \A g \in Groups : \A t \in Slots : ~Creating(t, g)'
    BY <1>7 DEF Creating
  <2>. QED
    BY <1>1, <2>2, <2>3, LimitedStays
<1>. QED
  BY <1>8, <1>9

LEMMA LimitInvariant == Spec => []Limited
<1>1. Init => Limited
  <2> SUFFICES ASSUME Init, NEW g \in Groups
               PROVE  /\ Recruiting(g) = {} /\ IsFiniteSet(Recruiting(g))
                      /\ Cardinality(Recruiting(g)) <= MaxRecruiting
                      /\ \A s \in Slots : ~Creating(s, g)
    BY DEF Limited
  <2>1. Recruiting(g) = {}
    BY DEF Init, Recruiting, IsRecruiting
  <2>2. \A s \in Slots : ~Creating(s, g)
    BY DEF Init, Creating, Idle
  <2>3. IsFiniteSet({}) /\ Cardinality({}) = 0 /\ MaxRecruiting \in Nat
    BY FS_EmptySet, BookingBounds
  <2>. QED
    BY <2>1, <2>2, <2>3
<1>2. AloneInv /\ Limited /\ [Next]_vars => Limited'
  <2> SUFFICES ASSUME AloneInv, Limited, [Next]_vars PROVE Limited'
    OBVIOUS
  <2>1. ASSUME ~disturbed' => ~disturbed, UNCHANGED events,
               \A g \in Groups : \A s \in Slots : Creating(s, g)' => Creating(s, g)
        PROVE  Limited'
    <3>1. \A g \in Groups : Recruiting(g)' = Recruiting(g)
      BY <2>1 DEF Recruiting, IsRecruiting
    <3>. QED
      BY <2>1, <3>1, LimitedStays DEF Limited
  <2>2. ASSUME NEW s \in Slots, Return(s)
        PROVE  \A g \in Groups : \A t \in Slots : Creating(t, g)' => Creating(t, g)
    BY <2>2 DEF Return, Creating, Idle, AloneInv, TypeOK
  <2>3. ASSUME NEW s \in Slots, Throw(s) PROVE Limited'
    BY <2>1, <2>2, <2>3 DEF Throw
  <2>4. ASSUME NEW s \in Slots, ConflictFree(s) PROVE Limited'
    <3>1. ops[s] \in Op
      BY <2>4, OpShape DEF ConflictFree, Idle, AloneInv
    <3>2. [ops[s] EXCEPT !.pc = "save"].kind = ops[s].kind
          /\ [ops[s] EXCEPT !.pc = "save"].copy = ops[s].copy
      BY <3>1 DEF Op
    <3>3. \A t \in Slots : ops'[t].kind = ops[t].kind /\ ops'[t].copy = ops[t].copy
      BY <2>4, <3>2 DEF ConflictFree, AloneInv, TypeOK
    <3>. QED
      BY <2>1, <2>4, <3>3 DEF ConflictFree, Creating
  <2>5. ASSUME NEW s \in Slots, DeleteCommits(s) PROVE Limited'
    <3>1. \A e \in Events : events'[e] = None \/ events'[e] = events[e]
      BY <2>5 DEF DeleteCommits, AloneInv, TypeOK
    <3>2. \A g \in Groups : Recruiting(g)' \subseteq Recruiting(g)
      BY <3>1 DEF Recruiting, IsRecruiting
    <3>3. ~disturbed' => ~disturbed
      BY <2>5 DEF DeleteCommits
    <3>. QED
      BY <2>2, <2>5, <3>2, <3>3, LimitedStays DEF DeleteCommits, Limited
  <2>6. CASE UpdateMyLocation
    <3>1. UNCHANGED <<events, ops>>
      BY <2>6 DEF UpdateMyLocation, PatchLocation, bookingVars
    <3>. QED
      BY <2>1, <2>6, <3>1, PatchAlone DEF Creating
  <2>7. ASSUME NEW w \in work, Handle(w) PROVE Limited'
    BY <2>1, <2>7 DEF Handle, bookingVars, Creating
  <2>8. CASE Crash
    BY <2>8 DEF Crash, Limited
  <2>9. CASE Tick \/ UNCHANGED vars
    BY <2>1, <2>9 DEF Tick, vars, bookingVars, Creating
  <2>. QED
    BY <2>3, <2>4, <2>5, <2>6, <2>7, <2>8, <2>9, CountingLimits, SavesLimit
       DEF Next, Starts, ConflictFound, DeleteFails
<1>. QED
  BY <1>1, <1>2, AloneInvariant, PTL DEF Spec

-----------------------------------------------------------------------------
(***************************************************************************)
(* The limit where activities overlap.                                     *)
(***************************************************************************)
Claims(s, e, g) ==
  IsRecruiting(ops[s].copy) /\ ops[s].event = e /\ ops[s].copy.group = g
Claimed(g) == {e \in Events : \E s \in Slots : Claims(s, e, g)}
Crowd(g) == Recruiting(g) \cup Claimed(g)
CrowdIsFew ==
  \A g \in Groups :
    /\ IsFiniteSet(Crowd(g))
    /\ Cardinality(Crowd(g)) <= MaxRecruiting + Cardinality(Slots) - 1

\* A slot claims one event at most.
LEMMA ClaimsAreFew ==
  ASSUME NEW g
  PROVE  IsFiniteSet(Claimed(g)') /\ Cardinality(Claimed(g)') <= Cardinality(Slots)
<1> DEFINE T == {s \in Slots : \E e \in Events : Claims(s, e, g)'}
           f == [s \in T |-> ops'[s].event]
           C == Claimed(g)'
<1>1. \A s \in T : f[s] \in C
  BY DEF Claimed, Claims
<1>2. \A e \in C : \E s \in T : f[s] = e
  BY DEF Claimed, Claims
<1>3. T \in SUBSET Slots
  OBVIOUS
<1>4. f \in [T -> C]
  BY <1>1
<1> HIDE DEF T, f, C
<1>5. f \in Surjection(T, C)
  BY <1>2, <1>4, Zenon DEF Surjection
<1>6. IsFiniteSet(T) /\ Cardinality(T) <= Cardinality(Slots)
  BY <1>3, SlotsAreFinite, FS_Subset
<1>7. IsFiniteSet(C) /\ Cardinality(C) <= Cardinality(T)
  BY <1>5, <1>6, FS_Surjection
<1>8. /\ Cardinality(C) \in Nat /\ Cardinality(T) \in Nat
      /\ Cardinality(Slots) \in Nat
  BY <1>6, <1>7, SlotsAreFinite, FS_CardinalityType
<1>9. IsFiniteSet(C) /\ Cardinality(C) <= Cardinality(Slots)
  BY <1>6, <1>7, <1>8
<1>. QED
  BY <1>9 DEF C

\* A step that makes no event recruit that did not and was not claimed, and
\* claims none that did not recruit, adds to no crowd.
LEMMA CrowdStays ==
  ASSUME CrowdIsFew,
         \A g \in Groups : \A e \in Events :
           IsRecruiting(events'[e]) /\ events'[e].group = g => e \in Crowd(g),
         \A g \in Groups : \A e \in Events : \A s \in Slots :
           Claims(s, e, g)' => e \in Crowd(g)
  PROVE  CrowdIsFew'
<1> SUFFICES ASSUME NEW g \in Groups
             PROVE  /\ IsFiniteSet(Crowd(g)')
                    /\ Cardinality(Crowd(g)') <= MaxRecruiting + Cardinality(Slots) - 1
  BY DEF CrowdIsFew
<1> DEFINE R == Crowd(g)
           Q == Crowd(g)'
<1>1. Q \in SUBSET R
  BY DEF Crowd, Recruiting, Claimed, IsRecruiting
<1>2. IsFiniteSet(R) /\ Cardinality(R) <= MaxRecruiting + Cardinality(Slots) - 1
  BY DEF CrowdIsFew
<1> HIDE DEF Q, R
<1>3. IsFiniteSet(Q) /\ Cardinality(Q) <= Cardinality(R)
  BY <1>1, <1>2, FS_Subset
<1>4. /\ Cardinality(Q) \in Nat /\ Cardinality(R) \in Nat
      /\ Cardinality(Slots) \in Nat /\ MaxRecruiting \in Nat
  BY <1>2, <1>3, SlotsAreFinite, BookingBounds, FS_CardinalityType
<1>5. IsFiniteSet(Q) /\ Cardinality(Q) <= MaxRecruiting + Cardinality(Slots) - 1
  BY <1>2, <1>3, <1>4
<1>. QED
  BY <1>5 DEF Q

\* Less than the limit recruit, and there is one event for each slot.
LEMMA CreationsCrowd ==
  ASSUME TypeOK, CrowdIsFew, NEW s \in Slots, Starts(s)
  PROVE  CrowdIsFew'
<1>1. /\ \A t \in Slots \ {s} : ops'[t] = ops[t]
      /\ UNCHANGED events
      /\ ops'[s].kind # "create" /\ IsRecruiting(ops'[s].copy) =>
           ops'[s].event \in Recruiting(ops'[s].copy.group)
      /\ ops'[s].kind = "create" =>
           Cardinality(Recruiting(ops'[s].copy.group)) < MaxRecruiting
  BY CountedFirst
<1> SUFFICES ASSUME NEW g \in Groups
             PROVE  /\ IsFiniteSet(Crowd(g)')
                    /\ Cardinality(Crowd(g)') <= MaxRecruiting + Cardinality(Slots) - 1
  BY DEF CrowdIsFew
<1> DEFINE R == Recruiting(g)
           C == Claimed(g)
           D == Claimed(g)'
           Q == Crowd(g)'
<1>2. Q = R \cup D
  BY <1>1 DEF Crowd, Recruiting, IsRecruiting
<1>3. /\ IsFiniteSet(R \cup C)
      /\ Cardinality(R \cup C) <= MaxRecruiting + Cardinality(Slots) - 1
  BY DEF CrowdIsFew, Crowd
<1>4. IsFiniteSet(D) /\ Cardinality(D) <= Cardinality(Slots)
  BY ClaimsAreFew
<1>5. \/ Cardinality(R) < MaxRecruiting
      \/ D \subseteq R \cup C
  <2>1. ASSUME NEW e \in D, e \notin R, e \notin C
        PROVE  Cardinality(R) < MaxRecruiting
    <3>1. PICK t \in Slots : Claims(t, e, g)'
      BY <2>1 DEF Claimed
    <3>2. t = s
      BY <1>1, <2>1, <3>1 DEF Claims, Claimed, IsRecruiting
    <3>3. IsRecruiting(ops'[s].copy) /\ ops'[s].event = e /\ ops'[s].copy.group = g
      BY <3>1, <3>2 DEF Claims, IsRecruiting
    <3>. QED
      BY <1>1, <2>1, <3>3
  <2>. QED
    BY <2>1
<1> HIDE DEF R, C, D, Q
<1>6. Cardinality(Slots) \in Nat /\ MaxRecruiting \in Nat
  BY SlotsAreFinite, BookingBounds, FS_CardinalityType
<1>7. CASE Cardinality(R) < MaxRecruiting
  <2>1. IsFiniteSet(R)
    BY <1>3, FS_Subset
  <2>2. /\ IsFiniteSet(R \cup D)
        /\ Cardinality(R \cup D) = Cardinality(R) + Cardinality(D) - Cardinality(R \cap D)
    BY <1>4, <2>1, FS_Union
  <2>3. IsFiniteSet(R \cap D)
    BY <2>1, FS_Subset
  <2>4. /\ Cardinality(R) \in Nat /\ Cardinality(D) \in Nat
        /\ Cardinality(R \cap D) \in Nat
    BY <1>4, <2>1, <2>3, FS_CardinalityType
  <2>5. Cardinality(R \cup D) <= MaxRecruiting + Cardinality(Slots) - 1
    BY <1>4, <1>6, <1>7, <2>2, <2>4
  <2>. QED
    BY <1>2, <2>2, <2>5 DEF Q
<1>8. CASE D \subseteq R \cup C
  <2>1. R \cup D \in SUBSET (R \cup C)
    BY <1>8
  <2>2. /\ IsFiniteSet(R \cup D)
        /\ Cardinality(R \cup D) <= Cardinality(R \cup C)
    BY <1>3, <2>1, FS_Subset
  <2>3. Cardinality(R \cup D) \in Nat /\ Cardinality(R \cup C) \in Nat
    BY <1>3, <2>2, FS_CardinalityType
  <2>4. Cardinality(R \cup D) <= MaxRecruiting + Cardinality(Slots) - 1
    BY <1>3, <1>6, <2>2, <2>3
  <2>. QED
    BY <1>2, <2>2, <2>4 DEF Q
<1>. QED
  BY <1>5, <1>7, <1>8

\* A save moves an event from those claimed to those that recruit.
LEMMA SavesCrowd ==
  ASSUME TypeOK, CrowdIsFew, NEW s \in Slots, Save(s)
  PROVE  CrowdIsFew'
<1> DEFINE op == ops[s]
           row == Saved(op.event, op.copy, op.removed)
<1>1. op \in Op /\ op.event \in Events /\ op.copy \in EventRow
  BY OpShape DEF Save, Idle, Op
<1>2. row.group = op.copy.group /\ row.status = op.copy.status
  BY <1>1, SavedRow
<1>3. events' = [events EXCEPT ![op.event] = row]
  BY DEF Save
<1> HIDE DEF row
<1>4. events'[op.event] = row /\ \A f \in Events \ {op.event} : events'[f] = events[f]
  BY <1>1, <1>3 DEF TypeOK
<1>5. ASSUME NEW g \in Groups, NEW e \in Events,
             IsRecruiting(events'[e]), events'[e].group = g
      PROVE  e \in Crowd(g)
  <2>1. CASE e = op.event
    <3>1. IsRecruiting(op.copy) /\ op.copy.group = g
      BY <1>1, <1>2, <1>4, <1>5, <2>1, NoneIsNoEventRow DEF IsRecruiting
    <3>. QED
      BY <2>1, <3>1 DEF Crowd, Claimed, Claims
  <2>2. CASE e # op.event
    BY <1>4, <1>5, <2>2 DEF Crowd, Recruiting
  <2>. QED
    BY <2>1, <2>2
<1>6. \A g \in Groups : \A e \in Events : \A t \in Slots :
        Claims(t, e, g)' => e \in Crowd(g)
  BY DEF Save, Return, Claims, Crowd, Claimed, Idle, TypeOK, IsRecruiting
<1>. QED
  BY <1>5, <1>6, CrowdStays

LEMMA CrowdInvariant == Spec => []CrowdIsFew
<1>1. Init => CrowdIsFew
  <2> SUFFICES ASSUME Init, NEW g \in Groups
               PROVE  /\ IsFiniteSet(Crowd(g))
                      /\ Cardinality(Crowd(g)) <= MaxRecruiting + Cardinality(Slots) - 1
    BY DEF CrowdIsFew
  <2>1. Crowd(g) = {}
    BY DEF Init, Crowd, Recruiting, IsRecruiting, Claimed, Claims, Idle
  <2>2. IsFiniteSet({}) /\ Cardinality({}) = 0
    BY FS_EmptySet
  <2>3. Cardinality(Slots) \in Nat /\ MaxRecruiting \in Nat \ {0}
    BY SlotsAreFinite, BookingBounds, FS_CardinalityType
  <2>. QED
    BY <2>1, <2>2, <2>3
<1>2. TypeOK /\ CrowdIsFew /\ [Next]_vars => CrowdIsFew'
  <2> SUFFICES ASSUME TypeOK, CrowdIsFew, [Next]_vars PROVE CrowdIsFew'
    OBVIOUS
  <2>1. ASSUME \A e \in Events :
                 IsRecruiting(events'[e]) =>
                   IsRecruiting(events[e]) /\ events'[e].group = events[e].group,
               \A s \in Slots : ops'[s] \in {ops[s], Idle}
        PROVE  CrowdIsFew'
    <3>1. \A g \in Groups : \A e \in Events :
            IsRecruiting(events'[e]) /\ events'[e].group = g => e \in Crowd(g)
      BY <2>1 DEF Crowd, Recruiting
    <3>2. \A g \in Groups : \A e \in Events : \A s \in Slots :
            Claims(s, e, g)' => e \in Crowd(g)
      BY <2>1 DEF Claims, Crowd, Claimed, Idle, IsRecruiting
    <3>. QED
      BY <3>1, <3>2, CrowdStays
  <2>2. ASSUME NEW s \in Slots, Return(s)
        PROVE  \A t \in Slots : ops'[t] \in {ops[t], Idle}
    BY <2>2 DEF Return, TypeOK
  <2>3. ASSUME NEW s \in Slots, Throw(s) PROVE CrowdIsFew'
    BY <2>1, <2>2, <2>3 DEF Throw
  <2>4. ASSUME NEW s \in Slots, ConflictFree(s) PROVE CrowdIsFew'
    <3>1. ops[s] \in Op
      BY <2>4, OpShape DEF ConflictFree, Idle
    <3>2. LET new == [ops[s] EXCEPT !.pc = "save"]
          IN  new.kind = ops[s].kind /\ new.copy = ops[s].copy /\ new.event = ops[s].event
      BY <3>1 DEF Op
    <3>3. \A t \in Slots : /\ ops'[t].kind = ops[t].kind
                           /\ ops'[t].copy = ops[t].copy /\ ops'[t].event = ops[t].event
      BY <2>4, <3>2 DEF ConflictFree, TypeOK
    <3>4. \A g \in Groups : \A e \in Events : \A t \in Slots :
            Claims(t, e, g)' => e \in Crowd(g)
      BY <3>3 DEF Claims, Crowd, Claimed, IsRecruiting
    <3>5. \A g \in Groups : \A e \in Events :
            IsRecruiting(events'[e]) /\ events'[e].group = g => e \in Crowd(g)
      BY <2>4 DEF ConflictFree, Crowd, Recruiting
    <3>. QED
      BY <3>4, <3>5, CrowdStays
  <2>5. ASSUME NEW s \in Slots, DeleteCommits(s) PROVE CrowdIsFew'
    <3>1. \A e \in Events : events'[e] = None \/ events'[e] = events[e]
      BY <2>5 DEF DeleteCommits, TypeOK
    <3>2. \A e \in Events : IsRecruiting(events'[e]) => events'[e] = events[e]
      BY <3>1 DEF IsRecruiting
    <3>. QED
      BY <2>1, <2>2, <2>5, <3>2 DEF DeleteCommits
  <2>6. CASE UpdateMyLocation
    <3>1. UNCHANGED <<events, ops>>
      BY <2>6 DEF UpdateMyLocation, PatchLocation, bookingVars
    <3>. QED
      BY <2>1, <3>1
  <2>7. ASSUME NEW w \in work, Handle(w) PROVE CrowdIsFew'
    BY <2>1, <2>7 DEF Handle, bookingVars
  <2>8. CASE Crash
    BY <2>1, <2>8 DEF Crash
  <2>9. CASE Tick \/ UNCHANGED vars
    BY <2>1, <2>9 DEF Tick, vars, bookingVars
  <2>. QED
    BY <2>3, <2>4, <2>5, <2>6, <2>7, <2>8, <2>9, CreationsCrowd, SavesCrowd
       DEF Next, Starts, ConflictFound, DeleteFails
<1>. QED
  BY <1>1, <1>2, BookingInvariant, PTL DEF Spec

\* However many events, groups, requests and jobs there are: a group has no
\* more recruiting events than the limit allows, and where activities overlap,
\* stale saves of requests and jobs included, no more above it than may be in
\* flight besides the creation that counts.
THEOREM LimitsAreKept == Spec => []LimitIsKept
<1>1. Limited /\ CrowdIsFew => LimitIsKept
  <2> SUFFICES ASSUME Limited, CrowdIsFew, NEW g \in Groups
               PROVE  Cardinality(Recruiting(g)) <=
                        IF disturbed THEN MaxRecruiting + Cardinality(Slots) - 1
                        ELSE MaxRecruiting
    BY DEF LimitIsKept, FindRecurringEventCountByGroupId, Recruiting
  <2>1. CASE ~disturbed
    BY <2>1 DEF Limited
  <2>2. CASE disturbed
    <3> DEFINE R == Recruiting(g)
               C == Crowd(g)
    <3>1. R \in SUBSET C
      BY DEF Crowd
    <3>2. IsFiniteSet(C) /\ Cardinality(C) <= MaxRecruiting + Cardinality(Slots) - 1
      BY DEF CrowdIsFew
    <3> HIDE DEF R, C
    <3>3. IsFiniteSet(R) /\ Cardinality(R) <= Cardinality(C)
      BY <3>1, <3>2, FS_Subset
    <3>4. /\ Cardinality(R) \in Nat /\ Cardinality(C) \in Nat
          /\ Cardinality(Slots) \in Nat /\ MaxRecruiting \in Nat
      BY <3>2, <3>3, SlotsAreFinite, BookingBounds, FS_CardinalityType
    <3>5. Cardinality(R) <= MaxRecruiting + Cardinality(Slots) - 1
      BY <3>2, <3>3, <3>4
    <3>. QED
      BY <2>2, <3>5 DEF R
  <2>. QED
    BY <2>1, <2>2
<1>. QED
  BY <1>1, LimitInvariant, CrowdInvariant, PTL

==================================================
