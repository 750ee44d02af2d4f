------------------------------- MODULE Views -------------------------------
(***************************************************************************)
(* What users are shown of events and attendance: EventQueryServiceImpl,   *)
(* GroupQueryServiceImpl and AttendanceStatisticsQueryServiceImpl, over    *)
(* the events of EventBooking, the members of groups and the results an    *)
(* event leaves when it ends.                                              *)
(*                                                                         *)
(* A view is one query and changes nothing: an operator over the tables.   *)
(* The question is whether two views of the same tables can disagree.      *)
(*                                                                         *)
(* The ticks of EventBooking count from an instant in UTC, and the         *)
(* calendar is that of KST, Offset ticks ahead.  The last tick of a day    *)
(* stands for its last millisecond.                                        *)
(***************************************************************************)
EXTENDS EventBooking, Integers

CONSTANTS
  DayLength,  \* ticks in a day
  Offset,     \* how far KST is ahead of UTC
  MonthLength \* days in a month

ASSUME CalendarIsSane ==
  DayLength \in Nat \ {0} /\ MonthLength \in Nat \ {0} /\ Offset \in Nat

VARIABLES
  members, \* group -> user_ids of group_members
  results  \* event_results: [event, user, result, before]

viewVars == <<vars, members, results>>

\* "before", the number of results the event had, stands for a row's random id:
\* an event that a stale save has brought back can end a second time.
Result == {"ARRIVED", "LATE", "ABSENT"}
ResultRow == [event : Events, user : Users, result : Result, before : Nat]
ResultsOf(e) == {x \in results : x.event = e}

ASSUME NoneIsNoView == None \notin (SUBSET Tracking) \X Nat

OfMembers(u) == {e \in Events : events[e] # None /\ u \in members[events[e].group]}
TimeOf(e) == EventTime(events[e].checkTime)

-----------------------------------------------------------------------------
(***************************************************************************)
(* The calendar.                                                           *)
(***************************************************************************)
StartOfDay(d) == d * DayLength - Offset
EndOfDayEarly(d) == StartOfDay(d + 1) - 2
EndOfDay(d) == StartOfDay(d + 1) - 1
KstDay(t) == (t + Offset) \div DayLength

FirstDay(month) == month * MonthLength
LastDay(month) == (month + 1) * MonthLength - 1

\* RECRUITING, checked or not, IN_PROGRESS or ENDED.
InCalendar(e) == events[e].status # "CANCELLED"
Between(e, from, to) == from <= TimeOf(e) /\ TimeOf(e) <= to

FindCalendarMarkedDates(u, month) ==
  {KstDay(TimeOf(e)) : e \in
     {f \in OfMembers(u) : InCalendar(f)
        /\ Between(f, StartOfDay(FirstDay(month)), EndOfDay(LastDay(month)))}}
FindCalendarEventList(u, d) ==
  {e \in OfMembers(u) : InCalendar(e) /\ Between(e, StartOfDay(d), EndOfDay(d))}

(***************************************************************************)
(* Lists and details, for the user who asks.                               *)
(***************************************************************************)
FindList(u, g, status) ==
  {e \in OfMembers(u) : events[e].group = g /\ events[e].status = status}
FindDetail(e, u) == e \in OfMembers(u)

\* Where the participants are is shown to the members of the event's group.
IsGroupMemberOfEvent(e, u) ==
  \E g \in Groups : u \in members[g] /\ events[e] # None /\ events[e].group = g
FindLocationsByEvent(e, u) ==
  IF IsGroupMemberOfEvent(e, u) THEN <<FindByEventId(e), TimeOf(e)>> ELSE None

\* findFirst in no order: any of these.
FindActiveEventByGroupId(g, u) == FindList(u, g, "IN_PROGRESS")

FindEventResult(e, u) == e \in OfMembers(u) /\ events[e].status = "ENDED"

\* The groups of a user, each with the number of its members and its latest
\* ended event; the members of a group, whoever asks.
LastEndedEvent(g) ==
  LET ended == {e \in Events : /\ events[e] # None /\ events[e].group = g
                               /\ events[e].status = "ENDED"}
  IN {e \in ended : \A f \in ended : TimeOf(f) <= TimeOf(e)}
FindGroupList(u) ==
  {[group |-> g, memberCount |-> Cardinality(members[g]),
    lastEnded |-> LastEndedEvent(g)] : g \in {h \in Groups : u \in members[h]}}
FindGroupDetail(g) == members[g]

(***************************************************************************)
(* Attendance: of one user by result, and of a group in one statement that *)
(* joins its members with its events and their results.                    *)
(***************************************************************************)
FindByUserId(u, r) ==
  Cardinality({x \in results : x.user = u /\ x.result = r})

JoinedByEvent(g, u) ==
  {x \in results : events[x.event] # None /\ events[x.event].group = g}
JoinedRows(g, u) ==
  {x \in results : /\ events[x.event] # None /\ events[x.event].group = g
                   /\ x.user = u}
FindMemberAttendanceStatistics(g) ==
  [u \in members[g] |-> [r \in Result |->
     Cardinality({x \in JoinedRows(g, u) : x.result = r})]]

Total(counts) == counts["ARRIVED"] + counts["LATE"] + counts["ABSENT"]
AttendanceRate(counts) ==
  IF Total(counts) > 0 THEN (counts["ARRIVED"] * 100) \div Total(counts) ELSE 0

-----------------------------------------------------------------------------
(***************************************************************************)
(* How the tables change: the events as in EventBooking.                   *)
(***************************************************************************)
JoinsGroup(g, u) ==
  /\ u \notin members[g]
  /\ members' = [members EXCEPT ![g] = @ \cup {u}]
  /\ UNCHANGED <<vars, results>>

LeavesGroup(g, u) ==
  /\ u \in members[g]
  /\ members' = [members EXCEPT ![g] = @ \ {u}]
  /\ UNCHANGED <<vars, results>>

\* The end of an event saves a result of each participant of its copy.
EndSaves(s) == ops[s].kind = "end" /\ Save(s)
EndsWithResults(s, attendance) ==
  LET e == ops[s].event IN
  /\ EndSaves(s)
  /\ results' = results \cup
       {[event |-> e, user |-> u, result |-> attendance[u],
         before |-> Cardinality(ResultsOf(e))] : u \in ops[s].copy.participants}
  /\ UNCHANGED members

\* The results of an event go with it.
DeletesWithResults(s) ==
  /\ DeleteCommits(s)
  /\ results' = results \ ResultsOf(ops[s].event)
  /\ UNCHANGED members

ChangesResults == \E s \in Slots : EndSaves(s) \/ DeleteCommits(s)

ViewsInit ==
  /\ Init
  /\ members = [g \in Groups |-> {}] /\ results = {}

ViewsNext ==
  \/ \E g \in Groups, u \in Users : JoinsGroup(g, u) \/ LeavesGroup(g, u)
  \/ \E s \in Slots : \E a \in [Users -> Result] : EndsWithResults(s, a)
  \/ \E s \in Slots : DeletesWithResults(s)
  \/ Next /\ ~ChangesResults /\ UNCHANGED <<members, results>>

ViewsSpec == ViewsInit /\ [][ViewsNext]_viewVars

-----------------------------------------------------------------------------
Days == {KstDay(EventTime(t)) : t \in CheckTimes}
MonthOf(d) == d \div MonthLength

\* A day is marked in a user's month exactly when the list of the day is not
\* empty: the borders of days and months agree in KST, whatever the time is
\* in UTC, and both leave the same events out.  What a list names can be
\* opened - an event of a day, the one in progress with the positions of its
\* participants, the last one a group has ended with its result - and is never
\* of a group the user does not belong to, also after leaving one.
MarkedListedAndOpen ==
  \A u \in Users :
    /\ \A d \in Days :
         d \in FindCalendarMarkedDates(u, MonthOf(d))
           <=> FindCalendarEventList(u, d) # {}
    /\ \A e \in Events :
         LET listed == {d \in Days : e \in FindCalendarEventList(u, d)} IN
         /\ listed # {} => FindDetail(e, u) /\ Cardinality(listed) = 1
         /\ FindEventResult(e, u) => e \in FindList(u, events[e].group, "ENDED")
         /\ FindDetail(e, u) =>
              (FindEventResult(e, u) <=> events[e].status = "ENDED")
         /\ FindLocationsByEvent(e, u) # None <=> FindDetail(e, u)
         /\ \A g \in Groups : e \in FindActiveEventByGroupId(g, u) => FindDetail(e, u)
         /\ \A row \in FindGroupList(u) : e \in row.lastEnded => FindEventResult(e, u)

\* A member's statistics in all groups there are, and the results in groups
\* the user has left, add up to the user's own; no rate exceeds 100 percent.
\* A group's statistics have as many rows as its list and its detail count.
StatisticsAddUp ==
  \A u \in Users, r \in Result :
    LET mine == {g \in Groups : u \in members[g]}
        inGroup(g) == FindMemberAttendanceStatistics(g)[u][r]
        left == {x \in results : x.user = u /\ x.result = r
                                   /\ events[x.event].group \notin mine} IN
    /\ FindByUserId(u, r) = Cardinality(left)
         + Cardinality(UNION {{<<g, i>> : i \in 1..inGroup(g)} : g \in mine})
    /\ \A g \in mine : AttendanceRate(FindMemberAttendanceStatistics(g)[u]) <= 100
    /\ \A row \in FindGroupList(u) :
         /\ DOMAIN FindMemberAttendanceStatistics(row.group)
              = FindGroupDetail(row.group)
         /\ row.memberCount = Cardinality(FindGroupDetail(row.group))
=============================================================================
