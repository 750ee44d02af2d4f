------------------------------- MODULE Group -------------------------------
(***************************************************************************)
(* Groups, their members, ownership and invite codes (src/module/group).   *)
(*                                                                         *)
(* As in EventLifecycle a request reads a whole group, changes its copy    *)
(* and writes the copy back: the row with its owner, then the members the  *)
(* copy removed are deleted and all members of the copy are upserted by    *)
(* id.  Members the copy never saw stay.  A request between two awaits is  *)
(* a record in "ops".                                                      *)
(*                                                                         *)
(* The events of a group are an environment: the leave policy reads them   *)
(* and withdraws the leaver.  Two variables are history, written and       *)
(* never read: they let a property say what requests that do not overlap   *)
(* can rely on, and what is left of it when they do.                       *)
(***************************************************************************)
EXTENDS Naturals, FiniteSets

CONSTANTS
  Users,      \* people
  Groups,     \* ids of groups
  MemberIds,  \* ids of group_members rows: bounds the rows in use at once
  CodeValues, \* values an invite code may take
  Events,     \* ids of the events the leave policy looks at
  Slots,      \* one for each request in flight
  None,       \* "no value": a missing row, a copy not read yet
  MaxMembers, \* Group.maxMembers: 8
  Lifetime,   \* ticks for which an invite code is valid: two minutes
  MaxTime     \* bound: the clock stops here

ASSUME LimitsArePositive ==
  /\ MaxMembers \in Nat \ {0} /\ Lifetime \in Nat /\ MaxTime \in Nat

\* A request is in flight in one process of finite memory.
ASSUME SlotsAreFinite == IsFiniteSet(Slots)

Role == {"OWNER", "MEMBER"}
Member == [id : MemberIds, user : Users, role : Role]
GroupRow == [owner : Users, members : SUBSET Member]
InviteCode == [code : CodeValues, group : Groups, expires : Nat,
               used : BOOLEAN]
EventStatus == {"RECRUITING", "CHECKED", "IN_PROGRESS", "ENDED"}
EventRow == [group : Groups, creator : Users, status : EventStatus,
             participants : SUBSET Users]

ASSUME NoneIsNoRow ==
  /\ None \notin GroupRow /\ None \notin EventRow /\ None \notin InviteCode
  /\ None \notin Users /\ None \notin Groups

VARIABLES
  groups,  \* id -> the group with its members, or None
  codes,   \* rows of invite_codes
  events,  \* id -> an event, or None
  ops,     \* the requests in flight
  now,
  overlapped, \* history: two requests have been in flight at once
  admitted    \* history: code value -> how many joins it has let in

history == <<overlapped, admitted>>
vars == <<groups, codes, events, ops, now, history>>

Kind == {"create", "update", "delete", "invite", "join", "kick", "leave",
         "transfer"}
Pc == {"save", "delete", "insert", "find", "policy", "withdraw"}

Idle == [kind |-> "idle", pc |-> "idle", user |-> None, group |-> None,
         copy |-> None, removed |-> {}, code |-> None, from |-> {}]
Op == [kind : Kind, pc : Pc, user : Users, group : Groups,
       copy : GroupRow \cup {None}, removed : SUBSET MemberIds,
       code : InviteCode \cup {None}, from : SUBSET Events]

-----------------------------------------------------------------------------
(***************************************************************************)
(* The aggregate: Group and GroupMember.                                   *)
(***************************************************************************)
NewMember(i, u, role) == [id |-> i, user |-> u, role |-> role]
IsOwner(g, u) == g.owner = u
HasMember(g, u) == \E m \in g.members : m.user = u

IsFull(g) == Cardinality(g.members) >= MaxMembers

CanBeDeleted(g) == Cardinality(g.members) = 1

Create(u, i) == [owner |-> u, members |-> {NewMember(i, u, "OWNER")}]

AddMember(g, i, u) ==
  [g EXCEPT !.members = @ \cup {NewMember(i, u, "MEMBER")}]

\* removeMember and leaveGroup: both refuse the owner and both delete one row.
CanRemoveAnyone(g, u) == HasMember(g, u)
CanRemove(g, u) == ~IsOwner(g, u) /\ HasMember(g, u)
RemoveMember(g, u) ==
  [g EXCEPT !.members = {m \in @ : m.user # u}]
RowsOf(g, u) == {m.id : m \in {n \in g.members : n.user = u}}

CanTransfer(g, u) == ~IsOwner(g, u) /\ HasMember(g, u)
TransferKeepsRole(g, u) ==
  [owner |-> u,
   members |-> {[m EXCEPT !.role = IF m.user = u THEN "OWNER" ELSE @] :
                  m \in g.members}]
TransferOwnership(g, u) ==
  [owner |-> u,
   members |-> {[m EXCEPT !.role = IF m.user = u THEN "OWNER"
                                   ELSE IF m.user = g.owner THEN "MEMBER"
                                   ELSE @] : m \in g.members}]

(***************************************************************************)
(* InviteCode.                                                             *)
(***************************************************************************)
IsExpired(c) == now > c.expires
IsValidThoughUsed(c) == ~IsExpired(c)
IsValid(c) == ~c.used /\ ~IsExpired(c)
MarkAsUsed(c) == [c EXCEPT !.used = TRUE]

(***************************************************************************)
(* GroupRepositoryImpl and InviteCodeRepositoryImpl.                       *)
(***************************************************************************)
MembersOf(g) == IF groups[g] = None THEN {} ELSE groups[g].members
Kept(g, removed) == {m \in MembersOf(g) : m.id \notin removed}
RowIds(members) == {m.id : m \in members}

\* The unique key on group and user: a copy cannot bring back a member who
\* has since left and joined again under another id.
ViolatesKey(g, copy, removed) ==
  \E m \in Kept(g, removed), n \in copy.members : m.user = n.user /\ m.id # n.id

Saved(g, copy, removed) ==
  [owner |-> copy.owner,
   members |-> {m \in Kept(g, removed) : m.id \notin RowIds(copy.members)}
                 \cup copy.members]

ExistsByOwnerId(u) == \E g \in Groups : groups[g] # None /\ groups[g].owner = u
ExistsByCode(v) == \E c \in codes : c.code = v
FindByCode(v) == {c \in codes : c.code = v}
Upsert(c) == {d \in codes : d.code # c.code} \cup {c}

(***************************************************************************)
(* EventLookupServiceImpl: the queries of the leave policy.                *)
(***************************************************************************)
EventsOf(g) == {e \in Events : events[e] # None /\ events[e].group = g}

HasParticipatingEvent(u, g, status) ==
  \E e \in EventsOf(g) : events[e].status = status /\ u \in events[e].participants
HasCreatedActiveEvents(u, g) ==
  \E e \in EventsOf(g) : events[e].creator = u /\ events[e].status # "ENDED"
FindWithdrawableEventIds(u, g) ==
  {e \in EventsOf(g) : /\ events[e].status = "RECRUITING"
                       /\ events[e].creator # u
                       /\ u \in events[e].participants}

\* validateLeaveConstraints.
MayLeave(u, g) ==
  /\ ~HasParticipatingEvent(u, g, "IN_PROGRESS")
  /\ ~HasParticipatingEvent(u, g, "CHECKED")
  /\ ~HasCreatedActiveEvents(u, g)

WithdrawFromNothing(u, ids) == UNCHANGED events
WithdrawFromEvents(u, ids) ==
  events' = [e \in Events |->
    IF e \in ids /\ events[e] # None
    THEN [events[e] EXCEPT !.participants = @ \ {u}] ELSE events[e]]

-----------------------------------------------------------------------------
Begin(s, op) ==
  /\ ops[s] = Idle
  /\ ops' = [ops EXCEPT ![s] = op]
  /\ overlapped' = (overlapped \/ \E r \in Slots \ {s} : ops[r] # Idle)
At(s, kinds, pc) == ops[s].kind \in kinds /\ ops[s].pc = pc
Goto(s, op) == ops' = [ops EXCEPT ![s] = op]
Return(s) == Goto(s, Idle)
Throw(s) == Return(s) /\ UNCHANGED <<groups, codes, events, now, history>>

Holding(kind, pc, u, g, copy) ==
  [kind |-> kind, pc |-> pc, user |-> u, group |-> g, copy |-> copy,
   removed |-> {}, code |-> None, from |-> {}]

\* An id nobody refers to stands for a new one.
FreshGroup(g) ==
  /\ groups[g] = None /\ \A s \in Slots : ops[s].group # g
FreshId(i) ==
  /\ \A g \in Groups : i \notin RowIds(MembersOf(g))
  /\ \A s \in Slots : i \notin ops[s].removed
  /\ \A s \in Slots : ops[s].copy # None => i \notin RowIds(ops[s].copy.members)

Init ==
  /\ groups = [g \in Groups |-> None] /\ codes = {}
  /\ events = [e \in Events |-> None]
  /\ ops = [s \in Slots |-> Idle] /\ now = 0
  /\ overlapped = FALSE /\ admitted = [v \in CodeValues |-> 0]

(***************************************************************************)
(* A request reads: CreateGroupUseCase, UpdateGroupUseCase, ...            *)
(***************************************************************************)
CreateReads(s, u, g, i) ==
  /\ ~ExistsByOwnerId(u)
  /\ FreshGroup(g) /\ FreshId(i)
  /\ Begin(s, Holding("create", "save", u, g, Create(u, i)))

UpdateReads(s, u, g) ==
  /\ groups[g] # None /\ IsOwner(groups[g], u)
  /\ Begin(s, Holding("update", "save", u, g, groups[g]))

DeleteReads(s, u, g) ==
  /\ groups[g] # None /\ IsOwner(groups[g], u) /\ CanBeDeleted(groups[g])
  /\ Begin(s, Holding("delete", "delete", u, g, groups[g]))

InviteReads(s, u, g) ==
  /\ groups[g] # None /\ HasMember(groups[g], u)
  /\ Begin(s, Holding("invite", "insert", u, g, None))

JoinReads(s, u, c) ==
  /\ c \in codes /\ IsValid(c)
  /\ Begin(s, [Holding("join", "find", u, c.group, None) EXCEPT !.code = c])

KickReads(s, u, v, g) ==
  /\ groups[g] # None /\ IsOwner(groups[g], u) /\ CanRemove(groups[g], v)
  /\ Begin(s, [Holding("kick", "save", v, g, RemoveMember(groups[g], v))
               EXCEPT !.removed = RowsOf(groups[g], v)])

LeaveReads(s, u, g) ==
  /\ groups[g] # None
  /\ Begin(s, Holding("leave", "policy", u, g, groups[g]))

TransferReads(s, u, v, g) ==
  /\ groups[g] # None /\ IsOwner(groups[g], u) /\ CanTransfer(groups[g], v)
  /\ Begin(s, Holding("transfer", "save", v, g, TransferOwnership(groups[g], v)))

Reading == UNCHANGED <<groups, codes, events, now, admitted>>

-----------------------------------------------------------------------------
(***************************************************************************)
(* ... and goes on after an await.                                         *)
(***************************************************************************)

\* JoinGroupUseCase after findById.
Admits(g, u) == g # None /\ ~IsFull(g) /\ ~HasMember(g, u)
JoinAdds(s, i) ==
  LET g == groups[ops[s].group]  u == ops[s].user IN
  /\ At(s, {"join"}, "find")
  /\ Admits(g, u) /\ FreshId(i)
  /\ Goto(s, [Holding("join", "save", u, ops[s].group, AddMember(g, i, u))
              EXCEPT !.code = MarkAsUsed(ops[s].code)])
  /\ UNCHANGED <<groups, codes, events, now, history>>
JoinRefused(s) ==
  /\ At(s, {"join"}, "find")
  /\ ~Admits(groups[ops[s].group], ops[s].user)
  /\ Throw(s)

\* createUnique has found a free value; a collision that appears before the
\* insert fails on the unique key, like a group that is gone.
InviteInserts(s, v) ==
  LET g == ops[s].group IN
  /\ At(s, {"invite"}, "insert")
  /\ ~ExistsByCode(v) /\ groups[g] # None
  /\ codes' = Upsert([code |-> v, group |-> g, expires |-> now + Lifetime,
                      used |-> FALSE])
  /\ Return(s)
  /\ UNCHANGED <<groups, events, now, history>>
InviteFails(s) ==
  /\ At(s, {"invite"}, "insert") /\ groups[ops[s].group] = None
  /\ Throw(s)

\* GroupLeavePolicyService: the three checks and the withdrawable events.
LeaveChecks(s) ==
  LET u == ops[s].user  g == ops[s].group IN
  /\ At(s, {"leave"}, "policy")
  /\ MayLeave(u, g)
  /\ Goto(s, [Holding("leave", "withdraw", u, g, ops[s].copy)
              EXCEPT !.from = FindWithdrawableEventIds(u, g)])
  /\ UNCHANGED <<groups, codes, events, now, history>>
LeaveForbidden(s) ==
  /\ At(s, {"leave"}, "policy")
  /\ ~MayLeave(ops[s].user, ops[s].group)
  /\ Throw(s)

\* The participations are deleted, and only then is the copy asked whether
\* the user may leave: an owner is refused with the withdrawal done.
LeaveWithdraws(s) ==
  LET u == ops[s].user  copy == ops[s].copy IN
  /\ At(s, {"leave"}, "withdraw")
  /\ WithdrawFromEvents(u, ops[s].from)
  /\ IF CanRemove(copy, u)
     THEN Goto(s, [Holding("leave", "save", u, ops[s].group, RemoveMember(copy, u))
                   EXCEPT !.removed = RowsOf(copy, u)])
     ELSE Return(s)
  /\ UNCHANGED <<groups, codes, now, history>>

\* GroupRepositoryImpl.save, for a join in one transaction with the code.
Save(s) ==
  LET op == ops[s]  g == op.group IN
  /\ op.pc = "save"
  /\ ~ViolatesKey(g, op.copy, op.removed)
  /\ op.kind = "join" => ~\E c \in codes : c.code = op.code.code /\ c.group # g
  /\ groups' = [groups EXCEPT ![g] = Saved(g, op.copy, op.removed)]
  /\ codes' = IF op.kind = "join" THEN Upsert(op.code) ELSE codes
  /\ admitted' = IF op.kind = "join"
                 THEN [admitted EXCEPT ![op.code.code] = @ + 1]
                 ELSE admitted
  /\ Return(s)
  /\ UNCHANGED <<events, now, overlapped>>
SaveFails(s) ==
  LET op == ops[s] IN
  /\ op.pc = "save"
  /\ ViolatesKey(op.group, op.copy, op.removed)
  /\ Throw(s)

\* Codes and events go with their group.
DeleteCommits(s) ==
  LET g == ops[s].group IN
  /\ At(s, {"delete"}, "delete")
  /\ groups[g] # None
  /\ groups' = [groups EXCEPT ![g] = None]
  /\ codes' = {c \in codes : c.group # g}
  /\ admitted' = [v \in CodeValues |->
       IF \E c \in codes : c.code = v /\ c.group = g THEN 0 ELSE admitted[v]]
  /\ events' = [e \in Events |-> IF e \in EventsOf(g) THEN None ELSE events[e]]
  /\ Return(s)
  /\ UNCHANGED <<now, overlapped>>
DeleteFails(s) ==
  /\ At(s, {"delete"}, "delete") /\ groups[ops[s].group] = None
  /\ Throw(s)

(***************************************************************************)
(* The environment: events of the group, and time.  Neither creating nor   *)
(* joining an event asks whether the user is a member of its group.        *)
(***************************************************************************)
Overlapping ==
  /\ overlapped' = (overlapped \/ \E s \in Slots : ops[s] # Idle)
  /\ UNCHANGED <<groups, codes, ops, now, admitted>>

EventOpens(e, g, u) ==
  /\ events[e] = None /\ groups[g] # None
  /\ events' = [events EXCEPT ![e] = [group |-> g, creator |-> u,
                  status |-> "RECRUITING", participants |-> {u}]]
  /\ Overlapping
EventJoined(e, u) ==
  /\ events[e] # None /\ events[e].status = "RECRUITING"
  /\ u \notin events[e].participants
  /\ events' = [events EXCEPT ![e].participants = @ \cup {u}]
  /\ Overlapping
NextStatus == [RECRUITING |-> "CHECKED", CHECKED |-> "IN_PROGRESS",
               IN_PROGRESS |-> "ENDED"]
EventAdvances(e) ==
  /\ events[e] # None /\ events[e].status \in DOMAIN NextStatus
  /\ events' = [events EXCEPT ![e].status = NextStatus[@]]
  /\ Overlapping

Tick ==
  /\ now < MaxTime /\ now' = now + 1
  /\ UNCHANGED <<groups, codes, events, ops, history>>

(***************************************************************************)
(* The endpoints of UserGroupController.                                   *)
(***************************************************************************)
PostGroup(s)  == \E u \in Users, g \in Groups, i \in MemberIds : CreateReads(s, u, g, i)
PatchGroup(s) == \E u \in Users, g \in Groups : UpdateReads(s, u, g)
DeleteGroup(s) == \E u \in Users, g \in Groups : DeleteReads(s, u, g)
PostJoin(s)   == \E u \in Users, c \in codes : JoinReads(s, u, c)
PostInviteCode(s) == \E u \in Users, g \in Groups : InviteReads(s, u, g)
DeleteMember(s) == \E u, v \in Users, g \in Groups : KickReads(s, u, v, g)
DeleteLeave(s) == \E u \in Users, g \in Groups : LeaveReads(s, u, g)
PostTransferOwnership(s) == \E u, v \in Users, g \in Groups : TransferReads(s, u, v, g)

Endpoint(s) ==
  /\ \/ PostGroup(s) \/ PatchGroup(s) \/ DeleteGroup(s) \/ PostJoin(s)
     \/ PostInviteCode(s) \/ DeleteMember(s) \/ DeleteLeave(s)
     \/ PostTransferOwnership(s)
  /\ Reading
Continuation(s) ==
  \/ \E i \in MemberIds : JoinAdds(s, i)
  \/ JoinRefused(s)
  \/ \E v \in CodeValues : InviteInserts(s, v)
  \/ InviteFails(s)
  \/ LeaveChecks(s) \/ LeaveForbidden(s) \/ LeaveWithdraws(s)
  \/ Save(s) \/ SaveFails(s) \/ DeleteCommits(s) \/ DeleteFails(s)
Environment ==
  \/ \E e \in Events, u \in Users : EventJoined(e, u)
  \/ \E e \in Events, g \in Groups, u \in Users : EventOpens(e, g, u)
  \/ \E e \in Events : EventAdvances(e)
  \/ Tick

Next == (\E s \in Slots : Endpoint(s) \/ Continuation(s)) \/ Environment
Spec == Init /\ [][Next]_vars

-----------------------------------------------------------------------------
\* Every variable holds what the code keeps there.
TypeOK ==
  /\ groups \in [Groups -> GroupRow \cup {None}]
  /\ codes \subseteq InviteCode
  /\ events \in [Events -> EventRow \cup {None}]
  /\ ops \in [Slots -> Op \cup {Idle}]
  /\ now \in Nat
  /\ overlapped \in BOOLEAN
  /\ admitted \in [CodeValues -> Nat]

\* The owner a group names is one of its members, in the role of owner, however
\* transfers, kicks, leaves and stale saves overlap (transferOwnership,
\* removeMember, leaveGroup, _saveWithClient).
OwnerIsMember ==
  \A g \in Groups : groups[g] # None =>
    \E m \in groups[g].members : m.user = groups[g].owner /\ m.role = "OWNER"

\* A code lets one user in; requests that overlap may all have seen it unused,
\* but never more of them than are in flight (isValid before the transaction
\* that marks it used).
CodeUsedOnce ==
  \A v \in CodeValues :
    admitted[v] <= IF overlapped THEN Cardinality(Slots) ELSE 1

\* A member who has left takes part in no event of the group that is still to
\* end, and has created none (validateLeaveConstraints, then
\* withdrawFromRecruitingEvents, then save), unless something overlapped.
LeaverIsWithdrawn ==
  [][\A s \in Slots :
       At(s, {"leave"}, "save") /\ groups' # groups /\ ~overlapped =>
         \A e \in EventsOf(ops[s].group) : events[e].status # "ENDED" =>
           /\ ops[s].user \notin events[e].participants
           /\ ops[s].user # events[e].creator]_vars

\* The rule of the documentation: one user owns at most one group.
OneOwnershipStrictly ==
  ~overlapped => \A u \in Users :
    Cardinality({g \in Groups : groups[g] # None /\ groups[g].owner = u}) <= 1

-----------------------------------------------------------------------------
(***************************************************************************)
(* One request at a time keeps the promise of GroupPromise.                *)
(***************************************************************************)
RoleAmong(members, u) ==
  IF \E m \in members : m.user = u /\ m.role = "OWNER" THEN "OWNER"
  ELSE IF \E m \in members : m.user = u THEN "MEMBER" ELSE "out"

StandingOf == [g \in Groups |-> [u \in Users |-> RoleAmong(MembersOf(g), u)]]

InvitationsOf ==
  {[code |-> c.code, group |-> c.group, used |-> c.used] : c \in codes}

Promise == INSTANCE GroupPromise
             WITH standing <- StandingOf, invitations <- InvitationsOf

\* As long as requests do not overlap, the stored groups and codes change only
\* through the steps of GroupPromise: never two owners, a code used twice, a
\* ninth member, a second group founded, or a member no invitation let in
\* (every save of a copy, _saveWithClient, and the transaction of a join).
KeepsGroupPromise ==
  Promise!Init /\ [][overlapped' \/ Promise!Next]_(Promise!promiseVars)
=============================================================================
