----------------------------- MODULE Group_proofs -----------------------------
(***************************************************************************)
(* Proofs about Group, for every set of users, groups, codes and requests  *)
(* in flight: the rows are well-formed, every group is owned by one of its *)
(* members however the requests overlap, and what holds as long as they do *)
(* not: one owner's row, one user per code, nothing left behind, and the   *)
(* refinement of GroupPromise.                                             *)
(***************************************************************************)
EXTENDS Group, FiniteSetTheorems, TLAPS

-----------------------------------------------------------------------------
(***************************************************************************)
(* The inductive invariant.  What is written is a copy made some awaits    *)
(* ago, so the copies must be owned as the rows are: a save keeps all the  *)
(* members of its copy, whatever it finds in the table, and the owner is   *)
(* written with them.                                                      *)
(***************************************************************************)
Owned(g) == \E m \in g.members : m.user = g.owner /\ m.role = "OWNER"

\* What a request in flight carries: a copy once it has one to save, with its
\* owner among its members, and the code of a join.
OpFine(op) ==
  /\ op.copy # None => Owned(op.copy)
  /\ op.pc \in {"save", "policy", "withdraw"} => op.copy # None
  /\ op.kind = "join" => op.code # None
OpsFine == \A s \in Slots : OpFine(ops[s])

GroupInv == TypeOK /\ OpsFine /\ OwnerIsMember

-----------------------------------------------------------------------------
(***************************************************************************)
(* The aggregate's operations on a group with its owner among its members. *)
(***************************************************************************)

\* A new group is its creator's.
LEMMA CreateOwned ==
  ASSUME NEW u \in Users, NEW i \in MemberIds
  PROVE  Create(u, i) \in GroupRow /\ Owned(Create(u, i))
<1>1. NewMember(i, u, "OWNER") \in Member
  BY DEF NewMember, Member, Role
<1>. QED
  BY <1>1 DEF Create, NewMember, GroupRow, Owned

\* Adding a member leaves the others.
LEMMA AddOwned ==
  ASSUME NEW g \in GroupRow, NEW i \in MemberIds, NEW u \in Users, Owned(g)
  PROVE  AddMember(g, i, u) \in GroupRow /\ Owned(AddMember(g, i, u))
<1>1. AddMember(g, i, u)
        = [owner |-> g.owner, members |-> g.members \cup {NewMember(i, u, "MEMBER")}]
  BY DEF AddMember, GroupRow
<1>2. NewMember(i, u, "MEMBER") \in Member
  BY DEF NewMember, Member, Role
<1>. QED
  BY <1>1, <1>2 DEF GroupRow, Owned

\* Whoever is removed is not the owner.
LEMMA RemoveOwned ==
  ASSUME NEW g \in GroupRow, NEW u \in Users, Owned(g), CanRemove(g, u)
  PROVE  RemoveMember(g, u) \in GroupRow /\ Owned(RemoveMember(g, u))
<1>1. RemoveMember(g, u)
        = [owner |-> g.owner, members |-> {m \in g.members : m.user # u}]
  BY DEF RemoveMember, GroupRow
<1>. QED
  BY <1>1 DEF GroupRow, Owned, CanRemove, IsOwner

LEMMA RowsAreIds ==
  ASSUME NEW g \in GroupRow, NEW u
  PROVE  RowsOf(g, u) \subseteq MemberIds
BY DEF RowsOf, GroupRow, Member

\* The new owner is a member and gets the role.
LEMMA TransferOwned ==
  ASSUME NEW g \in GroupRow, NEW u \in Users, CanTransfer(g, u)
  PROVE  TransferOwnership(g, u) \in GroupRow /\ Owned(TransferOwnership(g, u))
<1> DEFINE f(m) == [m EXCEPT !.role = IF m.user = u THEN "OWNER"
                                      ELSE IF m.user = g.owner THEN "MEMBER" ELSE @]
<1>1. TransferOwnership(g, u) = [owner |-> u, members |-> {f(m) : m \in g.members}]
  BY DEF TransferOwnership
<1>2. \A m \in g.members : f(m) \in Member /\ f(m).user = m.user
  BY DEF GroupRow, Member, Role
<1>3. PICK m \in g.members : m.user = u
  BY DEF CanTransfer, HasMember
<1>4. f(m).role = "OWNER"
  BY <1>3 DEF GroupRow, Member
<1> HIDE DEF f
<1>5. {f(x) : x \in g.members} \in SUBSET Member
  BY <1>2
<1>6. f(m) \in {f(x) : x \in g.members} /\ f(m).user = u
  BY <1>2, <1>3
<1>. QED
  BY <1>1, <1>4, <1>5, <1>6 DEF GroupRow, Owned

\* Saving keeps the members of the copy and takes its owner.
LEMMA SavedOwned ==
  ASSUME TypeOK, NEW g \in Groups, NEW copy \in GroupRow, NEW removed, Owned(copy)
  PROVE  Saved(g, copy, removed) \in GroupRow /\ Owned(Saved(g, copy, removed))
<1>1. Kept(g, removed) \subseteq Member
  BY DEF Kept, MembersOf, TypeOK, GroupRow
<1>. QED
  BY <1>1 DEF Saved, GroupRow, Owned

-----------------------------------------------------------------------------
(***************************************************************************)
(* Requests in flight.                                                     *)
(***************************************************************************)

\* What Holding builds, field by field.
LEMMA HoldingOp ==
  ASSUME NEW kind \in Kind, NEW pc \in Pc, NEW u \in Users, NEW g \in Groups,
         NEW copy \in GroupRow \cup {None}
  PROVE  /\ Holding(kind, pc, u, g, copy)
              = [kind |-> kind, pc |-> pc, user |-> u, group |-> g, copy |-> copy,
                 removed |-> {}, code |-> None, from |-> {}]
         /\ Holding(kind, pc, u, g, copy) \in Op
BY DEF Holding, Op

\* A request that carries an owned copy, or none that it needs, is fine.
LEMMA HoldingFine ==
  ASSUME NEW kind \in Kind \ {"join"}, NEW pc \in Pc, NEW u \in Users,
         NEW g \in Groups, NEW copy \in GroupRow \cup {None},
         copy # None => Owned(copy),
         pc \in {"save", "policy", "withdraw"} => copy # None
  PROVE  /\ Holding(kind, pc, u, g, copy) \in Op
         /\ OpFine(Holding(kind, pc, u, g, copy))
<1>1. /\ Holding(kind, pc, u, g, copy) \in Op
      /\ Holding(kind, pc, u, g, copy).kind = kind
      /\ Holding(kind, pc, u, g, copy).pc = pc
      /\ Holding(kind, pc, u, g, copy).copy = copy
  BY HoldingOp
<1>. QED
  BY <1>1 DEF OpFine

\* A request that takes the place of what was in a slot.
LEMMA OpStep ==
  ASSUME GroupInv, NEW s \in Slots, NEW op \in Op \cup {Idle}, OpFine(op),
         ops' = [ops EXCEPT ![s] = op]
  PROVE  ops' \in [Slots -> Op \cup {Idle}] /\ OpsFine'
<1>1. \A t \in Slots : ops'[t] = IF t = s THEN op ELSE ops[t]
  BY DEF GroupInv, TypeOK
<1>2. ops' \in [Slots -> Op \cup {Idle}]
  BY DEF GroupInv, TypeOK
<1>3. \A t \in Slots : OpFine(ops'[t])
  BY <1>1 DEF GroupInv, OpsFine
<1>. QED
  BY <1>2, <1>3 DEF OpsFine, OpFine, Owned

LEMMA IdleIsFine == OpFine(Idle)
BY DEF OpFine, Idle

\* A request that is somewhere is one of Op.
LEMMA InFlight ==
  ASSUME GroupInv, NEW s \in Slots, ops[s].pc # "idle"
  PROVE  ops[s] \in Op /\ OpFine(ops[s])
BY DEF GroupInv, TypeOK, OpsFine, Idle

\* A request that is refused leaves everything else.
LEMMA ThrowKeeps ==
  ASSUME GroupInv, NEW s \in Slots, Throw(s)
  PROVE  GroupInv'
<1>1. ops' \in [Slots -> Op \cup {Idle}] /\ OpsFine'
  BY OpStep, IdleIsFine DEF Throw, Return, Goto
<1>2. UNCHANGED <<groups, codes, events, now, overlapped, admitted>>
  BY DEF Throw, history
<1>. QED
  BY <1>1, <1>2 DEF GroupInv, TypeOK, OwnerIsMember

-----------------------------------------------------------------------------
(***************************************************************************)
(* Requests that read.                                                     *)
(***************************************************************************)

\* Every endpoint starts with a request that is fine.
LEMMA BeginsFine ==
  ASSUME GroupInv, NEW s \in Slots, Endpoint(s)
  PROVE  \E op \in Op : OpFine(op) /\ Begin(s, op)
<1> USE DEF GroupInv
<1>k. /\ {"create", "update", "delete", "invite", "kick", "leave", "transfer"}
           \subseteq Kind \ {"join"}
      /\ {"save", "delete", "insert", "find", "policy", "withdraw"} \subseteq Pc
      /\ "join" \in Kind
  BY DEF Kind, Pc
<1>0. \A g \in Groups : groups[g] # None => groups[g] \in GroupRow /\ Owned(groups[g])
  BY DEF TypeOK, OwnerIsMember, Owned
<1>1. ASSUME NEW u \in Users, NEW g \in Groups, NEW i \in MemberIds,
             CreateReads(s, u, g, i)
      PROVE  \E op \in Op : OpFine(op) /\ Begin(s, op)
  <2> DEFINE op == Holding("create", "save", u, g, Create(u, i))
  <2>1. Create(u, i) \in GroupRow /\ Owned(Create(u, i))
    BY CreateOwned
  <2>2. op \in Op /\ OpFine(op)
    BY <1>k, <2>1, HoldingFine, NoneIsNoRow
  <2>. QED
    BY <1>1, <2>2 DEF CreateReads
<1>2. ASSUME NEW u \in Users, NEW g \in Groups, UpdateReads(s, u, g)
      PROVE  \E op \in Op : OpFine(op) /\ Begin(s, op)
  <2> DEFINE op == Holding("update", "save", u, g, groups[g])
  <2>1. op \in Op /\ OpFine(op)
    BY <1>k, <1>0, <1>2, HoldingFine DEF UpdateReads
  <2>. QED
    BY <1>2, <2>1 DEF UpdateReads
<1>3. ASSUME NEW u \in Users, NEW g \in Groups, DeleteReads(s, u, g)
      PROVE  \E op \in Op : OpFine(op) /\ Begin(s, op)
  <2> DEFINE op == Holding("delete", "delete", u, g, groups[g])
  <2>1. op \in Op /\ OpFine(op)
    BY <1>k, <1>0, <1>3, HoldingFine DEF DeleteReads
  <2>. QED
    BY <1>3, <2>1 DEF DeleteReads
<1>4. ASSUME NEW u \in Users, NEW g \in Groups, InviteReads(s, u, g)
      PROVE  \E op \in Op : OpFine(op) /\ Begin(s, op)
  <2> DEFINE op == Holding("invite", "insert", u, g, None)
  <2>1. op \in Op /\ OpFine(op)
    BY <1>k, HoldingFine
  <2>. QED
    BY <1>4, <2>1 DEF InviteReads
<1>5. ASSUME NEW u \in Users, NEW c \in codes, JoinReads(s, u, c)
      PROVE  \E op \in Op : OpFine(op) /\ Begin(s, op)
  <2> DEFINE base == Holding("join", "find", u, c.group, None)
             op == [base EXCEPT !.code = c]
  <2>1. c \in InviteCode /\ c.group \in Groups
    BY DEF TypeOK, InviteCode
  <2>2. op = [kind |-> "join", pc |-> "find", user |-> u, group |-> c.group,
              copy |-> None, removed |-> {}, code |-> c, from |-> {}]
    BY DEF Holding
  <2> HIDE DEF op
  <2>3. op \in Op
    BY <1>k, <2>1, <2>2 DEF Op
  <2>4. OpFine(op)
    BY <2>1, <2>2, NoneIsNoRow DEF OpFine
  <2>. QED
    BY <1>5, <2>3, <2>4 DEF JoinReads, op, base
<1>6. ASSUME NEW u \in Users, NEW v \in Users, NEW g \in Groups, KickReads(s, u, v, g)
      PROVE  \E op \in Op : OpFine(op) /\ Begin(s, op)
  <2> DEFINE copy == RemoveMember(groups[g], v)
             base == Holding("kick", "save", v, g, copy)
             op == [base EXCEPT !.removed = RowsOf(groups[g], v)]
  <2>1. copy \in GroupRow /\ Owned(copy) /\ RowsOf(groups[g], v) \subseteq MemberIds
    BY <1>0, <1>6, RemoveOwned, RowsAreIds DEF KickReads
  <2>2. op = [kind |-> "kick", pc |-> "save", user |-> v, group |-> g,
              copy |-> copy, removed |-> RowsOf(groups[g], v), code |-> None,
              from |-> {}]
    BY DEF Holding
  <2> HIDE DEF copy, op
  <2>3. op \in Op
    BY <1>k, <2>1, <2>2 DEF Op
  <2>4. OpFine(op)
    BY <2>1, <2>2, NoneIsNoRow DEF OpFine
  <2>. QED
    BY <1>6, <2>3, <2>4 DEF KickReads, copy, op, base
<1>7. ASSUME NEW u \in Users, NEW g \in Groups, LeaveReads(s, u, g)
      PROVE  \E op \in Op : OpFine(op) /\ Begin(s, op)
  <2> DEFINE op == Holding("leave", "policy", u, g, groups[g])
  <2>1. op \in Op /\ OpFine(op)
    BY <1>k, <1>0, <1>7, HoldingFine DEF LeaveReads
  <2>. QED
    BY <1>7, <2>1 DEF LeaveReads
<1>8. ASSUME NEW u \in Users, NEW v \in Users, NEW g \in Groups,
             TransferReads(s, u, v, g)
      PROVE  \E op \in Op : OpFine(op) /\ Begin(s, op)
  <2> DEFINE copy == TransferOwnership(groups[g], v)
             op == Holding("transfer", "save", v, g, copy)
  <2>1. copy \in GroupRow /\ Owned(copy)
    BY <1>0, <1>8, TransferOwned DEF TransferReads
  <2> HIDE DEF copy
  <2>2. op \in Op /\ OpFine(op)
    BY <1>k, <2>1, HoldingFine, NoneIsNoRow
  <2>. QED
    BY <1>8, <2>2 DEF TransferReads, copy
<1>. QED
  BY <1>1, <1>2, <1>3, <1>4, <1>5, <1>6, <1>7, <1>8
     DEF Endpoint, PostGroup, PatchGroup, DeleteGroup, PostJoin, PostInviteCode,
         DeleteMember, DeleteLeave, PostTransferOwnership

LEMMA EndpointKeeps ==
  ASSUME GroupInv, NEW s \in Slots, Endpoint(s)
  PROVE  GroupInv'
<1>1. PICK op \in Op : OpFine(op) /\ Begin(s, op)
  BY BeginsFine
<1>2. ops' \in [Slots -> Op \cup {Idle}] /\ OpsFine'
  BY <1>1, OpStep DEF Begin
<1>3. overlapped' \in BOOLEAN
  BY <1>1, Zenon DEF Begin
<1>4. UNCHANGED <<groups, codes, events, now, admitted>>
  BY DEF Endpoint, Reading
<1>. QED
  BY <1>2, <1>3, <1>4 DEF GroupInv, TypeOK, OwnerIsMember

-----------------------------------------------------------------------------
(***************************************************************************)
(* Requests that go on.                                                    *)
(***************************************************************************)

\* What a step that writes no group leaves of the invariant.
LEMMA GroupsStay ==
  ASSUME GroupInv, ops' \in [Slots -> Op \cup {Idle}], OpsFine',
         UNCHANGED <<groups, now, overlapped, admitted>>,
         codes' \subseteq InviteCode,
         events' \in [Events -> EventRow \cup {None}]
  PROVE  GroupInv'
BY DEF GroupInv, TypeOK, OwnerIsMember

\* A joiner is added to the group as the request has just found it.
LEMMA JoinAddsKeeps ==
  ASSUME GroupInv, NEW s \in Slots, NEW i \in MemberIds, JoinAdds(s, i)
  PROVE  GroupInv'
<1> DEFINE cur == ops[s]
           g == groups[cur.group]
           copy == AddMember(g, i, cur.user)
           code == MarkAsUsed(cur.code)
           base == Holding("join", "save", cur.user, cur.group, copy)
           op == [base EXCEPT !.code = code]
<1>1. cur \in Op /\ OpFine(cur) /\ cur.kind = "join"
  BY InFlight DEF JoinAdds, At
<1>2. cur.user \in Users /\ cur.group \in Groups /\ cur.code \in InviteCode
  BY <1>1 DEF Op, OpFine
<1>3. g \in GroupRow /\ Owned(g)
  BY <1>2 DEF JoinAdds, Admits, GroupInv, TypeOK, OwnerIsMember, Owned
<1>4. copy \in GroupRow /\ Owned(copy)
  BY <1>2, <1>3, AddOwned
<1>5. code \in InviteCode
  BY <1>2 DEF MarkAsUsed, InviteCode
<1>6. ops' = [ops EXCEPT ![s] = op]
  BY DEF JoinAdds, Goto
<1> HIDE DEF copy, code
<1>7. op = [kind |-> "join", pc |-> "save", user |-> cur.user,
            group |-> cur.group, copy |-> copy, removed |-> {}, code |-> code,
            from |-> {}]
  BY DEF Holding
<1> HIDE DEF op
<1>8. op \in Op
  BY <1>2, <1>4, <1>5, <1>7 DEF Op, Pc, Kind
<1>9. OpFine(op)
  BY <1>4, <1>5, <1>7, NoneIsNoRow DEF OpFine
<1>10. ops' \in [Slots -> Op \cup {Idle}] /\ OpsFine'
  BY <1>6, <1>8, <1>9, OpStep
<1>. QED
  BY <1>10, GroupsStay DEF JoinAdds, history, GroupInv, TypeOK

LEMMA InviteInsertsKeeps ==
  ASSUME GroupInv, NEW s \in Slots, NEW v \in CodeValues, InviteInserts(s, v)
  PROVE  GroupInv'
<1> DEFINE g == ops[s].group
           c == [code |-> v, group |-> g, expires |-> now + Lifetime, used |-> FALSE]
<1>1. g \in Groups
  BY InFlight DEF InviteInserts, At, Op
<1>2. c \in InviteCode
  BY <1>1, LimitsArePositive DEF InviteCode, GroupInv, TypeOK
<1>3. codes' \subseteq InviteCode
  BY <1>2 DEF InviteInserts, Upsert, GroupInv, TypeOK
<1>4. ops' \in [Slots -> Op \cup {Idle}] /\ OpsFine'
  BY OpStep, IdleIsFine DEF InviteInserts, Return, Goto
<1>. QED
  BY <1>3, <1>4, GroupsStay DEF InviteInserts, history, GroupInv, TypeOK

LEMMA LeaveChecksKeeps ==
  ASSUME GroupInv, NEW s \in Slots, LeaveChecks(s)
  PROVE  GroupInv'
<1> DEFINE cur == ops[s]
           ids == FindWithdrawableEventIds(cur.user, cur.group)
           base == Holding("leave", "withdraw", cur.user, cur.group, cur.copy)
           op == [base EXCEPT !.from = ids]
<1>1. cur \in Op /\ OpFine(cur) /\ cur.pc = "policy"
  BY InFlight DEF LeaveChecks, At
<1>2. /\ cur.user \in Users /\ cur.group \in Groups
      /\ cur.copy \in GroupRow /\ Owned(cur.copy)
  BY <1>1 DEF Op, OpFine
<1>3. ids \in SUBSET Events
  BY DEF FindWithdrawableEventIds, EventsOf
<1>4. ops' = [ops EXCEPT ![s] = op]
  BY DEF LeaveChecks, Goto
<1> HIDE DEF ids
<1>5. op = [kind |-> "leave", pc |-> "withdraw", user |-> cur.user,
            group |-> cur.group, copy |-> cur.copy, removed |-> {},
            code |-> None, from |-> ids]
  BY DEF Holding
<1> HIDE DEF op
<1>6. op \in Op
  BY <1>2, <1>3, <1>5 DEF Op, Pc, Kind
<1>7. OpFine(op)
  BY <1>2, <1>5, NoneIsNoRow DEF OpFine
<1>8. ops' \in [Slots -> Op \cup {Idle}] /\ OpsFine'
  BY <1>4, <1>6, <1>7, OpStep
<1>. QED
  BY <1>8, GroupsStay DEF LeaveChecks, history, GroupInv, TypeOK

\* The copy of a leave loses the leaver only when the leaver is not its owner.
LEMMA LeaveWithdrawsKeeps ==
  ASSUME GroupInv, NEW s \in Slots, LeaveWithdraws(s)
  PROVE  GroupInv'
<1> DEFINE cur == ops[s]
           u == cur.user
           copy == RemoveMember(cur.copy, u)
           removed == RowsOf(cur.copy, u)
           base == Holding("leave", "save", u, cur.group, copy)
           op == [base EXCEPT !.removed = removed]
<1>1. cur \in Op /\ OpFine(cur) /\ cur.pc = "withdraw"
  BY InFlight DEF LeaveWithdraws, At
<1>2. /\ u \in Users /\ cur.group \in Groups
      /\ cur.copy \in GroupRow /\ Owned(cur.copy)
  BY <1>1 DEF OpFine, Op
<1>3. events' \in [Events -> EventRow \cup {None}]
  <2> SUFFICES ASSUME NEW e \in Events, events[e] # None
               PROVE  [events[e] EXCEPT !.participants = @ \ {u}] \in EventRow
    BY DEF LeaveWithdraws, WithdrawFromEvents, GroupInv, TypeOK
  <2>1. events[e] \in EventRow
    BY DEF GroupInv, TypeOK
  <2>. QED
    BY <2>1 DEF EventRow
<1>4. ASSUME CanRemove(cur.copy, u)
      PROVE  ops' \in [Slots -> Op \cup {Idle}] /\ OpsFine'
  <2>1. copy \in GroupRow /\ Owned(copy) /\ removed \subseteq MemberIds
    BY <1>2, <1>4, RemoveOwned, RowsAreIds
  <2>2. ops' = [ops EXCEPT ![s] = op]
    BY <1>4 DEF LeaveWithdraws, Goto
  <2> HIDE DEF copy, removed
  <2>3. op = [kind |-> "leave", pc |-> "save", user |-> u, group |-> cur.group,
              copy |-> copy, removed |-> removed, code |-> None, from |-> {}]
    BY DEF Holding
  <2> HIDE DEF op
  <2>4. op \in Op
    BY <1>2, <2>1, <2>3 DEF Op, Pc, Kind
  <2>5. OpFine(op)
    BY <2>1, <2>3, NoneIsNoRow DEF OpFine
  <2>. QED
    BY <2>2, <2>4, <2>5, OpStep
<1>5. ASSUME ~CanRemove(cur.copy, u)
      PROVE  ops' \in [Slots -> Op \cup {Idle}] /\ OpsFine'
  BY <1>5, OpStep, IdleIsFine DEF LeaveWithdraws, Return, Goto
<1>6. ops' \in [Slots -> Op \cup {Idle}] /\ OpsFine'
  BY <1>4, <1>5
<1>. QED
  BY <1>3, <1>6, GroupsStay DEF LeaveWithdraws, history, GroupInv, TypeOK

\* A save writes the copy's owner and members.
LEMMA SaveKeeps ==
  ASSUME GroupInv, NEW s \in Slots, Save(s)
  PROVE  GroupInv'
<1> DEFINE cur == ops[s]
           g == cur.group
           row == Saved(g, cur.copy, cur.removed)
<1>1. cur \in Op /\ OpFine(cur) /\ cur.pc = "save"
  BY InFlight DEF Save
<1>2. g \in Groups /\ cur.copy \in GroupRow /\ Owned(cur.copy)
  BY <1>1 DEF OpFine, Op
<1>3. row \in GroupRow /\ Owned(row)
  BY <1>2, SavedOwned DEF GroupInv
<1>4. groups' = [groups EXCEPT ![g] = row]
  BY DEF Save
<1> HIDE DEF row
<1>5. groups' \in [Groups -> GroupRow \cup {None}] /\ OwnerIsMember'
  BY <1>2, <1>3, <1>4 DEF GroupInv, TypeOK, OwnerIsMember, Owned
<1>6. ASSUME cur.kind = "join"
      PROVE  codes' \subseteq InviteCode /\ admitted' \in [CodeValues -> Nat]
  <2>1. cur.code \in InviteCode
    BY <1>1, <1>6 DEF OpFine, Op
  <2>. QED
    BY <1>6, <2>1 DEF Save, Upsert, InviteCode, GroupInv, TypeOK
<1>7. codes' \subseteq InviteCode /\ admitted' \in [CodeValues -> Nat]
  BY <1>6 DEF Save, GroupInv, TypeOK
<1>8. ops' \in [Slots -> Op \cup {Idle}] /\ OpsFine'
  BY OpStep, IdleIsFine DEF Save, Return, Goto
<1>9. UNCHANGED <<events, now, overlapped>>
  BY DEF Save
<1>. QED
  BY <1>5, <1>7, <1>8, <1>9 DEF GroupInv, TypeOK

LEMMA DeleteCommitsKeeps ==
  ASSUME GroupInv, NEW s \in Slots, DeleteCommits(s)
  PROVE  GroupInv'
<1>1. groups' \in [Groups -> GroupRow \cup {None}] /\ OwnerIsMember'
  BY DEF DeleteCommits, GroupInv, TypeOK, OwnerIsMember
<1>2. codes' \subseteq InviteCode /\ events' \in [Events -> EventRow \cup {None}]
  BY DEF DeleteCommits, GroupInv, TypeOK
<1>3. admitted' \in [CodeValues -> Nat]
  BY DEF DeleteCommits, GroupInv, TypeOK
<1>4. ops' \in [Slots -> Op \cup {Idle}] /\ OpsFine'
  BY OpStep, IdleIsFine DEF DeleteCommits, Return, Goto
<1>5. UNCHANGED <<now, overlapped>>
  BY DEF DeleteCommits
<1>. QED
  BY <1>1, <1>2, <1>3, <1>4, <1>5 DEF GroupInv, TypeOK

-----------------------------------------------------------------------------
(***************************************************************************)
(* The environment and the specification.                                  *)
(***************************************************************************)
LEMMA EnvironmentKeeps ==
  ASSUME GroupInv, Environment
  PROVE  GroupInv'
<1>1. ASSUME events' \in [Events -> EventRow \cup {None}], Overlapping
      PROVE  GroupInv'
  <2>1. overlapped' \in BOOLEAN
    BY <1>1, Zenon DEF Overlapping
  <2>2. UNCHANGED <<groups, codes, ops, now, admitted>>
    BY <1>1 DEF Overlapping
  <2>. QED
    BY <1>1, <2>1, <2>2 DEF GroupInv, TypeOK, OwnerIsMember, OpsFine
<1>2. ASSUME NEW e \in Events, NEW u \in Users, EventJoined(e, u)
      PROVE  GroupInv'
  <2>1. events[e] \in EventRow
    BY <1>2 DEF EventJoined, GroupInv, TypeOK
  <2>2. [events[e] EXCEPT !.participants = @ \cup {u}] \in EventRow
    BY <2>1 DEF EventRow
  <2>3. events' \in [Events -> EventRow \cup {None}]
    BY <1>2, <2>2 DEF EventJoined, GroupInv, TypeOK
  <2>. QED
    BY <1>1, <1>2, <2>3 DEF EventJoined
<1>3. ASSUME NEW e \in Events, NEW g \in Groups, NEW u \in Users, EventOpens(e, g, u)
      PROVE  GroupInv'
  <2>1. [group |-> g, creator |-> u, status |-> "RECRUITING",
         participants |-> {u}] \in EventRow
    BY DEF EventRow, EventStatus
  <2>2. events' \in [Events -> EventRow \cup {None}]
    BY <1>3, <2>1 DEF EventOpens, GroupInv, TypeOK
  <2>. QED
    BY <1>1, <1>3, <2>2 DEF EventOpens
<1>4. ASSUME NEW e \in Events, EventAdvances(e)
      PROVE  GroupInv'
  <2>1. events[e] \in EventRow
    BY <1>4 DEF EventAdvances, GroupInv, TypeOK
  <2>2. NextStatus[events[e].status] \in EventStatus
    BY <1>4 DEF EventAdvances, NextStatus, EventStatus
  <2>3. [events[e] EXCEPT !.status = NextStatus[@]] \in EventRow
    BY <2>1, <2>2 DEF EventRow
  <2>4. events' \in [Events -> EventRow \cup {None}]
    BY <1>4, <2>3 DEF EventAdvances, GroupInv, TypeOK
  <2>. QED
    BY <1>1, <1>4, <2>4 DEF EventAdvances
<1>5. CASE Tick
  BY <1>5 DEF Tick, history, GroupInv, TypeOK, OwnerIsMember, OpsFine
<1>. QED
  BY <1>2, <1>3, <1>4, <1>5 DEF Environment

LEMMA ContinuationKeeps ==
  ASSUME GroupInv, NEW s \in Slots, Continuation(s)
  PROVE  GroupInv'
BY JoinAddsKeeps, InviteInsertsKeeps, LeaveChecksKeeps, LeaveWithdrawsKeeps,
   SaveKeeps, DeleteCommitsKeeps, ThrowKeeps
   DEF Continuation, JoinRefused, InviteFails, LeaveForbidden, SaveFails,
       DeleteFails

LEMMA GroupInvInit == Init => GroupInv
<1> SUFFICES ASSUME Init PROVE GroupInv
  OBVIOUS
<1>1. TypeOK
  BY DEF Init, TypeOK
<1>2. \A s \in Slots : ops[s] = Idle
  BY DEF Init
<1>3. OpsFine
  BY <1>2, IdleIsFine DEF OpsFine
<1>4. OwnerIsMember
  BY DEF Init, OwnerIsMember
<1>. QED
  BY <1>1, <1>3, <1>4 DEF GroupInv

LEMMA GroupInvStep == GroupInv /\ [Next]_vars => GroupInv'
<1>1. ASSUME GroupInv, UNCHANGED vars PROVE GroupInv'
  BY <1>1 DEF vars, history, GroupInv, TypeOK, OpsFine, OwnerIsMember
<1>. QED
  BY <1>1, EndpointKeeps, ContinuationKeeps, EnvironmentKeeps DEF Next

LEMMA GroupInvariant == Spec => []GroupInv
BY GroupInvInit, GroupInvStep, PTL DEF Spec

\* The rows of groups, members, codes and events keep their form.
THEOREM GroupTypeCorrect == Spec => []TypeOK
BY GroupInvariant, PTL DEF GroupInv

\* Whatever transfers, kicks, leaves, joins and stale saves overlap, and
\* however many, the owner of a group is one of its members, as owner.
THEOREM OwnerStaysMember == Spec => []OwnerIsMember
BY GroupInvariant, PTL DEF GroupInv

-----------------------------------------------------------------------------
(***************************************************************************)
(* Requests that do not overlap.  The first invariant holds whatever       *)
(* happens: the rows of a group differ in their users and in their ids.    *)
(* The others say what "overlapped" keeps: while it is false one request   *)
(* at most is in flight, so its copy covers the group as it is now, the    *)
(* code it holds is the one in the table, and no event changes behind it.  *)
(***************************************************************************)
Apart(g) ==
  \A m, n \in g.members : m.user = n.user \/ m.id = n.id => m = n
RowsApart == \A g \in Groups : groups[g] # None => Apart(groups[g])
CopiesApart == \A s \in Slots : ops[s].copy # None => Apart(ops[s].copy)

Alone ==
  ~overlapped => \A s, t \in Slots : ops[s] # Idle /\ ops[t] # Idle => s = t

\* Every member row of the group is one the copy will write or delete.
Covers(op) ==
  /\ RowIds(MembersOf(op.group)) \subseteq RowIds(op.copy.members) \cup op.removed
  /\ op.pc # "save" => op.removed = {}
SoleOwner(g) == \A m \in g.members : m.role = "OWNER" => m.user = g.owner
RowsSole == \A g \in Groups : groups[g] # None => SoleOwner(groups[g])
CopySole(op) == op.copy # None => SoleOwner(op.copy) /\ Covers(op)
OwnersSole == ~overlapped => RowsSole /\ \A s \in Slots : CopySole(ops[s])

\* What is proved of every state before the properties of single requests.
BaseInv == GroupInv /\ RowsApart /\ CopiesApart /\ Alone

-----------------------------------------------------------------------------
(***************************************************************************)
(* The aggregate's operations once more: users and ids stay distinct, the  *)
(* owner's role stays with one, and no row is lost from sight.             *)
(***************************************************************************)
LEMMA CreateApart ==
  ASSUME NEW u \in Users, NEW i \in MemberIds
  PROVE  Apart(Create(u, i)) /\ SoleOwner(Create(u, i))
BY DEF Create, NewMember, Apart, SoleOwner

LEMMA AddApart ==
  ASSUME NEW g \in GroupRow, NEW i \in MemberIds, NEW u \in Users, Apart(g),
         ~HasMember(g, u), i \notin RowIds(g.members)
  PROVE  /\ Apart(AddMember(g, i, u))
         /\ SoleOwner(g) => SoleOwner(AddMember(g, i, u))
         /\ RowIds(g.members) \subseteq RowIds(AddMember(g, i, u).members)
<1>1. AddMember(g, i, u)
        = [owner |-> g.owner, members |-> g.members \cup {NewMember(i, u, "MEMBER")}]
  BY DEF AddMember, GroupRow
<1>2. NewMember(i, u, "MEMBER") = [id |-> i, user |-> u, role |-> "MEMBER"]
  BY DEF NewMember
<1>. QED
  BY <1>1, <1>2 DEF Apart, SoleOwner, HasMember, RowIds

LEMMA RemoveApart ==
  ASSUME NEW g \in GroupRow, NEW u \in Users, Apart(g)
  PROVE  /\ Apart(RemoveMember(g, u))
         /\ SoleOwner(g) => SoleOwner(RemoveMember(g, u))
         /\ RowIds(g.members)
              \subseteq RowIds(RemoveMember(g, u).members) \cup RowsOf(g, u)
<1>1. RemoveMember(g, u)
        = [owner |-> g.owner, members |-> {m \in g.members : m.user # u}]
  BY DEF RemoveMember, GroupRow
<1>2. Apart(RemoveMember(g, u))
  BY <1>1 DEF Apart
<1>3. SoleOwner(g) => SoleOwner(RemoveMember(g, u))
  BY <1>1 DEF SoleOwner
<1>4. ASSUME NEW m \in g.members
      PROVE  m.id \in RowIds(RemoveMember(g, u).members) \cup RowsOf(g, u)
  BY <1>1 DEF RowIds, RowsOf
<1>5. RowIds(g.members)
        \subseteq RowIds(RemoveMember(g, u).members) \cup RowsOf(g, u)
  BY <1>4 DEF RowIds
<1>. QED
  BY <1>2, <1>3, <1>5

\* demoteToMember and promoteToOwner change the roles of two rows.
LEMMA TransferApart ==
  ASSUME NEW g \in GroupRow, NEW u \in Users, Apart(g)
  PROVE  /\ Apart(TransferOwnership(g, u))
         /\ SoleOwner(g) => SoleOwner(TransferOwnership(g, u))
         /\ RowIds(g.members) \subseteq RowIds(TransferOwnership(g, u).members)
<1> DEFINE f(m) == [m EXCEPT !.role = IF m.user = u THEN "OWNER"
                                      ELSE IF m.user = g.owner THEN "MEMBER" ELSE @]
<1>1. TransferOwnership(g, u) = [owner |-> u, members |-> {f(m) : m \in g.members}]
  BY DEF TransferOwnership
<1>2. \A m \in g.members : f(m).user = m.user /\ f(m).id = m.id
  BY DEF GroupRow, Member
<1>3. ASSUME SoleOwner(g), NEW m \in g.members, f(m).role = "OWNER"
      PROVE  f(m).user = u
  BY <1>3 DEF GroupRow, Member, Role, SoleOwner
<1> HIDE DEF f
<1>4. Apart(TransferOwnership(g, u))
  BY <1>1, <1>2 DEF Apart
<1>5. SoleOwner(g) => SoleOwner(TransferOwnership(g, u))
  BY <1>1, <1>3 DEF SoleOwner
<1>6. ASSUME NEW m \in g.members
      PROVE  m.id \in RowIds(TransferOwnership(g, u).members)
  BY <1>1, <1>2 DEF RowIds
<1>7. RowIds(g.members) \subseteq RowIds(TransferOwnership(g, u).members)
  BY <1>6 DEF RowIds
<1>. QED
  BY <1>4, <1>5, <1>7

\* The key on group and user, and the ids of the copy, keep the rows apart.
LEMMA SavedApart ==
  ASSUME TypeOK, RowsApart, NEW g \in Groups, NEW copy \in GroupRow, NEW removed,
         Apart(copy), ~ViolatesKey(g, copy, removed)
  PROVE  Apart(Saved(g, copy, removed))
<1> DEFINE kept == {m \in Kept(g, removed) : m.id \notin RowIds(copy.members)}
<1>1. \A m, n \in kept : m.user = n.user \/ m.id = n.id => m = n
  BY DEF Kept, MembersOf, RowsApart, Apart
<1>2. \A m \in kept, n \in copy.members : m.user # n.user /\ m.id # n.id
  BY DEF ViolatesKey, RowIds
<1>3. Saved(g, copy, removed).members = kept \cup copy.members
  BY DEF Saved
<1> HIDE DEF kept
<1>. QED
  BY <1>1, <1>2, <1>3 DEF Apart

\* A copy that covers the group replaces all of its rows.
LEMMA SavedSole ==
  ASSUME NEW g \in Groups, NEW copy, NEW removed, SoleOwner(copy),
         RowIds(MembersOf(g)) \subseteq RowIds(copy.members) \cup removed
  PROVE  SoleOwner(Saved(g, copy, removed))
<1>1. \A m \in MembersOf(g) : m.id \in RowIds(MembersOf(g))
  BY DEF RowIds
<1>2. {m \in Kept(g, removed) : m.id \notin RowIds(copy.members)} = {}
  BY <1>1 DEF Kept
<1>. QED
  BY <1>2 DEF Saved, SoleOwner

-----------------------------------------------------------------------------
(***************************************************************************)
(* What a step puts in its slot.                                           *)
(***************************************************************************)

\* What a request holds after its read.
Begun(op) ==
  /\ op.copy # None => Apart(op.copy) /\ Covers(op)
                       /\ (RowsSole => SoleOwner(op.copy))
  /\ op.kind = "join" => op.pc = "find" /\ op.code \in codes /\ ~op.code.used
  /\ op.kind = "leave" => op.pc = "policy"

LEMMA BeginsApart ==
  ASSUME GroupInv, RowsApart, NEW s \in Slots, Endpoint(s)
  PROVE  \E op : Begin(s, op) /\ Begun(op)
<1> USE DEF GroupInv
<1>0. \A g \in Groups : groups[g] # None =>
        groups[g] \in GroupRow /\ Apart(groups[g]) /\ MembersOf(g) = groups[g].members
  BY DEF TypeOK, RowsApart, MembersOf
<1>1. ASSUME NEW kind \in {"create", "update", "delete", "transfer"}, NEW pc, NEW u,
             NEW g \in Groups, NEW copy,
             Begin(s, Holding(kind, pc, u, g, copy)), Apart(copy),
             RowIds(MembersOf(g)) \subseteq RowIds(copy.members),
             RowsSole => SoleOwner(copy)
      PROVE  \E op : Begin(s, op) /\ Begun(op)
  <2>1. /\ Holding(kind, pc, u, g, copy).kind = kind
        /\ Holding(kind, pc, u, g, copy).copy = copy
        /\ Holding(kind, pc, u, g, copy).group = g
        /\ Holding(kind, pc, u, g, copy).removed = {}
    BY DEF Holding
  <2>2. Begun(Holding(kind, pc, u, g, copy))
    BY <1>1, <2>1 DEF Begun, Covers
  <2>. QED
    BY <1>1, <2>2
<1>2. ASSUME NEW u \in Users, NEW g \in Groups, NEW i \in MemberIds,
             CreateReads(s, u, g, i)
      PROVE  \E op : Begin(s, op) /\ Begun(op)
  <2>1. RowIds(MembersOf(g)) = {}
    BY <1>2 DEF CreateReads, FreshGroup, MembersOf, RowIds
  <2>. QED
    BY <1>1, <1>2, <2>1, CreateApart DEF CreateReads
<1>3. ASSUME NEW u \in Users, NEW g \in Groups, UpdateReads(s, u, g)
      PROVE  \E op : Begin(s, op) /\ Begun(op)
  BY <1>0, <1>1, <1>3 DEF UpdateReads, RowsSole
<1>4. ASSUME NEW u \in Users, NEW g \in Groups, DeleteReads(s, u, g)
      PROVE  \E op : Begin(s, op) /\ Begun(op)
  BY <1>0, <1>1, <1>4 DEF DeleteReads, RowsSole
<1>5. ASSUME NEW u \in Users, NEW g \in Groups, InviteReads(s, u, g)
      PROVE  \E op : Begin(s, op) /\ Begun(op)
  <2>1. Begun(Holding("invite", "insert", u, g, None))
    BY DEF Begun, Holding
  <2>. QED
    BY <1>5, <2>1 DEF InviteReads
<1>6. ASSUME NEW u \in Users, NEW c \in codes, JoinReads(s, u, c)
      PROVE  \E op : Begin(s, op) /\ Begun(op)
  <2> DEFINE base == Holding("join", "find", u, c.group, None)
             op == [base EXCEPT !.code = c]
  <2>1. op.kind = "join" /\ op.pc = "find" /\ op.copy = None /\ op.code = c
    BY DEF Holding
  <2> HIDE DEF op
  <2>2. Begun(op)
    BY <1>6, <2>1 DEF Begun, JoinReads, IsValid
  <2>. QED
    BY <1>6, <2>2 DEF JoinReads, op, base
<1>7. ASSUME NEW u \in Users, NEW v \in Users, NEW g \in Groups, KickReads(s, u, v, g)
      PROVE  \E op : Begin(s, op) /\ Begun(op)
  <2> DEFINE copy == RemoveMember(groups[g], v)
             base == Holding("kick", "save", v, g, copy)
             op == [base EXCEPT !.removed = RowsOf(groups[g], v)]
  <2>1. /\ op.kind = "kick" /\ op.pc = "save" /\ op.group = g /\ op.copy = copy
        /\ op.removed = RowsOf(groups[g], v)
    BY DEF Holding
  <2>2. /\ Apart(copy)
        /\ SoleOwner(groups[g]) => SoleOwner(copy)
        /\ RowIds(MembersOf(g)) \subseteq RowIds(copy.members) \cup RowsOf(groups[g], v)
    BY <1>0, <1>7, RemoveApart DEF KickReads
  <2> HIDE DEF copy, op
  <2>3. Begun(op)
    BY <1>7, <2>1, <2>2 DEF Begun, Covers, RowsSole, KickReads
  <2>. QED
    BY <1>7, <2>3 DEF KickReads, op, base, copy
<1>8. ASSUME NEW u \in Users, NEW g \in Groups, LeaveReads(s, u, g)
      PROVE  \E op : Begin(s, op) /\ Begun(op)
  <2> DEFINE op == Holding("leave", "policy", u, g, groups[g])
  <2>1. /\ op.kind = "leave" /\ op.pc = "policy" /\ op.group = g
        /\ op.copy = groups[g] /\ op.removed = {}
    BY DEF Holding
  <2> HIDE DEF op
  <2>2. Begun(op)
    BY <1>0, <1>8, <2>1 DEF Begun, Covers, RowsSole, LeaveReads
  <2>. QED
    BY <1>8, <2>2 DEF LeaveReads, op
<1>9. ASSUME NEW u \in Users, NEW v \in Users, NEW g \in Groups,
             TransferReads(s, u, v, g)
      PROVE  \E op : Begin(s, op) /\ Begun(op)
  <2>1. groups[g] # None
    BY <1>9 DEF TransferReads
  <2>. QED
    BY <1>0, <1>1, <1>9, <2>1, TransferApart DEF TransferReads, RowsSole
<1>. QED
  BY <1>2, <1>3, <1>4, <1>5, <1>6, <1>7, <1>8, <1>9
     DEF Endpoint, PostGroup, PatchGroup, DeleteGroup, PostJoin, PostInviteCode,
         DeleteMember, DeleteLeave, PostTransferOwnership

\* A joiner's request after findById: the group as found, with the joiner.
LEMMA JoinAddsOp ==
  ASSUME GroupInv, RowsApart, NEW s \in Slots, NEW i \in MemberIds, JoinAdds(s, i)
  PROVE  \E op : /\ ops' = [ops EXCEPT ![s] = op]
                 /\ op # Idle /\ op.kind = "join" /\ op.pc = "save"
                 /\ op.code = MarkAsUsed(ops[s].code)
                 /\ op.copy # None /\ Apart(op.copy) /\ Covers(op)
                 /\ RowsSole => SoleOwner(op.copy)
<1> DEFINE cur == ops[s]
           g == groups[cur.group]
           copy == AddMember(g, i, cur.user)
           base == Holding("join", "save", cur.user, cur.group, copy)
           op == [base EXCEPT !.code = MarkAsUsed(cur.code)]
<1>1. cur \in Op /\ cur.group \in Groups /\ cur.user \in Users
  BY InFlight DEF JoinAdds, At, Op
<1>2. g # None /\ g \in GroupRow /\ Apart(g) /\ MembersOf(cur.group) = g.members
  BY <1>1 DEF JoinAdds, Admits, GroupInv, TypeOK, RowsApart, MembersOf
<1>3. ~HasMember(g, cur.user) /\ i \notin RowIds(g.members)
  BY <1>1, <1>2 DEF JoinAdds, Admits, FreshId
<1>4. /\ Apart(copy)
      /\ SoleOwner(g) => SoleOwner(copy)
      /\ RowIds(g.members) \subseteq RowIds(copy.members)
  BY <1>1, <1>2, <1>3, AddApart
<1>5. copy # None
  BY NoneIsNoRow, <1>1, <1>2 DEF AddMember, GroupRow, NewMember, Member, Role
<1>6. /\ op.kind = "join" /\ op.pc = "save" /\ op.group = cur.group
      /\ op.copy = copy /\ op.code = MarkAsUsed(cur.code)
  BY DEF Holding
<1>7. ops' = [ops EXCEPT ![s] = op]
  BY DEF JoinAdds, Goto
<1> HIDE DEF op, copy
<1>8. op # Idle
  BY <1>6 DEF Idle
<1>. QED
  BY <1>1, <1>2, <1>4, <1>5, <1>6, <1>7, <1>8 DEF Covers, RowsSole

LEMMA LeaveChecksOp ==
  ASSUME GroupInv, NEW s \in Slots, LeaveChecks(s)
  PROVE  \E op : /\ ops' = [ops EXCEPT ![s] = op]
                 /\ op # Idle /\ op.kind = "leave" /\ op.pc = "withdraw"
                 /\ op.user = ops[s].user /\ op.group = ops[s].group
                 /\ op.copy = ops[s].copy /\ op.removed = {}
                 /\ op.from = FindWithdrawableEventIds(op.user, op.group)
<1> DEFINE cur == ops[s]
           base == Holding("leave", "withdraw", cur.user, cur.group, cur.copy)
           op == [base EXCEPT !.from = FindWithdrawableEventIds(cur.user, cur.group)]
<1>1. /\ op.kind = "leave" /\ op.pc = "withdraw" /\ op.group = cur.group
      /\ op.user = cur.user /\ op.copy = cur.copy /\ op.removed = {}
      /\ op.from = FindWithdrawableEventIds(cur.user, cur.group)
  BY DEF Holding
<1>2. ops' = [ops EXCEPT ![s] = op]
  BY DEF LeaveChecks, Goto
<1> HIDE DEF op
<1>3. op # Idle
  BY <1>1 DEF Idle
<1>. QED
  BY <1>1, <1>2, <1>3

LEMMA LeaveWithdrawsOp ==
  ASSUME GroupInv, CopiesApart, NEW s \in Slots, LeaveWithdraws(s),
         CanRemove(ops[s].copy, ops[s].user)
  PROVE  \E op : /\ ops' = [ops EXCEPT ![s] = op]
                 /\ op # Idle /\ op.kind = "leave" /\ op.pc = "save"
                 /\ op.user = ops[s].user /\ op.group = ops[s].group
                 /\ op.copy # None /\ Apart(op.copy)
                 /\ SoleOwner(ops[s].copy) => SoleOwner(op.copy)
                 /\ RowIds(ops[s].copy.members)
                      \subseteq RowIds(op.copy.members) \cup op.removed
<1> DEFINE cur == ops[s]
           u == cur.user
           copy == RemoveMember(cur.copy, u)
           base == Holding("leave", "save", u, cur.group, copy)
           op == [base EXCEPT !.removed = RowsOf(cur.copy, u)]
<1>1. cur \in Op /\ OpFine(cur) /\ cur.pc = "withdraw"
  BY InFlight DEF LeaveWithdraws, At
<1>2. u \in Users /\ cur.copy \in GroupRow /\ Apart(cur.copy) /\ Owned(cur.copy)
  BY <1>1 DEF Op, OpFine, CopiesApart
<1>3. copy \in GroupRow
  BY <1>2, RemoveOwned
<1>4. copy # None
  BY <1>3, NoneIsNoRow
<1>5. /\ Apart(copy)
      /\ SoleOwner(cur.copy) => SoleOwner(copy)
      /\ RowIds(cur.copy.members) \subseteq RowIds(copy.members) \cup RowsOf(cur.copy, u)
  BY <1>2, RemoveApart
<1>6. /\ op.kind = "leave" /\ op.pc = "save" /\ op.user = u /\ op.group = cur.group
      /\ op.copy = copy /\ op.removed = RowsOf(cur.copy, u)
  BY DEF Holding
<1>7. ops' = [ops EXCEPT ![s] = op]
  BY DEF LeaveWithdraws, Goto
<1> HIDE DEF op, copy
<1>8. op # Idle
  BY <1>6 DEF Idle
<1>. QED
  BY <1>4, <1>5, <1>6, <1>7, <1>8

-----------------------------------------------------------------------------
(***************************************************************************)
(* Rows stay apart; and while nothing has overlapped, a step of one        *)
(* request finds every other slot idle.                                    *)
(***************************************************************************)
LEMMA ContinuationSlot ==
  ASSUME GroupInv, NEW s \in Slots, Continuation(s)
  PROVE  /\ ops[s] # Idle /\ UNCHANGED <<now, overlapped>>
         /\ \A t \in Slots \ {s} : ops'[t] = ops[t]
<1>1. ops[s].pc # "idle" /\ UNCHANGED <<now, overlapped>>
  BY DEF Continuation, JoinAdds, JoinRefused, InviteInserts, InviteFails,
         LeaveChecks, LeaveForbidden, LeaveWithdraws, Save, SaveFails,
         DeleteCommits, DeleteFails, At, Throw, history
<1>2. \E op : ops' = [ops EXCEPT ![s] = op]
  BY Zenon DEF Continuation, JoinAdds, JoinRefused, InviteInserts, InviteFails,
         LeaveChecks, LeaveForbidden, LeaveWithdraws, Save, SaveFails,
         DeleteCommits, DeleteFails, Throw, Return, Goto
<1>3. \A t \in Slots \ {s} : ops'[t] = ops[t]
  BY <1>2 DEF GroupInv, TypeOK
<1>. QED
  BY <1>1, <1>3 DEF Idle

\* A copy that takes the place of what was in a slot.
LEMMA CopyStep ==
  ASSUME GroupInv, CopiesApart, NEW s \in Slots, NEW op,
         ops' = [ops EXCEPT ![s] = op], op.copy # None => Apart(op.copy)
  PROVE  CopiesApart'
<1>1. \A t \in Slots : ops'[t] = IF t = s THEN op ELSE ops[t]
  BY DEF GroupInv, TypeOK
<1>. QED
  BY <1>1 DEF CopiesApart, Apart

LEMMA ReturnApart ==
  ASSUME GroupInv, CopiesApart, NEW s \in Slots, Return(s)
  PROVE  CopiesApart'
BY CopyStep DEF Return, Goto, Idle

LEMMA SaveApart ==
  ASSUME GroupInv, RowsApart, CopiesApart, NEW s \in Slots, Save(s)
  PROVE  RowsApart' /\ CopiesApart'
<1> DEFINE cur == ops[s]
           g == cur.group
           row == Saved(g, cur.copy, cur.removed)
<1>1. cur \in Op /\ OpFine(cur) /\ cur.pc = "save"
  BY InFlight DEF Save
<1>2. g \in Groups /\ cur.copy \in GroupRow /\ Apart(cur.copy)
  BY <1>1 DEF OpFine, Op, CopiesApart
<1>3. Apart(row)
  BY <1>2, SavedApart DEF Save, GroupInv
<1>4. groups' = [groups EXCEPT ![g] = row] /\ Return(s)
  BY DEF Save
<1> HIDE DEF row
<1>5. \A h \in Groups : groups'[h] = IF h = g THEN row ELSE groups[h]
  BY <1>2, <1>4 DEF GroupInv, TypeOK
<1>6. RowsApart'
  BY <1>3, <1>5 DEF RowsApart, Apart
<1>. QED
  BY <1>4, <1>6, ReturnApart

LEMMA ContinuationApart ==
  ASSUME GroupInv, RowsApart, CopiesApart, NEW s \in Slots, Continuation(s)
  PROVE  RowsApart' /\ CopiesApart'
<1>1. ASSUME UNCHANGED groups PROVE RowsApart'
  BY <1>1 DEF RowsApart, Apart
<1>2. ASSUME UNCHANGED groups, Return(s) PROVE RowsApart' /\ CopiesApart'
  BY <1>1, <1>2, ReturnApart
<1>3. ASSUME NEW i \in MemberIds, JoinAdds(s, i) PROVE RowsApart' /\ CopiesApart'
  <2>1. PICK op : ops' = [ops EXCEPT ![s] = op] /\ Apart(op.copy)
    BY <1>3, JoinAddsOp, Zenon
  <2>. QED
    BY <1>1, <1>3, <2>1, CopyStep DEF JoinAdds
<1>4. ASSUME NEW v \in CodeValues, InviteInserts(s, v) PROVE RowsApart' /\ CopiesApart'
  BY <1>2, <1>4 DEF InviteInserts
<1>5. CASE LeaveChecks(s)
  <2>1. PICK op : ops' = [ops EXCEPT ![s] = op] /\ op.copy = ops[s].copy
    BY <1>5, LeaveChecksOp, Zenon
  <2>2. op.copy # None => Apart(op.copy)
    BY <2>1 DEF CopiesApart
  <2>. QED
    BY <1>1, <1>5, <2>1, <2>2, CopyStep DEF LeaveChecks
<1>6. CASE LeaveWithdraws(s)
  <2>1. CASE CanRemove(ops[s].copy, ops[s].user)
    <3>1. PICK op : ops' = [ops EXCEPT ![s] = op] /\ Apart(op.copy)
      BY <1>6, <2>1, LeaveWithdrawsOp, Zenon
    <3>. QED
      BY <1>1, <1>6, <3>1, CopyStep DEF LeaveWithdraws
  <2>2. CASE ~CanRemove(ops[s].copy, ops[s].user)
    BY <1>2, <1>6, <2>2 DEF LeaveWithdraws
  <2>. QED
    BY <2>1, <2>2
<1>7. CASE DeleteCommits(s)
  <2>1. RowsApart'
    BY <1>7 DEF DeleteCommits, RowsApart, Apart, GroupInv, TypeOK
  <2>. QED
    BY <1>7, <2>1, ReturnApart DEF DeleteCommits
<1>8. CASE Throw(s)
  BY <1>2, <1>8 DEF Throw
<1>. QED
  BY <1>3, <1>4, <1>5, <1>6, <1>7, <1>8, SaveApart
     DEF Continuation, JoinRefused, InviteFails, LeaveForbidden, SaveFails,
         DeleteFails

\* A slot begins, or goes on: the others are idle before and after.
LEMMA AloneStep ==
  ASSUME GroupInv, Alone, NEW s \in Slots, Endpoint(s) \/ Continuation(s),
         ~overlapped'
  PROVE  /\ ~overlapped
         /\ \A t \in Slots \ {s} : ops[t] = Idle /\ ops'[t] = Idle
<1>1. CASE Endpoint(s)
  <2>1. PICK op : Begin(s, op)
    BY <1>1, BeginsFine
  <2>2. ~overlapped /\ \A t \in Slots \ {s} : ops[t] = Idle
    BY <2>1, Zenon DEF Begin
  <2>3. \A t \in Slots \ {s} : ops'[t] = ops[t]
    BY <2>1 DEF Begin, GroupInv, TypeOK
  <2>. QED
    BY <2>2, <2>3
<1>2. CASE Continuation(s)
  BY <1>2, ContinuationSlot DEF Alone
<1>. QED
  BY <1>1, <1>2

\* The environment is the clock, or an event that changes.
LEMMA EnvironmentSteps == Environment => Tick \/ Overlapping
BY Zenon DEF Environment, EventJoined, EventOpens, EventAdvances

LEMMA OverlappingIdle ==
  ASSUME Overlapping, ~overlapped'
  PROVE  ~overlapped /\ \A s \in Slots : ops[s] = Idle
BY Zenon DEF Overlapping

LEMMA BaseInvariant == Spec => []BaseInv
<1>1. Init => BaseInv
  <2> SUFFICES ASSUME Init PROVE RowsApart /\ CopiesApart /\ Alone
    BY GroupInvInit DEF BaseInv
  <2>. QED
    BY DEF Init, RowsApart, CopiesApart, Alone, Idle
<1>2. BaseInv /\ [Next]_vars => BaseInv'
  <2> SUFFICES ASSUME BaseInv, [Next]_vars
               PROVE  RowsApart' /\ CopiesApart' /\ Alone'
    BY GroupInvStep DEF BaseInv
  <2> USE DEF BaseInv
  <2>1. ASSUME UNCHANGED <<groups, ops>>,
               ~overlapped' => ~overlapped
        PROVE  RowsApart' /\ CopiesApart' /\ Alone'
    BY <2>1 DEF RowsApart, CopiesApart, Apart, Alone
  <2>2. ASSUME NEW s \in Slots, Endpoint(s) \/ Continuation(s)
        PROVE  Alone'
    BY <2>2, AloneStep, Zenon DEF Alone
  <2>3. ASSUME NEW s \in Slots, Endpoint(s)
        PROVE  RowsApart' /\ CopiesApart' /\ Alone'
    <3>1. PICK op : Begin(s, op) /\ Begun(op)
      BY <2>3, BeginsApart
    <3>2. CopiesApart'
      BY <3>1, CopyStep DEF Begin, Begun
    <3>3. RowsApart'
      BY <2>3 DEF Endpoint, Reading, RowsApart, Apart
    <3>. QED
      BY <2>2, <2>3, <3>2, <3>3
  <2>4. ASSUME NEW s \in Slots, Continuation(s)
        PROVE  RowsApart' /\ CopiesApart' /\ Alone'
    BY <2>2, <2>4, ContinuationApart
  <2>5. CASE Environment
    <3>1. CASE Tick
      BY <2>1, <3>1 DEF Tick, history
    <3>2. CASE Overlapping
      <4>1. UNCHANGED <<groups, ops>>
        BY <3>2 DEF Overlapping
      <4>. QED
        BY <2>1, <3>2, <4>1, OverlappingIdle
    <3>. QED
      BY <2>5, <3>1, <3>2, EnvironmentSteps
  <2>6. CASE UNCHANGED vars
    BY <2>1, <2>6 DEF vars, history
  <2>. QED
    BY <2>3, <2>4, <2>5, <2>6 DEF Next
<1>. QED
  BY <1>1, <1>2, PTL DEF Spec

-----------------------------------------------------------------------------
(***************************************************************************)
(* One row carries the role of owner.                                      *)
(***************************************************************************)

\* The slot of the step is the only one that matters.
LEMMA OwnersStep ==
  ASSUME BaseInv, ~overlapped', NEW s \in Slots, Endpoint(s) \/ Continuation(s),
         RowsSole', CopySole(ops[s])'
  PROVE  OwnersSole'
<1>1. \A t \in Slots \ {s} : ops'[t] = Idle
  BY AloneStep DEF BaseInv
<1>2. \A t \in Slots \ {s} : CopySole(ops[t])'
  BY <1>1 DEF CopySole, Idle
<1>. QED
  BY <1>2 DEF OwnersSole

\* While its group stays as it is, what a request covers it goes on covering.
LEMMA CoversStays ==
  ASSUME UNCHANGED groups, NEW op, Covers(op)
  PROVE  Covers(op)'
BY DEF Covers, MembersOf

LEMMA CopySoleStep ==
  ASSUME BaseInv, UNCHANGED groups, NEW s \in Slots, NEW op,
         ops' = [ops EXCEPT ![s] = op], CopySole(op)
  PROVE  CopySole(ops[s])'
<1>1. ops'[s] = op
  BY DEF BaseInv, GroupInv, TypeOK
<1>2. op.copy # None => SoleOwner(op.copy) /\ Covers(op)'
  BY CoversStays DEF CopySole
<1>3. (op.copy # None => SoleOwner(op.copy) /\ Covers(op)') => CopySole(op)'
  BY DEF CopySole, SoleOwner
<1>4. CopySole(op)' => CopySole(ops[s])'
  BY <1>1 DEF CopySole, SoleOwner, Covers, MembersOf, RowIds
<1>. QED
  BY <1>2, <1>3, <1>4

LEMMA IdleIsSole ==
  ASSUME BaseInv, NEW s \in Slots, Return(s)
  PROVE  CopySole(ops[s])'
<1>1. ops'[s] = Idle
  BY DEF Return, Goto, BaseInv, GroupInv, TypeOK
<1>. QED
  BY <1>1 DEF CopySole, Idle

LEMMA OwnersContinue ==
  ASSUME BaseInv, OwnersSole, ~overlapped', NEW s \in Slots, Continuation(s)
  PROVE  OwnersSole'
<1> USE DEF BaseInv
<1>1. ~overlapped /\ RowsSole /\ CopySole(ops[s])
  BY AloneStep DEF OwnersSole
<1>2. ASSUME UNCHANGED groups PROVE RowsSole'
  BY <1>1, <1>2 DEF RowsSole, SoleOwner
<1>3. ASSUME UNCHANGED groups, Return(s) PROVE OwnersSole'
  BY <1>2, <1>3, IdleIsSole, OwnersStep
<1>4. ASSUME NEW i \in MemberIds, JoinAdds(s, i) PROVE OwnersSole'
  <2>1. PICK op : ops' = [ops EXCEPT ![s] = op] /\ Covers(op) /\ SoleOwner(op.copy)
    BY <1>1, <1>4, JoinAddsOp, Zenon
  <2>2. UNCHANGED groups
    BY <1>4 DEF JoinAdds
  <2>3. CopySole(op)
    BY <2>1 DEF CopySole
  <2>4. CopySole(ops[s])'
    BY <2>1, <2>2, <2>3, CopySoleStep
  <2>. QED
    BY <1>2, <2>2, <2>4, OwnersStep
<1>5. CASE LeaveChecks(s)
  <2>1. PICK op : /\ ops' = [ops EXCEPT ![s] = op] /\ op.copy = ops[s].copy
                  /\ op.group = ops[s].group /\ op.removed = {}
    BY <1>5, LeaveChecksOp, Zenon
  <2>2. UNCHANGED groups
    BY <1>5 DEF LeaveChecks
  <2>3. ops[s].copy # None => ops[s].removed = {}
    BY <1>1, <1>5 DEF LeaveChecks, At, CopySole, Covers
  <2>4. CopySole(op)
    BY <1>1, <2>1, <2>3 DEF CopySole, Covers
  <2>5. CopySole(ops[s])'
    BY <2>1, <2>2, <2>4, CopySoleStep
  <2>. QED
    BY <1>2, <2>2, <2>5, OwnersStep
<1>6. CASE LeaveWithdraws(s)
  <2>1. UNCHANGED groups
    BY <1>6 DEF LeaveWithdraws
  <2>2. CASE CanRemove(ops[s].copy, ops[s].user)
    <3>1. PICK op : /\ ops' = [ops EXCEPT ![s] = op] /\ op.group = ops[s].group
                    /\ op.pc = "save" /\ (SoleOwner(ops[s].copy) => SoleOwner(op.copy))
                    /\ RowIds(ops[s].copy.members)
                         \subseteq RowIds(op.copy.members) \cup op.removed
      BY <1>6, <2>2, LeaveWithdrawsOp, Zenon
    <3>2. ops[s].removed = {} /\ ops[s].copy # None
      BY <1>1, <1>6, InFlight DEF LeaveWithdraws, At, OpFine, CopySole, Covers
    <3>3. CopySole(op)
      BY <1>1, <3>1, <3>2 DEF CopySole, Covers
    <3>4. CopySole(ops[s])'
      BY <2>1, <3>1, <3>3, CopySoleStep
    <3>. QED
      BY <1>2, <2>1, <3>4, OwnersStep
  <2>3. CASE ~CanRemove(ops[s].copy, ops[s].user)
    BY <1>3, <1>6, <2>1, <2>3 DEF LeaveWithdraws
  <2>. QED
    BY <2>2, <2>3
<1>7. CASE Save(s)
  <2> DEFINE cur == ops[s]
             row == Saved(cur.group, cur.copy, cur.removed)
  <2>1. cur.group \in Groups /\ cur.copy # None
    BY <1>7, InFlight DEF Save, OpFine, Op
  <2>2. SoleOwner(row)
    BY <1>1, <2>1, SavedSole DEF CopySole, Covers
  <2>3. groups' = [groups EXCEPT ![cur.group] = row] /\ Return(s)
    BY <1>7 DEF Save
  <2> HIDE DEF row
  <2>4. \A h \in Groups : groups'[h] = IF h = cur.group THEN row ELSE groups[h]
    BY <2>1, <2>3 DEF GroupInv, TypeOK
  <2>5. RowsSole'
    BY <1>1, <2>2, <2>4 DEF RowsSole, SoleOwner
  <2>. QED
    BY <2>3, <2>5, IdleIsSole, OwnersStep
<1>8. CASE DeleteCommits(s)
  <2>1. RowsSole'
    BY <1>1, <1>8 DEF DeleteCommits, RowsSole, SoleOwner, GroupInv, TypeOK
  <2>. QED
    BY <1>8, <2>1, IdleIsSole, OwnersStep DEF DeleteCommits
<1>9. CASE Throw(s)
  BY <1>3, <1>9 DEF Throw
<1>10. ASSUME NEW v \in CodeValues, InviteInserts(s, v) PROVE OwnersSole'
  BY <1>3, <1>10 DEF InviteInserts
<1>. QED
  BY <1>4, <1>5, <1>6, <1>7, <1>8, <1>9, <1>10
     DEF Continuation, JoinRefused, InviteFails, LeaveForbidden, SaveFails,
         DeleteFails

LEMMA OwnersInvariant == Spec => []OwnersSole
<1>1. Init => OwnersSole
  BY DEF Init, OwnersSole, RowsSole, CopySole, Idle
<1>2. BaseInv /\ OwnersSole /\ [Next]_vars => OwnersSole'
  <2> SUFFICES ASSUME BaseInv, OwnersSole, [Next]_vars, ~overlapped'
               PROVE  OwnersSole'
    BY DEF OwnersSole
  <2>1. ASSUME UNCHANGED <<groups, ops>>, ~overlapped
        PROVE  OwnersSole'
    BY <2>1 DEF OwnersSole, RowsSole, CopySole, SoleOwner, Covers, MembersOf
  <2>2. ASSUME NEW s \in Slots, Endpoint(s)
        PROVE  OwnersSole'
    <3>1. ~overlapped /\ RowsSole /\ UNCHANGED groups
      BY <2>2, AloneStep DEF BaseInv, OwnersSole, Endpoint, Reading
    <3>2. PICK op : Begin(s, op) /\ Begun(op)
      BY <2>2, BeginsApart DEF BaseInv
    <3>3. CopySole(op) /\ ops' = [ops EXCEPT ![s] = op]
      BY <3>1, <3>2 DEF Begun, CopySole, Begin
    <3>4. CopySole(ops[s])'
      BY <3>1, <3>3, CopySoleStep
    <3>5. RowsSole'
      BY <3>1 DEF RowsSole, SoleOwner
    <3>. QED
      BY <2>2, <3>4, <3>5, OwnersStep
  <2>3. CASE Environment
    <3>1. CASE Tick
      BY <2>1, <3>1 DEF Tick, history
    <3>2. CASE Overlapping
      <4>1. UNCHANGED <<groups, ops>>
        BY <3>2 DEF Overlapping
      <4>. QED
        BY <2>1, <3>2, <4>1, OverlappingIdle
    <3>. QED
      BY <2>3, <3>1, <3>2, EnvironmentSteps
  <2>4. CASE UNCHANGED vars
    BY <2>1, <2>4 DEF vars, history
  <2>. QED
    BY <2>2, <2>3, <2>4, OwnersContinue DEF Next
<1>. QED
  BY <1>1, <1>2, BaseInvariant, PTL DEF Spec

\* One row carries the role of owner as long as requests do not overlap
\* (demoteToMember and promoteToOwner come as a pair).
OneOwnerRow ==
  ~overlapped => \A g \in Groups : groups[g] # None =>
    Cardinality({m \in groups[g].members : m.role = "OWNER"}) = 1

\* As long as requests do not overlap one row carries the role of owner: the
\* promotion and the demotion of a transfer are never apart.
THEOREM OneOwnerAlone == Spec => []OneOwnerRow
<1>1. BaseInv /\ OwnersSole => OneOwnerRow
  <2> SUFFICES ASSUME BaseInv, OwnersSole, ~overlapped,
                      NEW g \in Groups, groups[g] # None
               PROVE  Cardinality({m \in groups[g].members : m.role = "OWNER"}) = 1
    BY DEF OneOwnerRow
  <2>1. PICK m \in groups[g].members : m.user = groups[g].owner /\ m.role = "OWNER"
    BY DEF BaseInv, GroupInv, OwnerIsMember
  <2>2. {n \in groups[g].members : n.role = "OWNER"} = {m}
    BY <2>1 DEF BaseInv, RowsApart, Apart, OwnersSole, RowsSole, SoleOwner
  <2>. QED
    BY <2>2, FS_Singleton
<1>. QED
  BY <1>1, BaseInvariant, OwnersInvariant, PTL

-----------------------------------------------------------------------------
(***************************************************************************)
(* Invite codes.  A join in flight has read its code unused, so it counts  *)
(* as one more that the code may let in: what it has let in and what is    *)
(* on the way is never more than the slots.                                *)
(***************************************************************************)
Joining(v) == {s \in Slots : ops[s].kind = "join" /\ ops[s].code.code = v}

CodeKey == \A c, d \in codes : c.code = d.code => c = d
AdmittedIsUsed ==
  \A v \in CodeValues :
    admitted[v] > 0 => \E c \in codes : c.code = v /\ c.used
SaveMarks ==
  \A s \in Slots : ops[s].kind = "join" /\ ops[s].pc = "save" => ops[s].code.used
SlotsBound ==
  \A v \in CodeValues : admitted[v] + Cardinality(Joining(v)) <= Cardinality(Slots)
OneAtATime ==
  ~overlapped => \A v \in CodeValues :
    admitted[v] <= 1 /\ (Joining(v) # {} => admitted[v] = 0)
CodesInv == CodeKey /\ AdmittedIsUsed /\ SaveMarks /\ SlotsBound /\ OneAtATime

LEMMA JoiningFinite ==
  ASSUME NEW v
  PROVE  /\ IsFiniteSet(Joining(v)) /\ Cardinality(Joining(v)) \in Nat
         /\ Cardinality(Joining(v)) <= Cardinality(Slots)
         /\ Cardinality(Slots) \in Nat
<1>1. Joining(v) \subseteq Slots
  BY DEF Joining
<1>. QED
  BY <1>1, SlotsAreFinite, FS_Subset, FS_CardinalityType

\* A slot that joins with the same code, or with none, changes nothing here.
LEMMA JoiningStep ==
  ASSUME GroupInv, NEW s \in Slots, NEW op, ops' = [ops EXCEPT ![s] = op]
  PROVE  /\ (SaveMarks /\ (op.kind = "join" /\ op.pc = "save" => op.code.used))
              => SaveMarks'
         /\ \A v : Joining(v)' = IF op.kind = "join" /\ op.code.code = v
                                 THEN Joining(v) \cup {s}
                                 ELSE Joining(v) \ {s}
<1>1. \A t \in Slots : ops'[t] = IF t = s THEN op ELSE ops[t]
  BY DEF GroupInv, TypeOK
<1>2. ASSUME NEW v
      PROVE  Joining(v)' = IF op.kind = "join" /\ op.code.code = v
                           THEN Joining(v) \cup {s} ELSE Joining(v) \ {s}
  BY <1>1 DEF Joining
<1>. QED
  BY <1>1, <1>2 DEF SaveMarks

\* Codes and their counts as they are, and no new join: the rest follows.
LEMMA FewerJoin ==
  ASSUME GroupInv, CodesInv, UNCHANGED <<codes, admitted>>,
         ~overlapped' => ~overlapped, SaveMarks',
         \A v \in CodeValues : Joining(v)' \subseteq Joining(v)
  PROVE  CodesInv'
<1>1. \A v \in CodeValues : Cardinality(Joining(v)') <= Cardinality(Joining(v))
                            /\ Cardinality(Joining(v)') \in Nat
  BY JoiningFinite, FS_Subset, FS_CardinalityType
<1>2. SlotsBound'
  BY <1>1, JoiningFinite DEF CodesInv, SlotsBound, GroupInv, TypeOK
<1>3. OneAtATime'
  BY DEF CodesInv, OneAtATime
<1>. QED
  BY <1>2, <1>3 DEF CodesInv, CodeKey, AdmittedIsUsed

LEMMA ReturnCodes ==
  ASSUME GroupInv, CodesInv, UNCHANGED <<codes, admitted, overlapped>>,
         NEW s \in Slots, Return(s)
  PROVE  CodesInv'
<1>1. ops' = [ops EXCEPT ![s] = Idle] /\ Idle.kind # "join"
  BY DEF Return, Goto, Idle
<1>2. SaveMarks' /\ \A v : Joining(v)' = Joining(v) \ {s}
  BY <1>1, JoiningStep DEF CodesInv
<1>. QED
  BY <1>2, FewerJoin

\* A step in the middle of a request that keeps its code, or has none.
LEMMA OnTheWayCodes ==
  ASSUME GroupInv, CodesInv, UNCHANGED <<codes, admitted, overlapped>>,
         NEW s \in Slots, NEW op, ops' = [ops EXCEPT ![s] = op],
         op.kind = "join" => /\ ops[s].kind = "join"
                             /\ op.code.code = ops[s].code.code
                             /\ op.pc = "save" => op.code.used
  PROVE  CodesInv'
<1>1. \A v : op.kind = "join" /\ op.code.code = v => s \in Joining(v)
  BY DEF Joining
<1>2. op.kind = "join" /\ op.pc = "save" => op.code.used
  OBVIOUS
<1>3. SaveMarks'
  BY <1>2, JoiningStep DEF CodesInv
<1>4. \A v : Joining(v)' = IF op.kind = "join" /\ op.code.code = v
                           THEN Joining(v) \cup {s} ELSE Joining(v) \ {s}
  BY JoiningStep
<1>5. \A v : Joining(v)' \subseteq Joining(v)
  BY <1>1, <1>4
<1>. QED
  BY <1>3, <1>5, FewerJoin

\* A request that begins to join has found its code unused.
LEMMA BeginCodes ==
  ASSUME GroupInv, CodesInv, NEW s \in Slots, NEW op, Begin(s, op), Begun(op),
         UNCHANGED <<codes, admitted>>
  PROVE  CodesInv'
<1>1. /\ ops' = [ops EXCEPT ![s] = op] /\ (~overlapped' => ~overlapped)
      /\ op.kind = "join" => op.pc # "save"
  BY Zenon DEF Begin, Begun
<1>2. /\ SaveMarks'
      /\ \A v : Joining(v)' = IF op.kind = "join" /\ op.code.code = v
                              THEN Joining(v) \cup {s} ELSE Joining(v) \ {s}
  BY <1>1, JoiningStep DEF CodesInv
<1>3. CASE op.kind # "join"
  BY <1>1, <1>2, <1>3, FewerJoin
<1>4. CASE op.kind = "join"
  <2>1. op.code \in codes /\ ~op.code.used
    BY <1>4 DEF Begun
  <2>2. admitted[op.code.code] = 0
    BY <2>1 DEF CodesInv, CodeKey, AdmittedIsUsed, GroupInv, TypeOK, InviteCode
  <2>3. ASSUME NEW v \in CodeValues
        PROVE  admitted[v] + Cardinality(Joining(v)') <= Cardinality(Slots)
    <3>1. Cardinality(Joining(v)') \in Nat /\ Cardinality(Joining(v)') <= Cardinality(Slots)
      BY JoiningFinite, FS_Subset, FS_CardinalityType, SlotsAreFinite DEF Joining
    <3>2. CASE v = op.code.code
      BY <2>2, <3>1, <3>2, JoiningFinite
    <3>3. CASE v # op.code.code
      <4>1. Joining(v)' \subseteq Joining(v)
        BY <1>2, <3>3
      <4>2. Cardinality(Joining(v)') <= Cardinality(Joining(v))
        BY <4>1, JoiningFinite, FS_Subset
      <4>. QED
        BY <3>1, <4>2, JoiningFinite DEF CodesInv, SlotsBound, GroupInv, TypeOK
    <3>. QED
      BY <3>2, <3>3
  <2>4. SlotsBound'
    BY <2>3 DEF SlotsBound
  <2>5. OneAtATime'
    BY <1>1, <1>2, <2>2 DEF CodesInv, OneAtATime
  <2>. QED
    BY <1>2, <2>4, <2>5 DEF CodesInv, CodeKey, AdmittedIsUsed
<1>. QED
  BY <1>3, <1>4

\* A new code replaces none, and a code nobody knows has let nobody in.
LEMMA InviteInsertsCodes ==
  ASSUME BaseInv, CodesInv, NEW s \in Slots, NEW v \in CodeValues, InviteInserts(s, v)
  PROVE  CodesInv'
<1> USE DEF BaseInv
<1> DEFINE c == [code |-> v, group |-> ops[s].group, expires |-> now + Lifetime,
                 used |-> FALSE]
<1>1. codes' = codes \cup {c} /\ c.code = v /\ \A d \in codes : d.code # v
  BY DEF InviteInserts, Upsert, ExistsByCode
<1>2. UNCHANGED <<admitted, overlapped>> /\ Return(s)
  BY DEF InviteInserts, history
<1> HIDE DEF c
<1>3. CodeKey' /\ AdmittedIsUsed'
  BY <1>1, <1>2 DEF CodesInv, CodeKey, AdmittedIsUsed
<1>4. ops' = [ops EXCEPT ![s] = Idle] /\ Idle.kind # "join"
  BY <1>2 DEF Return, Goto, Idle
<1>5. SaveMarks' /\ \A w : Joining(w)' = Joining(w) \ {s}
  BY <1>4, JoiningStep DEF CodesInv
<1>6. \A w : Cardinality(Joining(w)') <= Cardinality(Joining(w))
             /\ Cardinality(Joining(w)') \in Nat
  BY <1>5, JoiningFinite, FS_Subset, FS_CardinalityType
<1>7. SlotsBound'
  BY <1>2, <1>6, JoiningFinite DEF CodesInv, SlotsBound, GroupInv, TypeOK
<1>8. OneAtATime'
  BY <1>2, <1>5 DEF CodesInv, OneAtATime
<1>. QED
  BY <1>3, <1>5, <1>7, <1>8 DEF CodesInv

\* A join that is saved moves from those on the way to those let in.
LEMMA SaveCodes ==
  ASSUME BaseInv, CodesInv, NEW s \in Slots, Save(s)
  PROVE  CodesInv'
<1> USE DEF BaseInv
<1>1. Return(s) /\ UNCHANGED overlapped
  BY DEF Save
<1>2. CASE ops[s].kind # "join"
  BY <1>1, <1>2, ReturnCodes DEF Save
<1>3. CASE ops[s].kind = "join"
  <2> DEFINE c == ops[s].code
  <2>1. c \in InviteCode /\ c.used /\ c.code \in CodeValues
    BY <1>3, InFlight DEF Save, OpFine, Op, CodesInv, SaveMarks, InviteCode
  <2>2. codes' = {d \in codes : d.code # c.code} \cup {c}
    BY <1>3 DEF Save, Upsert
  <2>3. admitted' = [admitted EXCEPT ![c.code] = @ + 1]
    BY <1>3 DEF Save
  <2>w. PICK w \in CodeValues : w = c.code
    BY <2>1
  <2>4. s \in Joining(w) /\ \A v \in CodeValues \ {w} : s \notin Joining(v)
    BY <1>3, <2>w DEF Joining
  <2> HIDE DEF c
  <2>5. \A v \in CodeValues :
          admitted'[v] = IF v = w THEN admitted[v] + 1 ELSE admitted[v]
    BY <2>1, <2>3, <2>w DEF GroupInv, TypeOK
  <2>6. CodeKey'
    BY <2>2 DEF CodesInv, CodeKey
  <2>7. AdmittedIsUsed'
    BY <2>1, <2>2, <2>5, <2>w DEF CodesInv, AdmittedIsUsed
  <2>8. ops' = [ops EXCEPT ![s] = Idle] /\ Idle.kind # "join"
    BY <1>1 DEF Return, Goto, Idle
  <2>9. SaveMarks' /\ \A v : Joining(v)' = Joining(v) \ {s}
    BY <2>8, JoiningStep DEF CodesInv
  <2>10. Cardinality(Joining(w)') = Cardinality(Joining(w)) - 1
    BY <2>4, <2>9, JoiningFinite, FS_RemoveElement
  <2>11. \A v \in CodeValues \ {w} : Joining(v)' = Joining(v)
    BY <2>4, <2>9
  <2>12. SlotsBound'
    <3> SUFFICES ASSUME NEW v \in CodeValues
                 PROVE  admitted'[v] + Cardinality(Joining(v)') <= Cardinality(Slots)
      BY DEF SlotsBound
    <3>1. admitted[v] + Cardinality(Joining(v)) <= Cardinality(Slots)
          /\ admitted[v] \in Nat
      BY DEF CodesInv, SlotsBound, GroupInv, TypeOK
    <3>2. CASE v = w
      BY <2>5, <2>10, <3>1, <3>2, JoiningFinite
    <3>3. CASE v # w
      BY <2>5, <2>11, <3>1, <3>3
    <3>. QED
      BY <3>2, <3>3
  <2>13. OneAtATime'
    <3> SUFFICES ASSUME ~overlapped', NEW v \in CodeValues
                 PROVE  admitted'[v] <= 1 /\ (Joining(v)' # {} => admitted'[v] = 0)
      BY DEF OneAtATime
    <3>1. \A t \in Slots \ {s} : ops'[t] = Idle
      BY AloneStep DEF Continuation
    <3>2. Joining(v)' = {}
      BY <2>8, <2>9, <3>1 DEF Joining
    <3>3. ~overlapped
      BY <1>1
    <3>4. CASE v = w
      BY <2>4, <2>5, <3>2, <3>3, <3>4 DEF CodesInv, OneAtATime
    <3>5. CASE v # w
      BY <2>5, <3>2, <3>3, <3>5 DEF CodesInv, OneAtATime
    <3>. QED
      BY <3>4, <3>5
  <2>. QED
    BY <2>6, <2>7, <2>9, <2>12, <2>13 DEF CodesInv
<1>. QED
  BY <1>2, <1>3

\* The codes of a deleted group go, and with them what they have let in.
LEMMA DeleteCommitsCodes ==
  ASSUME BaseInv, CodesInv, NEW s \in Slots, DeleteCommits(s)
  PROVE  CodesInv'
<1> USE DEF BaseInv
<1> DEFINE g == ops[s].group
           gone(v) == \E c \in codes : c.code = v /\ c.group = g
<1>1. Return(s) /\ UNCHANGED overlapped /\ codes' = {c \in codes : c.group # g}
  BY DEF DeleteCommits
<1>2. \A v \in CodeValues : admitted'[v] = IF gone(v) THEN 0 ELSE admitted[v]
  BY DEF DeleteCommits
<1>3. \A v \in CodeValues : admitted[v] \in Nat
  BY DEF GroupInv, TypeOK
<1>4. CodeKey' /\ AdmittedIsUsed'
  BY <1>1, <1>2 DEF CodesInv, CodeKey, AdmittedIsUsed
<1>5. ops' = [ops EXCEPT ![s] = Idle] /\ Idle.kind # "join"
  BY <1>1 DEF Return, Goto, Idle
<1>6. SaveMarks' /\ \A v : Joining(v)' = Joining(v) \ {s}
  BY <1>5, JoiningStep DEF CodesInv
<1>7. \A v : Cardinality(Joining(v)') <= Cardinality(Joining(v))
             /\ Cardinality(Joining(v)') \in Nat
  BY <1>6, JoiningFinite, FS_Subset, FS_CardinalityType
<1> HIDE DEF gone
<1>8. SlotsBound'
  <2> SUFFICES ASSUME NEW v \in CodeValues
               PROVE  admitted'[v] + Cardinality(Joining(v)') <= Cardinality(Slots)
    BY DEF SlotsBound
  <2>1. admitted'[v] <= admitted[v] /\ admitted'[v] \in Nat
    BY <1>2, <1>3
  <2>. QED
    BY <1>3, <1>7, <2>1, JoiningFinite DEF CodesInv, SlotsBound
<1>9. OneAtATime'
  BY <1>1, <1>2, <1>3, <1>6 DEF CodesInv, OneAtATime
<1>. QED
  BY <1>4, <1>6, <1>8, <1>9 DEF CodesInv

LEMMA ContinuationCodes ==
  ASSUME BaseInv, CodesInv, NEW s \in Slots, Continuation(s)
  PROVE  CodesInv'
<1> USE DEF BaseInv
<1>1. ASSUME NEW i \in MemberIds, JoinAdds(s, i) PROVE CodesInv'
  <2>1. PICK op : /\ ops' = [ops EXCEPT ![s] = op]
                  /\ op.code = MarkAsUsed(ops[s].code)
    BY <1>1, JoinAddsOp, Zenon
  <2>2. ops[s].kind = "join" /\ ops[s].code \in InviteCode
    BY <1>1, InFlight DEF JoinAdds, At, OpFine, Op
  <2>3. op.code.code = ops[s].code.code /\ op.code.used
    BY <2>1, <2>2 DEF MarkAsUsed, InviteCode
  <2>4. UNCHANGED <<codes, admitted, overlapped>>
    BY <1>1 DEF JoinAdds, history
  <2>. QED
    BY <2>1, <2>2, <2>3, <2>4, OnTheWayCodes
<1>2. CASE LeaveChecks(s)
  <2>1. PICK op : ops' = [ops EXCEPT ![s] = op] /\ op.kind = "leave"
    BY <1>2, LeaveChecksOp, Zenon
  <2>. QED
    BY <1>2, <2>1, OnTheWayCodes DEF LeaveChecks, history
<1>3. CASE LeaveWithdraws(s)
  <2>1. UNCHANGED <<codes, admitted, overlapped>>
    BY <1>3 DEF LeaveWithdraws, history
  <2>2. CASE CanRemove(ops[s].copy, ops[s].user)
    <3>1. PICK op : ops' = [ops EXCEPT ![s] = op] /\ op.kind = "leave"
      BY <1>3, <2>2, LeaveWithdrawsOp, Zenon
    <3>. QED
      BY <2>1, <3>1, OnTheWayCodes
  <2>3. CASE ~CanRemove(ops[s].copy, ops[s].user)
    BY <1>3, <2>1, <2>3, ReturnCodes DEF LeaveWithdraws
  <2>. QED
    BY <2>2, <2>3
<1>4. CASE Throw(s)
  BY <1>4, ReturnCodes DEF Throw, history
<1>. QED
  BY <1>1, <1>2, <1>3, <1>4, InviteInsertsCodes, SaveCodes, DeleteCommitsCodes
     DEF Continuation, JoinRefused, InviteFails, LeaveForbidden, SaveFails,
         DeleteFails

LEMMA CodesInvariant == Spec => []CodesInv
<1>1. Init => CodesInv
  <2> SUFFICES ASSUME Init PROVE CodesInv
    OBVIOUS
  <2>1. \A v : Joining(v) = {}
    BY DEF Init, Joining, Idle
  <2>2. SlotsBound
    BY <2>1, JoiningFinite, FS_EmptySet DEF Init, SlotsBound
  <2>. QED
    BY <2>1, <2>2 DEF Init, CodesInv, CodeKey, AdmittedIsUsed, SaveMarks, OneAtATime,
       Idle
<1>2. BaseInv /\ CodesInv /\ [Next]_vars => CodesInv'
  <2> SUFFICES ASSUME BaseInv, CodesInv, [Next]_vars
               PROVE  CodesInv'
    OBVIOUS
  <2>1. ASSUME UNCHANGED <<codes, ops, admitted>>, ~overlapped' => ~overlapped
        PROVE  CodesInv'
    BY <2>1 DEF CodesInv, CodeKey, AdmittedIsUsed, SaveMarks, SlotsBound, OneAtATime,
       Joining
  <2>2. ASSUME NEW s \in Slots, Endpoint(s) PROVE CodesInv'
    <3>1. UNCHANGED <<codes, admitted>>
      BY <2>2 DEF Endpoint, Reading
    <3>. QED
      BY <2>2, <3>1, BeginsApart, BeginCodes DEF BaseInv
  <2>3. CASE Environment
    <3>1. CASE Tick
      BY <2>1, <3>1 DEF Tick, history
    <3>2. CASE Overlapping
      <4>1. UNCHANGED <<codes, ops, admitted>>
        BY <3>2 DEF Overlapping
      <4>. QED
        BY <2>1, <3>2, <4>1, OverlappingIdle
    <3>. QED
      BY <2>3, <3>1, <3>2, EnvironmentSteps
  <2>4. CASE UNCHANGED vars
    BY <2>1, <2>4 DEF vars, history
  <2>. QED
    BY <2>2, <2>3, <2>4, ContinuationCodes DEF Next
<1>. QED
  BY <1>1, <1>2, BaseInvariant, PTL DEF Spec

\* A code lets one user in; joins that overlap, which may all have seen it
\* unused, are let in together but never more of them than are in flight.
THEOREM CodeIsUsedOnce == Spec => []CodeUsedOnce
<1>1. BaseInv /\ CodesInv => CodeUsedOnce
  <2> SUFFICES ASSUME BaseInv, CodesInv, NEW v \in CodeValues
               PROVE  admitted[v] <= IF overlapped THEN Cardinality(Slots) ELSE 1
    BY DEF CodeUsedOnce
  <2>. QED
    BY JoiningFinite DEF CodesInv, SlotsBound, OneAtATime, BaseInv, GroupInv, TypeOK
<1>. QED
  BY <1>1, BaseInvariant, CodesInvariant, PTL

-----------------------------------------------------------------------------
(***************************************************************************)
(* Leaving.  What the policy has seen is still so when the withdrawal is   *)
(* done, and what the withdrawal has done when the copy is saved.          *)
(***************************************************************************)
Withdrawn(u, g) ==
  \A e \in EventsOf(g) : events[e].status # "ENDED" =>
    u \notin events[e].participants /\ u # events[e].creator
Leaving(op) ==
  op.kind = "leave" =>
    /\ op.pc = "withdraw" => /\ MayLeave(op.user, op.group)
                             /\ op.from = FindWithdrawableEventIds(op.user, op.group)
    /\ op.pc = "save" => Withdrawn(op.user, op.group)
LeaverInv == ~overlapped => \A s \in Slots : Leaving(ops[s])

\* The checks leave the recruiting events of others, and ended ones; the
\* withdrawal clears the former.
LEMMA WithdrawalClears ==
  ASSUME GroupInv, NEW u, NEW g, MayLeave(u, g),
         WithdrawFromEvents(u, FindWithdrawableEventIds(u, g))
  PROVE  Withdrawn(u, g)'
<1> DEFINE ids == FindWithdrawableEventIds(u, g)
<1>1. ASSUME NEW e \in Events, events'[e] # None
      PROVE  /\ events[e] # None /\ events[e] \in EventRow
             /\ events'[e].group = events[e].group
             /\ events'[e].status = events[e].status
             /\ events'[e].creator = events[e].creator
             /\ events'[e].participants = IF e \in ids
                                          THEN events[e].participants \ {u}
                                          ELSE events[e].participants
  <2>1. events'[e] = IF e \in ids /\ events[e] # None
                     THEN [events[e] EXCEPT !.participants = @ \ {u}] ELSE events[e]
    BY DEF WithdrawFromEvents
  <2>2. events[e] # None /\ events[e] \in EventRow
    BY <1>1, <2>1 DEF GroupInv, TypeOK
  <2>. QED
    BY <2>1, <2>2 DEF EventRow
<1> SUFFICES ASSUME NEW e \in Events, events'[e] # None, events'[e].group = g,
                    events'[e].status # "ENDED"
             PROVE  u \notin events'[e].participants /\ u # events'[e].creator
  BY DEF Withdrawn, EventsOf
<1>2. e \in EventsOf(g) /\ events[e].status \in EventStatus
  BY <1>1 DEF EventsOf, EventRow
<1>3. u # events[e].creator
  BY <1>1, <1>2 DEF MayLeave, HasCreatedActiveEvents
<1>4. CASE u \in events[e].participants
  <2>1. events[e].status = "RECRUITING"
    BY <1>1, <1>2, <1>4 DEF MayLeave, HasParticipatingEvent, EventStatus
  <2>2. e \in ids
    BY <1>2, <1>3, <1>4, <2>1 DEF FindWithdrawableEventIds
  <2>. QED
    BY <1>1, <1>3, <2>2
<1>5. CASE u \notin events[e].participants
  BY <1>1, <1>3, <1>5
<1>. QED
  BY <1>4, <1>5

LEMMA LeavingStays ==
  ASSUME UNCHANGED events, NEW op, Leaving(op)
  PROVE  Leaving(op)'
BY DEF Leaving, Withdrawn, EventsOf, MayLeave, HasParticipatingEvent,
       HasCreatedActiveEvents, FindWithdrawableEventIds

LEMMA LeaverStep ==
  ASSUME BaseInv, ~overlapped', NEW s \in Slots, Endpoint(s) \/ Continuation(s),
         NEW op, ops' = [ops EXCEPT ![s] = op], Leaving(op)'
  PROVE  LeaverInv'
<1>1. ops'[s] = op /\ \A t \in Slots \ {s} : ops'[t] = Idle
  BY AloneStep DEF BaseInv, GroupInv, TypeOK
<1>2. Leaving(ops[s])'
  BY <1>1 DEF Leaving, Withdrawn, EventsOf, MayLeave, HasParticipatingEvent,
       HasCreatedActiveEvents, FindWithdrawableEventIds
<1>3. \A t \in Slots \ {s} : Leaving(ops[t])'
  BY <1>1 DEF Leaving, Idle
<1>. QED
  BY <1>2, <1>3 DEF LeaverInv

LEMMA LeaverContinues ==
  ASSUME BaseInv, LeaverInv, ~overlapped', NEW s \in Slots, Continuation(s)
  PROVE  LeaverInv'
<1>1. ~overlapped /\ Leaving(ops[s])
  BY AloneStep DEF BaseInv, LeaverInv
<1>2. ASSUME NEW op, ops' = [ops EXCEPT ![s] = op], op.kind # "leave"
      PROVE  LeaverInv'
  BY <1>2, LeaverStep DEF Leaving
<1>3. ASSUME Return(s) PROVE LeaverInv'
  <2>1. Idle.kind # "leave"
    BY DEF Idle
  <2>. QED
    BY <1>2, <1>3, <2>1 DEF Return, Goto
<1>4. ASSUME NEW i \in MemberIds, JoinAdds(s, i) PROVE LeaverInv'
  <2>1. PICK op : ops' = [ops EXCEPT ![s] = op] /\ op.kind = "join"
    BY <1>4, JoinAddsOp, Zenon DEF BaseInv
  <2>. QED
    BY <1>2, <2>1
<1>5. CASE LeaveChecks(s)
  <2>1. PICK op : /\ ops' = [ops EXCEPT ![s] = op]
                  /\ op.pc = "withdraw" /\ op.user = ops[s].user /\ op.group = ops[s].group
                  /\ op.from = FindWithdrawableEventIds(op.user, op.group)
    BY <1>5, LeaveChecksOp, Zenon DEF BaseInv
  <2>2. Leaving(op) /\ UNCHANGED events
    BY <1>5, <2>1 DEF LeaveChecks, Leaving
  <2>. QED
    BY <2>1, <2>2, LeavingStays, LeaverStep
<1>6. CASE LeaveWithdraws(s)
  <2>1. CASE CanRemove(ops[s].copy, ops[s].user)
    <3>1. PICK op : /\ ops' = [ops EXCEPT ![s] = op]
                    /\ op.pc = "save" /\ op.user = ops[s].user /\ op.group = ops[s].group
      BY <1>6, <2>1, LeaveWithdrawsOp, Zenon DEF BaseInv
    <3>2. /\ MayLeave(op.user, op.group)
          /\ WithdrawFromEvents(op.user, FindWithdrawableEventIds(op.user, op.group))
      BY <1>1, <1>6, <3>1 DEF LeaveWithdraws, At, Leaving
    <3>3. Withdrawn(op.user, op.group)'
      BY <3>2, WithdrawalClears DEF BaseInv
    <3>4. Leaving(op)'
      BY <3>1, <3>3 DEF Leaving
    <3>. QED
      BY <3>1, <3>4, LeaverStep
  <2>2. CASE ~CanRemove(ops[s].copy, ops[s].user)
    BY <1>3, <1>6, <2>2 DEF LeaveWithdraws
  <2>. QED
    BY <2>1, <2>2
<1>7. CASE Throw(s)
  BY <1>3, <1>7 DEF Throw
<1>8. ASSUME NEW v \in CodeValues, InviteInserts(s, v) PROVE LeaverInv'
  BY <1>3, <1>8 DEF InviteInserts
<1>9. CASE Save(s) \/ DeleteCommits(s)
  BY <1>3, <1>9 DEF Save, DeleteCommits
<1>. QED
  BY <1>4, <1>5, <1>6, <1>7, <1>8, <1>9
     DEF Continuation, JoinRefused, InviteFails, LeaveForbidden, SaveFails,
         DeleteFails

LEMMA LeaverInvariant == Spec => []LeaverInv
<1>1. Init => LeaverInv
  BY DEF Init, LeaverInv, Leaving, Idle
<1>2. BaseInv /\ LeaverInv /\ [Next]_vars => LeaverInv'
  <2> SUFFICES ASSUME BaseInv, LeaverInv, [Next]_vars, ~overlapped'
               PROVE  LeaverInv'
    BY DEF LeaverInv
  <2>1. ASSUME UNCHANGED <<events, ops>>, ~overlapped
        PROVE  LeaverInv'
    BY <2>1, LeavingStays DEF LeaverInv
  <2>2. ASSUME NEW s \in Slots, Endpoint(s) PROVE LeaverInv'
    <3>1. PICK op : Begin(s, op) /\ Begun(op)
      BY <2>2, BeginsApart DEF BaseInv
    <3>2. op.kind = "leave" => op.pc = "policy"
      BY <3>1 DEF Begun
    <3>3. ops' = [ops EXCEPT ![s] = op] /\ Leaving(op)'
      BY <3>1, <3>2 DEF Begin, Leaving
    <3>. QED
      BY <2>2, <3>3, LeaverStep
  <2>3. CASE Environment
    <3>1. CASE Tick
      BY <2>1, <3>1 DEF Tick, history
    <3>2. CASE Overlapping
      <4>1. \A s \in Slots : ops'[s] = Idle
        BY <3>2, OverlappingIdle DEF Overlapping
      <4>. QED
        BY <4>1 DEF LeaverInv, Leaving, Idle
    <3>. QED
      BY <2>3, <3>1, <3>2, EnvironmentSteps
  <2>4. CASE UNCHANGED vars
    BY <2>1, <2>4 DEF vars, history
  <2>. QED
    BY <2>2, <2>3, <2>4, LeaverContinues DEF Next
<1>. QED
  BY <1>1, <1>2, BaseInvariant, PTL DEF Spec

\* A member who has left takes part in no event of the group that is still to
\* end, and has created none, unless something overlapped the leave.
THEOREM LeaverLeavesNothing == Spec => LeaverIsWithdrawn
<1>1. LeaverInv => (\A s \in Slots :
                     At(s, {"leave"}, "save") /\ groups' # groups /\ ~overlapped =>
                       \A e \in EventsOf(ops[s].group) : events[e].status # "ENDED" =>
                         /\ ops[s].user \notin events[e].participants
                         /\ ops[s].user # events[e].creator)
  BY DEF LeaverInv, Leaving, Withdrawn, At
<1>. QED
  BY <1>1, LeaverInvariant, PTL DEF LeaverIsWithdrawn

-----------------------------------------------------------------------------
(***************************************************************************)
(* The refinement of GroupPromise.  While nothing has overlapped, what a   *)
(* request carries is a function of the rows as they still are: this says  *)
(* what a save will write.                                                 *)
(***************************************************************************)
Loses(op) == op.kind = "kick" \/ (op.kind = "leave" /\ op.pc = "save")

FromRow(op) ==
  LET g == groups[op.group]  u == op.user IN
  /\ op.kind = "create" => /\ g = None /\ ~ExistsByOwnerId(u)
                           /\ \E i \in MemberIds : op.copy = Create(u, i)
  /\ op.kind = "update" => g # None /\ op.copy = g
  /\ op.kind = "delete" => g # None /\ CanBeDeleted(g) /\ op.pc = "delete"
  /\ op.kind = "invite" => g # None /\ op.pc = "insert"
  /\ op.kind = "join" /\ op.pc = "find" =>
       op.code \in codes /\ ~op.code.used /\ op.code.group = op.group
  /\ op.kind = "join" /\ op.pc = "save" =>
       /\ Admits(g, u)
       /\ \E i \in MemberIds : op.copy = AddMember(g, i, u)
       /\ \E c \in codes : ~c.used /\ c.group = op.group /\ op.code = MarkAsUsed(c)
  /\ Loses(op) => g # None /\ CanRemove(g, u) /\ op.copy = RemoveMember(g, u)
  /\ op.kind = "leave" /\ op.pc # "save" => g # None /\ op.copy = g
  /\ op.kind = "transfer" =>
       g # None /\ CanTransfer(g, u) /\ op.copy = TransferOwnership(g, u)

\* A group of the size allowed.
Fits(g) == IsFiniteSet(g.members) /\ Cardinality(g.members) <= MaxMembers
RowsFit == \A g \in Groups : groups[g] # None => Fits(groups[g])

SerialInv == ~overlapped => RowsFit /\ \A s \in Slots : FromRow(ops[s])

-----------------------------------------------------------------------------
(***************************************************************************)
(* A request that has read.                                                *)
(***************************************************************************)
LEMMA BeginsFromRow ==
  ASSUME GroupInv, NEW s \in Slots, Endpoint(s)
  PROVE  \E op : Begin(s, op) /\ FromRow(op)
<1>1. ASSUME NEW u \in Users, NEW g \in Groups, NEW i \in MemberIds,
             CreateReads(s, u, g, i)
      PROVE  \E op : Begin(s, op) /\ FromRow(op)
  <2>1. FromRow(Holding("create", "save", u, g, Create(u, i)))
    BY <1>1 DEF FromRow, Loses, Holding, CreateReads, FreshGroup
  <2>. QED
    BY <1>1, <2>1 DEF CreateReads
<1>2. ASSUME NEW u \in Users, NEW g \in Groups, UpdateReads(s, u, g)
      PROVE  \E op : Begin(s, op) /\ FromRow(op)
  <2>1. FromRow(Holding("update", "save", u, g, groups[g]))
    BY <1>2 DEF FromRow, Loses, Holding, UpdateReads
  <2>. QED
    BY <1>2, <2>1 DEF UpdateReads
<1>3. ASSUME NEW u \in Users, NEW g \in Groups, DeleteReads(s, u, g)
      PROVE  \E op : Begin(s, op) /\ FromRow(op)
  <2>1. FromRow(Holding("delete", "delete", u, g, groups[g]))
    BY <1>3 DEF FromRow, Loses, Holding, DeleteReads
  <2>. QED
    BY <1>3, <2>1 DEF DeleteReads
<1>4. ASSUME NEW u \in Users, NEW g \in Groups, InviteReads(s, u, g)
      PROVE  \E op : Begin(s, op) /\ FromRow(op)
  <2>1. FromRow(Holding("invite", "insert", u, g, None))
    BY <1>4 DEF FromRow, Loses, Holding, InviteReads
  <2>. QED
    BY <1>4, <2>1 DEF InviteReads
<1>5. ASSUME NEW u \in Users, NEW c \in codes, JoinReads(s, u, c)
      PROVE  \E op : Begin(s, op) /\ FromRow(op)
  <2> DEFINE base == Holding("join", "find", u, c.group, None)
             op == [base EXCEPT !.code = c]
  <2>1. /\ op.kind = "join" /\ op.pc = "find" /\ op.group = c.group
        /\ op.code = c
    BY DEF Holding
  <2> HIDE DEF op
  <2>2. FromRow(op)
    BY <1>5, <2>1 DEF FromRow, Loses, JoinReads, IsValid
  <2>. QED
    BY <1>5, <2>2 DEF JoinReads, op, base
<1>6. ASSUME NEW u \in Users, NEW v \in Users, NEW g \in Groups, KickReads(s, u, v, g)
      PROVE  \E op : Begin(s, op) /\ FromRow(op)
  <2> DEFINE copy == RemoveMember(groups[g], v)
             base == Holding("kick", "save", v, g, copy)
             op == [base EXCEPT !.removed = RowsOf(groups[g], v)]
  <2>1. /\ op.kind = "kick" /\ op.pc = "save" /\ op.group = g /\ op.user = v
        /\ op.copy = copy
    BY DEF Holding
  <2> HIDE DEF op
  <2>2. FromRow(op)
    BY <1>6, <2>1 DEF FromRow, Loses, KickReads
  <2>. QED
    BY <1>6, <2>2 DEF KickReads, op, base, copy
<1>7. ASSUME NEW u \in Users, NEW g \in Groups, LeaveReads(s, u, g)
      PROVE  \E op : Begin(s, op) /\ FromRow(op)
  <2>1. FromRow(Holding("leave", "policy", u, g, groups[g]))
    BY <1>7 DEF FromRow, Loses, Holding, LeaveReads
  <2>. QED
    BY <1>7, <2>1 DEF LeaveReads
<1>8. ASSUME NEW u \in Users, NEW v \in Users, NEW g \in Groups,
             TransferReads(s, u, v, g)
      PROVE  \E op : Begin(s, op) /\ FromRow(op)
  <2>1. FromRow(Holding("transfer", "save", v, g, TransferOwnership(groups[g], v)))
    BY <1>8 DEF FromRow, Loses, Holding, TransferReads
  <2>. QED
    BY <1>8, <2>1 DEF TransferReads
<1>. QED
  BY <1>1, <1>2, <1>3, <1>4, <1>5, <1>6, <1>7, <1>8
     DEF Endpoint, PostGroup, PatchGroup, DeleteGroup, PostJoin, PostInviteCode,
         DeleteMember, DeleteLeave, PostTransferOwnership

\* What a request carries is as long from the row as the rows stay.
LEMMA FromRowStays ==
  ASSUME UNCHANGED <<groups, codes>>, NEW op, FromRow(op)
  PROVE  FromRow(op)'
BY DEF FromRow, Loses, ExistsByOwnerId

LEMMA IdleFromRow == FromRow(Idle)
BY DEF FromRow, Loses, Idle

-----------------------------------------------------------------------------
(***************************************************************************)
(* A request that goes on.                                                 *)
(***************************************************************************)
LEMMA JoinAddsFromRow ==
  ASSUME GroupInv, NEW s \in Slots, NEW i \in MemberIds, JoinAdds(s, i), FromRow(ops[s])
  PROVE  \E op : ops' = [ops EXCEPT ![s] = op] /\ FromRow(op)
<1> DEFINE cur == ops[s]
           copy == AddMember(groups[cur.group], i, cur.user)
           base == Holding("join", "save", cur.user, cur.group, copy)
           op == [base EXCEPT !.code = MarkAsUsed(cur.code)]
<1>1. /\ op.kind = "join" /\ op.pc = "save" /\ op.group = cur.group
      /\ op.user = cur.user /\ op.copy = copy /\ op.code = MarkAsUsed(cur.code)
  BY DEF Holding
<1>2. ops' = [ops EXCEPT ![s] = op]
  BY DEF JoinAdds, Goto
<1>3. cur.code \in codes /\ ~cur.code.used /\ cur.code.group = cur.group
  BY DEF JoinAdds, At, FromRow
<1>4. Admits(groups[cur.group], cur.user)
  BY DEF JoinAdds
<1> HIDE DEF op
<1>5. FromRow(op)
  BY <1>1, <1>3, <1>4 DEF FromRow, Loses
<1>. QED
  BY <1>2, <1>5

LEMMA LeaveChecksFromRow ==
  ASSUME GroupInv, NEW s \in Slots, LeaveChecks(s), FromRow(ops[s])
  PROVE  \E op : ops' = [ops EXCEPT ![s] = op] /\ FromRow(op)
<1>1. PICK op : /\ ops' = [ops EXCEPT ![s] = op]
                /\ op.kind = "leave" /\ op.pc = "withdraw"
                /\ op.group = ops[s].group /\ op.copy = ops[s].copy
  BY LeaveChecksOp, Zenon
<1>2. FromRow(op)
  BY <1>1 DEF FromRow, Loses, LeaveChecks, At
<1>. QED
  BY <1>1, <1>2

LEMMA LeaveWithdrawsFromRow ==
  ASSUME GroupInv, NEW s \in Slots, LeaveWithdraws(s), FromRow(ops[s])
  PROVE  \E op : ops' = [ops EXCEPT ![s] = op] /\ FromRow(op)
<1> DEFINE cur == ops[s]
           base == Holding("leave", "save", cur.user, cur.group,
                           RemoveMember(cur.copy, cur.user))
           op == [base EXCEPT !.removed = RowsOf(cur.copy, cur.user)]
<1>1. CASE CanRemove(cur.copy, cur.user)
  <2>1. /\ op.kind = "leave" /\ op.pc = "save" /\ op.group = cur.group
        /\ op.user = cur.user /\ op.copy = RemoveMember(cur.copy, cur.user)
    BY DEF Holding
  <2>2. ops' = [ops EXCEPT ![s] = op]
    BY <1>1 DEF LeaveWithdraws, Goto
  <2>3. groups[cur.group] # None /\ cur.copy = groups[cur.group]
    BY DEF FromRow, LeaveWithdraws, At
  <2> HIDE DEF op
  <2>4. FromRow(op)
    BY <1>1, <2>1, <2>3 DEF FromRow, Loses
  <2>. QED
    BY <2>2, <2>4
<1>2. CASE ~CanRemove(cur.copy, cur.user)
  BY <1>2, IdleFromRow DEF LeaveWithdraws, Return, Goto
<1>. QED
  BY <1>1, <1>2

\* A copy that covers the group is what the group becomes.
LEMMA SavedIsCopy ==
  ASSUME NEW g \in Groups, NEW copy \in GroupRow, NEW removed,
         RowIds(MembersOf(g)) \subseteq RowIds(copy.members) \cup removed
  PROVE  Saved(g, copy, removed) = copy
<1>1. \A m \in MembersOf(g) : m.id \in RowIds(MembersOf(g))
  BY DEF RowIds
<1>2. {m \in Kept(g, removed) : m.id \notin RowIds(copy.members)} = {}
  BY <1>1 DEF Kept
<1>3. Saved(g, copy, removed) = [owner |-> copy.owner, members |-> copy.members]
  BY <1>2 DEF Saved
<1>. QED
  BY <1>3 DEF GroupRow

LEMMA CreateFits ==
  ASSUME NEW u, NEW i
  PROVE  Fits(Create(u, i))
<1>1. IsFiniteSet({NewMember(i, u, "OWNER")}) /\ Cardinality({NewMember(i, u, "OWNER")}) = 1
  BY FS_Singleton
<1>. QED
  BY <1>1, LimitsArePositive DEF Create, Fits

LEMMA AddFits ==
  ASSUME NEW g \in GroupRow, NEW i, NEW u, Fits(g), ~IsFull(g)
  PROVE  Fits(AddMember(g, i, u))
<1> DEFINE n == NewMember(i, u, "MEMBER")
<1>1. AddMember(g, i, u).members = g.members \cup {n}
  BY DEF AddMember, GroupRow
<1>2. Cardinality(g.members) \in Nat /\ Cardinality(g.members) < MaxMembers
  BY FS_CardinalityType, LimitsArePositive DEF Fits, IsFull
<1> HIDE DEF n
<1>3. /\ IsFiniteSet(g.members \cup {n})
      /\ Cardinality(g.members \cup {n})
           = IF n \in g.members THEN Cardinality(g.members) ELSE Cardinality(g.members) + 1
  BY FS_AddElement DEF Fits
<1>4. Cardinality(g.members \cup {n}) <= MaxMembers
  BY <1>2, <1>3, LimitsArePositive
<1>. QED
  BY <1>1, <1>3, <1>4 DEF Fits

LEMMA RemoveFits ==
  ASSUME NEW g \in GroupRow, NEW u, Fits(g)
  PROVE  Fits(RemoveMember(g, u))
<1>1. RemoveMember(g, u).members \in SUBSET g.members
  BY DEF RemoveMember, GroupRow
<1>2. /\ IsFiniteSet(RemoveMember(g, u).members)
      /\ Cardinality(RemoveMember(g, u).members) <= Cardinality(g.members)
  BY <1>1, FS_Subset DEF Fits
<1>. QED
  BY <1>2, FS_CardinalityType, LimitsArePositive DEF Fits

LEMMA TransferFits ==
  ASSUME NEW g \in GroupRow, NEW u, Fits(g)
  PROVE  Fits(TransferOwnership(g, u))
<1> DEFINE f == [m \in g.members |->
                   [m EXCEPT !.role = IF m.user = u THEN "OWNER"
                                      ELSE IF m.user = g.owner THEN "MEMBER" ELSE @]]
           T == TransferOwnership(g, u).members
<1>1. T = {f[m] : m \in g.members}
  BY DEF TransferOwnership
<1>2. f \in [g.members -> T] /\ \A t \in T : \E m \in g.members : f[m] = t
  <2> HIDE DEF f
  <2>1. f = [m \in g.members |-> f[m]]
    BY DEF f
  <2>. QED
    BY <1>1, <2>1
<1>3. f \in Surjection(g.members, T)
  BY <1>2, Zenon DEF Surjection
<1> HIDE DEF f, T
<1>4. IsFiniteSet(T) /\ Cardinality(T) <= Cardinality(g.members)
  BY <1>3, FS_Surjection DEF Fits
<1>. QED
  BY <1>4, FS_CardinalityType, LimitsArePositive DEF Fits, T

\* While nothing has overlapped a save writes its copy, and a copy is never
\* larger than a group may be.
LEMMA SaveWritesCopy ==
  ASSUME BaseInv, OwnersSole, SerialInv, ~overlapped, NEW s \in Slots, Save(s)
  PROVE  /\ ops[s] \in Op /\ ops[s].group \in Groups /\ ops[s].user \in Users
         /\ ops[s].copy \in GroupRow /\ Owned(ops[s].copy) /\ SoleOwner(ops[s].copy)
         /\ groups' = [groups EXCEPT ![ops[s].group] = ops[s].copy]
<1>1. ops[s] \in Op /\ OpFine(ops[s]) /\ ops[s].pc = "save"
  BY InFlight DEF Save, BaseInv
<1>2. /\ ops[s].group \in Groups /\ ops[s].user \in Users
      /\ ops[s].copy \in GroupRow /\ Owned(ops[s].copy) /\ ops[s].copy # None
  BY <1>1 DEF Op, OpFine
<1>3. SoleOwner(ops[s].copy) /\ Covers(ops[s])
  BY <1>2 DEF OwnersSole, CopySole
<1>4. Saved(ops[s].group, ops[s].copy, ops[s].removed) = ops[s].copy
  BY <1>2, <1>3, SavedIsCopy DEF Covers
<1>. QED
  BY <1>1, <1>2, <1>3, <1>4 DEF Save

LEMMA CopyFits ==
  ASSUME BaseInv, RowsFit, NEW op \in Op, FromRow(op), op.pc = "save"
  PROVE  Fits(op.copy)
<1> DEFINE g == groups[op.group]
<1>1. op.group \in Groups /\ op.kind \in Kind
  BY DEF Op
<1>2. g # None => g \in GroupRow /\ Fits(g)
  BY <1>1 DEF BaseInv, GroupInv, TypeOK, RowsFit
<1>3. CASE op.kind = "create"
  BY <1>3, CreateFits DEF FromRow
<1>4. CASE op.kind = "update"
  BY <1>2, <1>4 DEF FromRow
<1>5. CASE op.kind = "join"
  BY <1>2, <1>5, AddFits DEF FromRow, Admits
<1>6. CASE Loses(op)
  BY <1>2, <1>6, RemoveFits DEF FromRow
<1>7. CASE op.kind = "transfer"
  BY <1>2, <1>7, TransferFits DEF FromRow
<1>8. op.kind \notin {"delete", "invite"}
  BY DEF FromRow
<1>. QED
  BY <1>1, <1>3, <1>4, <1>5, <1>6, <1>7, <1>8 DEF Kind, Loses

\* The slot of the step is the only one that matters.
LEMMA SerialStep ==
  ASSUME BaseInv, ~overlapped', NEW s \in Slots, Endpoint(s) \/ Continuation(s),
         RowsFit', NEW op, ops' = [ops EXCEPT ![s] = op], FromRow(op)'
  PROVE  SerialInv'
<1>1. ops'[s] = op /\ \A t \in Slots \ {s} : ops'[t] = Idle
  BY AloneStep DEF BaseInv, GroupInv, TypeOK
<1>2. FromRow(ops[s])'
  BY <1>1 DEF FromRow, Loses, ExistsByOwnerId
<1>3. \A t \in Slots \ {s} : FromRow(ops[t])'
  BY <1>1 DEF FromRow, Loses, Idle
<1>. QED
  BY <1>2, <1>3 DEF SerialInv

LEMMA SerialContinues ==
  ASSUME BaseInv, OwnersSole, SerialInv, ~overlapped', NEW s \in Slots, Continuation(s)
  PROVE  SerialInv'
<1> USE DEF BaseInv
<1>1. ~overlapped /\ RowsFit /\ FromRow(ops[s])
  BY AloneStep DEF SerialInv
<1>2. FromRow(Idle)'
  BY DEF FromRow, Loses, Idle
<1>3. ASSUME Return(s), RowsFit' PROVE SerialInv'
  BY <1>2, <1>3, SerialStep DEF Return, Goto
<1>4. ASSUME UNCHANGED groups PROVE RowsFit'
  BY <1>1, <1>4 DEF RowsFit, Fits
<1>5. ASSUME UNCHANGED <<groups, codes>>,
             \E op : ops' = [ops EXCEPT ![s] = op] /\ FromRow(op)
      PROVE  SerialInv'
  <2>1. PICK op : ops' = [ops EXCEPT ![s] = op] /\ FromRow(op)
    BY <1>5
  <2>2. FromRow(op)'
    BY <1>5, <2>1, FromRowStays
  <2>. QED
    BY <1>4, <1>5, <2>1, <2>2, SerialStep
<1>6. ASSUME NEW i \in MemberIds, JoinAdds(s, i) PROVE SerialInv'
  BY <1>1, <1>5, <1>6, JoinAddsFromRow DEF JoinAdds
<1>7. CASE LeaveChecks(s)
  BY <1>1, <1>5, <1>7, LeaveChecksFromRow DEF LeaveChecks
<1>8. CASE LeaveWithdraws(s)
  BY <1>1, <1>5, <1>8, LeaveWithdrawsFromRow DEF LeaveWithdraws
<1>9. CASE Save(s)
  <2>1. /\ ops[s] \in Op /\ ops[s].group \in Groups
        /\ groups' = [groups EXCEPT ![ops[s].group] = ops[s].copy]
    BY <1>1, <1>9, SaveWritesCopy
  <2>2. Fits(ops[s].copy)
    BY <1>1, <1>9, <2>1, CopyFits DEF Save
  <2>3. \A g \in Groups : groups'[g] = IF g = ops[s].group THEN ops[s].copy ELSE groups[g]
    BY <2>1 DEF GroupInv, TypeOK
  <2>4. RowsFit'
    BY <1>1, <2>2, <2>3 DEF RowsFit, Fits
  <2>. QED
    BY <1>3, <1>9, <2>4 DEF Save
<1>10. CASE DeleteCommits(s)
  <2>1. RowsFit'
    BY <1>1, <1>10 DEF DeleteCommits, RowsFit, Fits, GroupInv, TypeOK
  <2>. QED
    BY <1>3, <1>10, <2>1 DEF DeleteCommits
<1>11. CASE Throw(s)
  BY <1>3, <1>4, <1>11 DEF Throw
<1>12. ASSUME NEW v \in CodeValues, InviteInserts(s, v) PROVE SerialInv'
  BY <1>3, <1>4, <1>12 DEF InviteInserts
<1>. QED
  BY <1>6, <1>7, <1>8, <1>9, <1>10, <1>11, <1>12
     DEF Continuation, JoinRefused, InviteFails, LeaveForbidden, SaveFails,
         DeleteFails

LEMMA SerialInvariant == Spec => []SerialInv
<1>1. Init => SerialInv
  BY IdleFromRow DEF Init, SerialInv, RowsFit
<1>2. BaseInv /\ OwnersSole /\ SerialInv /\ [Next]_vars => SerialInv'
  <2> SUFFICES ASSUME BaseInv, OwnersSole, SerialInv, [Next]_vars, ~overlapped'
               PROVE  SerialInv'
    BY DEF SerialInv
  <2>1. ASSUME UNCHANGED <<groups, codes, ops>>, ~overlapped
        PROVE  SerialInv'
    <3>1. \A s \in Slots : FromRow(ops[s]) => FromRow(ops[s])'
      BY <2>1 DEF FromRow, Loses, ExistsByOwnerId
    <3>. QED
      BY <2>1, <3>1 DEF SerialInv, RowsFit, Fits
  <2>2. ASSUME NEW s \in Slots, Endpoint(s)
        PROVE  SerialInv'
    <3>1. PICK op : Begin(s, op) /\ FromRow(op)
      BY <2>2, BeginsFromRow DEF BaseInv
    <3>2. UNCHANGED <<groups, codes>> /\ ~overlapped /\ ops' = [ops EXCEPT ![s] = op]
      BY <2>2, <3>1, AloneStep DEF BaseInv, Endpoint, Reading, Begin
    <3>3. FromRow(op)'
      BY <3>1, <3>2, FromRowStays
    <3>4. RowsFit'
      BY <3>2 DEF SerialInv, RowsFit, Fits
    <3>. QED
      BY <2>2, <3>2, <3>3, <3>4, SerialStep
  <2>3. CASE Environment
    <3>1. CASE Tick
      BY <2>1, <3>1 DEF Tick, history
    <3>2. CASE Overlapping
      <4>1. UNCHANGED <<groups, codes, ops>>
        BY <3>2 DEF Overlapping
      <4>. QED
        BY <2>1, <3>2, <4>1, OverlappingIdle
    <3>. QED
      BY <2>3, <3>1, <3>2, EnvironmentSteps
  <2>4. CASE UNCHANGED vars
    BY <2>1, <2>4 DEF vars, history
  <2>. QED
    BY <2>2, <2>3, <2>4, SerialContinues DEF Next
<1>. QED
  BY <1>1, <1>2, BaseInvariant, OwnersInvariant, PTL DEF Spec

-----------------------------------------------------------------------------
(***************************************************************************)
(* What the aggregate's operations do to the standing of the users.        *)
(***************************************************************************)
Parts(members) == [u \in Users |-> RoleAmong(members, u)]

LEMMA PartsIs ==
  ASSUME NEW members, NEW u \in Users
  PROVE  /\ Parts(members)[u] # "out" <=> \E m \in members : m.user = u
         /\ Parts(members)[u] = "OWNER"
              <=> \E m \in members : m.user = u /\ m.role = "OWNER"
         /\ Parts(members)[u] \in {"out", "MEMBER", "OWNER"}
BY DEF Parts, RoleAmong

\* Two sets of rows give the same part wherever they have the same rows.
LEMMA PartsAgree ==
  ASSUME NEW ms, NEW ns, NEW u \in Users,
         \A m \in ms : m.user = u => m \in ns,
         \A n \in ns : n.user = u => n \in ms
  PROVE  Parts(ms)[u] = Parts(ns)[u]
BY DEF Parts, RoleAmong

LEMMA CreateParts ==
  ASSUME NEW u \in Users, NEW i
  PROVE  Parts(Create(u, i).members) = [Parts({}) EXCEPT ![u] = "OWNER"]
<1>1. Create(u, i).members = {[id |-> i, user |-> u, role |-> "OWNER"]}
  BY DEF Create, NewMember
<1>. QED
  BY <1>1 DEF Parts, RoleAmong

LEMMA AddParts ==
  ASSUME NEW g \in GroupRow, NEW i, NEW u \in Users, ~HasMember(g, u)
  PROVE  Parts(AddMember(g, i, u).members) = [Parts(g.members) EXCEPT ![u] = "MEMBER"]
<1> DEFINE n == [id |-> i, user |-> u, role |-> "MEMBER"]
<1>1. AddMember(g, i, u).members = g.members \cup {n} /\ n.user = u /\ n.role = "MEMBER"
  BY DEF AddMember, NewMember, GroupRow
<1> HIDE DEF n
<1>2. ASSUME NEW w \in Users \ {u}
      PROVE  Parts(g.members \cup {n})[w] = Parts(g.members)[w]
  <2> DEFINE ms == g.members \cup {n}
  <2>1. /\ \A m \in ms : m.user = w => m \in g.members
        /\ \A m \in g.members : m.user = w => m \in ms
    BY <1>1
  <2> HIDE DEF ms
  <2>2. Parts(ms)[w] = Parts(g.members)[w]
    BY <2>1, PartsAgree
  <2>. QED
    BY <2>2 DEF ms
<1>3. Parts(g.members \cup {n})[u] = "MEMBER"
  BY <1>1 DEF Parts, RoleAmong, HasMember
<1>. QED
  BY <1>1, <1>2, <1>3 DEF Parts

LEMMA RemoveParts ==
  ASSUME NEW g \in GroupRow, NEW u \in Users
  PROVE  Parts(RemoveMember(g, u).members) = [Parts(g.members) EXCEPT ![u] = "out"]
<1> DEFINE left == {m \in g.members : m.user # u}
<1>1. RemoveMember(g, u).members = left
  BY DEF RemoveMember, GroupRow
<1>2. ASSUME NEW w \in Users \ {u}
      PROVE  Parts(left)[w] = Parts(g.members)[w]
  BY PartsAgree
<1>3. Parts(left)[u] = "out"
  BY DEF Parts, RoleAmong
<1>. QED
  BY <1>1, <1>2, <1>3 DEF Parts

\* A member who is not its owner has the role of one.
LEMMA MemberParts ==
  ASSUME NEW g \in GroupRow, NEW u \in Users, SoleOwner(g), CanRemove(g, u)
  PROVE  Parts(g.members)[u] = "MEMBER"
BY DEF Parts, RoleAmong, SoleOwner, CanRemove, IsOwner, HasMember

LEMMA OwnerParts ==
  ASSUME NEW g \in GroupRow, Owned(g)
  PROVE  g.owner \in Users /\ Parts(g.members)[g.owner] = "OWNER"
BY DEF Parts, RoleAmong, Owned, GroupRow

\* The promotion and the demotion exchange two roles.
LEMMA TransferParts ==
  ASSUME NEW g \in GroupRow, NEW u \in Users, Owned(g), SoleOwner(g), CanTransfer(g, u)
  PROVE  Parts(TransferOwnership(g, u).members)
           = [Parts(g.members) EXCEPT ![g.owner] = "MEMBER", ![u] = "OWNER"]
<1> DEFINE f(m) == [m EXCEPT !.role = IF m.user = u THEN "OWNER"
                                      ELSE IF m.user = g.owner THEN "MEMBER" ELSE @]
           T == {f(m) : m \in g.members}
<1>1. TransferOwnership(g, u).members = T
  BY DEF TransferOwnership
<1>2. \A m \in g.members :
        /\ f(m).user = m.user
        /\ f(m).role = IF m.user = u THEN "OWNER"
                       ELSE IF m.user = g.owner THEN "MEMBER" ELSE m.role
        /\ m.user \notin {u, g.owner} => f(m) = m
  BY DEF GroupRow, Member
<1> HIDE DEF f
<1>3. u # g.owner /\ \E m \in g.members : m.user = u
  BY DEF CanTransfer, IsOwner, HasMember
<1>4. ASSUME NEW w \in Users \ {u, g.owner}
      PROVE  Parts(T)[w] = Parts(g.members)[w]
  <2>1. \A t \in T : t.user = w => t \in g.members
    BY <1>2
  <2>2. \A m \in g.members : m.user = w => m \in T
    <3> SUFFICES ASSUME NEW m \in g.members, m.user = w PROVE m \in T
      OBVIOUS
    <3>1. f(m) = m
      BY <1>2
    <3>. QED
      BY <3>1
  <2> HIDE DEF T
  <2>. QED
    BY <2>1, <2>2, PartsAgree
<1>5. Parts(T)[u] = "OWNER"
  <2>1. PICK m \in g.members : m.user = u
    BY <1>3
  <2>2. f(m) \in T /\ f(m).user = u /\ f(m).role = "OWNER"
    BY <1>2, <2>1
  <2>. QED
    BY <2>2 DEF Parts, RoleAmong
<1>6. Parts(T)[g.owner] = "MEMBER" /\ g.owner \in Users
  <2>1. PICK m \in g.members : m.user = g.owner
    BY DEF Owned
  <2>2. f(m) \in T /\ f(m).user = g.owner
    BY <1>2, <2>1
  <2>3. \A t \in T : t.user = g.owner => t.role = "MEMBER"
    BY <1>2, <1>3
  <2>4. g.owner \in Users
    BY DEF GroupRow
  <2> HIDE DEF T
  <2>. QED
    BY <2>2, <2>3, <2>4 DEF Parts, RoleAmong
<1> HIDE DEF T
<1>. QED
  BY <1>1, <1>3, <1>4, <1>5, <1>6 DEF Parts

-----------------------------------------------------------------------------
(***************************************************************************)
(* The mapped variables: standing and invitations.                         *)
(***************************************************************************)
LEMMA StandingIs ==
  ASSUME NEW g \in Groups
  PROVE  /\ StandingOf[g] = Parts(MembersOf(g))
         /\ Promise!In(g) = {u \in Users : \E m \in MembersOf(g) : m.user = u}
<1>1. StandingOf[g] = Parts(MembersOf(g))
  BY DEF StandingOf, Parts
<1>2. \A u \in Users : StandingOf[g][u] # "out" <=> \E m \in MembersOf(g) : m.user = u
  BY <1>1, PartsIs
<1>. QED
  BY <1>1, <1>2 DEF Promise!In

\* One group is written.
LEMMA StandingStep ==
  ASSUME TypeOK, NEW g \in Groups, NEW row \in GroupRow \cup {None},
         groups' = [groups EXCEPT ![g] = row]
  PROVE  StandingOf' = [StandingOf EXCEPT ![g] =
                          Parts(IF row = None THEN {} ELSE row.members)]
<1>1. \A h \in Groups : groups'[h] = IF h = g THEN row ELSE groups[h]
  BY DEF TypeOK
<1>2. \A h \in Groups : MembersOf(h)' = IF h = g THEN IF row = None THEN {} ELSE row.members
                                        ELSE MembersOf(h)
  BY <1>1 DEF MembersOf
<1>3. StandingOf' = [h \in Groups |-> [u \in Users |-> RoleAmong(MembersOf(h)', u)]]
  BY DEF StandingOf, RoleAmong
<1>. QED
  BY <1>2, <1>3 DEF StandingOf, Parts

LEMMA NothingMapped ==
  ASSUME UNCHANGED <<groups, codes>>
  PROVE  UNCHANGED Promise!promiseVars
<1>1. StandingOf' = StandingOf
  BY DEF StandingOf, RoleAmong, MembersOf
<1>2. InvitationsOf' = InvitationsOf
  BY DEF InvitationsOf
<1>. QED
  BY <1>1, <1>2 DEF Promise!promiseVars

LEMMA InvitationsStay ==
  ASSUME UNCHANGED codes
  PROVE  InvitationsOf' = InvitationsOf
BY DEF InvitationsOf

\* What an invitation shows of its code.
Shown(c) == [code |-> c.code, group |-> c.group, used |-> c.used]

LEMMA ShownIs == InvitationsOf = {Shown(c) : c \in codes}
BY DEF InvitationsOf, Shown

-----------------------------------------------------------------------------
(***************************************************************************)
(* Every step is a step of GroupPromise, changes nothing that it speaks    *)
(* of, or overlaps another.                                                *)
(***************************************************************************)
PromiseStep == [overlapped' \/ Promise!Next]_(Promise!promiseVars)

LEMMA NothingPromised ==
  ASSUME UNCHANGED <<groups, codes>>
  PROVE  PromiseStep
BY NothingMapped DEF PromiseStep

\* A save that writes no code.
LEMMA SavePromised ==
  ASSUME BaseInv, OwnersSole, SerialInv, ~overlapped, NEW s \in Slots, Save(s),
         ops[s].kind # "join"
  PROVE  PromiseStep
<1> DEFINE op == ops[s]  g == op.group  u == op.user  row == groups[g]
<1> USE DEF BaseInv, GroupInv
<1>1. /\ op \in Op /\ g \in Groups /\ u \in Users /\ op.copy \in GroupRow
      /\ groups' = [groups EXCEPT ![g] = op.copy] /\ op.pc = "save"
  BY SaveWritesCopy DEF Save
<1>2. FromRow(op) /\ RowsSole
  BY DEF SerialInv, OwnersSole
<1>3. StandingOf' = [StandingOf EXCEPT ![g] = Parts(op.copy.members)]
  BY <1>1, NoneIsNoRow, StandingStep
<1>4. InvitationsOf' = InvitationsOf
  BY InvitationsStay DEF Save
<1>5. row # None => /\ row \in GroupRow /\ Owned(row) /\ SoleOwner(row)
                    /\ StandingOf[g] = Parts(row.members)
  BY <1>1, <1>2, StandingIs DEF TypeOK, OwnerIsMember, Owned, RowsSole, MembersOf
<1>6. CASE op.kind = "create"
  <2>1. row = None /\ ~ExistsByOwnerId(u) /\ \E i \in MemberIds : op.copy = Create(u, i)
    BY <1>2, <1>6 DEF FromRow
  <2>2. StandingOf[g] = Parts({}) /\ Promise!In(g) = {}
    BY <1>1, <2>1, StandingIs DEF MembersOf
  <2>3. Parts(op.copy.members) = [Parts({}) EXCEPT ![u] = "OWNER"]
    BY <1>1, <2>1, CreateParts
  <2>4. Promise!Becomes(u, g, "OWNER")
    BY <1>3, <2>2, <2>3 DEF Promise!Becomes
  <2>5. Promise!OwnsNone(u)
    <3> SUFFICES ASSUME NEW h \in Groups, StandingOf[h][u] = "OWNER" PROVE FALSE
      BY DEF Promise!OwnsNone
    <3>1. PICK m \in MembersOf(h) : m.user = u /\ m.role = "OWNER"
      BY <1>1, StandingIs, PartsIs
    <3>2. groups[h] # None /\ groups[h].owner = u
      BY <1>2, <3>1 DEF MembersOf, RowsSole, SoleOwner
    <3>. QED
      BY <2>1, <3>2 DEF ExistsByOwnerId
  <2>6. Promise!Found(u, g)
    BY <1>4, <2>2, <2>4, <2>5 DEF Promise!Found
  <2>. QED
    BY <1>1, <2>6 DEF PromiseStep, Promise!Next
<1>7. CASE op.kind = "update"
  <2>1. StandingOf' = StandingOf
    BY <1>1, <1>2, <1>3, <1>5, <1>7 DEF FromRow, StandingOf
  <2>. QED
    BY <1>4, <2>1 DEF PromiseStep, Promise!promiseVars
<1>8. CASE Loses(op)
  <2>1. row # None /\ CanRemove(row, u) /\ op.copy = RemoveMember(row, u)
    BY <1>2, <1>8 DEF FromRow
  <2>2. Promise!Becomes(u, g, "out")
    BY <1>1, <1>3, <1>5, <2>1, RemoveParts DEF Promise!Becomes
  <2>3. Promise!Part(u, g)
    BY <1>1, <1>4, <1>5, <2>1, <2>2, MemberParts DEF Promise!Part
  <2>. QED
    BY <1>1, <2>3 DEF PromiseStep, Promise!Next
<1>9. CASE op.kind = "transfer"
  <2>1. row # None /\ CanTransfer(row, u) /\ op.copy = TransferOwnership(row, u)
    BY <1>2, <1>9 DEF FromRow
  <2>2. /\ StandingOf' = [StandingOf EXCEPT ![g] =
                            [@ EXCEPT ![row.owner] = "MEMBER", ![u] = "OWNER"]]
        /\ row.owner \in Users /\ StandingOf[g][row.owner] = "OWNER"
        /\ StandingOf[g][u] = "MEMBER"
    <3>1. Parts(op.copy.members)
            = [Parts(row.members) EXCEPT ![row.owner] = "MEMBER", ![u] = "OWNER"]
      BY <1>1, <1>5, <2>1, TransferParts
    <3>2. row.owner \in Users /\ StandingOf[g][row.owner] = "OWNER"
      BY <1>5, <2>1, OwnerParts
    <3>3. StandingOf[g][u] = "MEMBER"
      BY <1>1, <1>5, <2>1, MemberParts DEF CanTransfer, CanRemove
    <3>. QED
      BY <1>3, <1>5, <2>1, <3>1, <3>2, <3>3
  <2>3. Promise!HandOver(row.owner, u, g)
    BY <1>4, <2>2 DEF Promise!HandOver
  <2>. QED
    BY <1>1, <2>2, <2>3 DEF PromiseStep, Promise!Next
<1>10. op.kind \in {"create", "update", "kick", "leave", "transfer"}
  BY <1>1, <1>2 DEF FromRow, Op, Kind
<1>. QED
  BY <1>1, <1>6, <1>7, <1>8, <1>9, <1>10 DEF Loses

\* GroupPromise counts as Group does.
LEMMA SameCount == \A S : Promise!Cardinality(S) = Cardinality(S)
BY DEF Promise!Cardinality, Cardinality

\* A join writes the group and its code in one transaction.
LEMMA JoinPromised ==
  ASSUME BaseInv, OwnersSole, CodesInv, SerialInv, ~overlapped, NEW s \in Slots, Save(s),
         ops[s].kind = "join"
  PROVE  PromiseStep
<1> DEFINE op == ops[s]  g == op.group  u == op.user  row == groups[g]
<1> USE DEF BaseInv, GroupInv
<1>1. /\ op \in Op /\ g \in Groups /\ u \in Users /\ op.copy \in GroupRow
      /\ groups' = [groups EXCEPT ![g] = op.copy] /\ op.pc = "save"
  BY SaveWritesCopy DEF Save
<1>2. /\ Admits(row, u) /\ \E i \in MemberIds : op.copy = AddMember(row, i, u)
      /\ \E c \in codes : ~c.used /\ c.group = g /\ op.code = MarkAsUsed(c)
  BY <1>1 DEF SerialInv, FromRow
<1>3. StandingOf' = [StandingOf EXCEPT ![g] = Parts(op.copy.members)]
  BY <1>1, NoneIsNoRow, StandingStep
<1>4. /\ row \in GroupRow /\ MembersOf(g) = row.members /\ Fits(row)
      /\ ~IsFull(row) /\ ~HasMember(row, u)
  BY <1>1, <1>2 DEF Admits, TypeOK, MembersOf, SerialInv, RowsFit
<1>5. Promise!Becomes(u, g, "MEMBER")
  <2>1. Parts(op.copy.members) = [Parts(row.members) EXCEPT ![u] = "MEMBER"]
    BY <1>1, <1>2, <1>4, AddParts
  <2>2. StandingOf[g] = Parts(row.members)
    BY <1>1, <1>4, StandingIs
  <2>. QED
    BY <1>3, <2>1, <2>2 DEF Promise!Becomes
<1>6. u \notin Promise!In(g)
  BY <1>1, <1>4, StandingIs DEF HasMember
<1>7. Cardinality(Promise!In(g)) < MaxMembers
  <2> DEFINE f == [m \in row.members |-> m.user]
             T == {w \in Users : \E m \in row.members : m.user = w}
  <2>1. f \in [row.members -> T] /\ \A t \in T : \E m \in row.members : f[m] = t
    BY <1>4 DEF GroupRow, Member
  <2>2. f \in Surjection(row.members, T)
    BY <2>1, Zenon DEF Surjection
  <2>3. T = Promise!In(g)
    BY <1>1, <1>4, StandingIs
  <2> HIDE DEF f, T
  <2>4. IsFiniteSet(T) /\ Cardinality(T) <= Cardinality(row.members)
    BY <1>4, <2>2, FS_Surjection DEF Fits
  <2>5. Cardinality(T) \in Nat /\ Cardinality(row.members) \in Nat
    BY <1>4, <2>4, FS_CardinalityType DEF Fits
  <2>. QED
    BY <1>4, <2>3, <2>4, <2>5, LimitsArePositive DEF IsFull
<1>8. PICK c \in codes : ~c.used /\ c.group = g /\ op.code = MarkAsUsed(c)
  BY <1>2
<1>9. c \in InviteCode /\ c.used = FALSE
  BY <1>8 DEF TypeOK, InviteCode
<1> DEFINE open == [code |-> c.code, group |-> g, used |-> FALSE]
           spent == [code |-> c.code, group |-> g, used |-> TRUE]
<1>10. Shown(c) = open /\ Shown(op.code) = spent /\ op.code.code = c.code
  <2>1. op.code = [code |-> c.code, group |-> c.group, expires |-> c.expires,
                   used |-> TRUE]
    BY <1>8, <1>9 DEF MarkAsUsed, InviteCode
  <2>2. op.code.code = c.code /\ op.code.group = g /\ op.code.used = TRUE
    BY <1>8, <2>1
  <2>3. Shown(c) = open
    BY <1>8, <1>9 DEF Shown
  <2>. QED
    BY <2>2, <2>3 DEF Shown
<1>11. codes' = (codes \ {c}) \cup {op.code}
  <2>1. codes' = {d \in codes : d.code # c.code} \cup {op.code}
    BY <1>10 DEF Save, Upsert
  <2>2. \A d \in codes : d.code = c.code <=> d = c
    BY DEF CodesInv, CodeKey
  <2>. QED
    BY <2>1, <2>2
<1>12. \A d \in codes : d # c => Shown(d) # open
  BY DEF CodesInv, CodeKey, Shown
<1> HIDE DEF open, spent
<1>13. open \in InvitationsOf
  BY <1>10, ShownIs
<1>14. InvitationsOf' = (InvitationsOf \ {open}) \cup {spent}
  <2>1. InvitationsOf' = {Shown(d) : d \in codes'}
    BY DEF InvitationsOf, Shown
  <2>2. {Shown(d) : d \in (codes \ {c}) \cup {op.code}}
          = ({Shown(d) : d \in codes} \ {open}) \cup {spent}
    BY <1>10, <1>12
  <2>. QED
    BY <1>11, <2>1, <2>2, ShownIs
<1>15. Promise!Join(u, g, c.code)
  BY <1>5, <1>6, <1>7, <1>13, <1>14, SameCount
     DEF Promise!Join, Promise!Invitation, open, spent
<1>16. c.code \in CodeValues
  BY <1>9 DEF InviteCode
<1>. QED
  BY <1>1, <1>15, <1>16 DEF PromiseStep, Promise!Next

\* A new code; its group has a member, whoever asked for it.
LEMMA InvitePromised ==
  ASSUME BaseInv, SerialInv, ~overlapped, NEW s \in Slots, NEW v \in CodeValues,
         InviteInserts(s, v)
  PROVE  PromiseStep
<1> USE DEF BaseInv, GroupInv
<1> DEFINE g == ops[s].group
           c == [code |-> v, group |-> g, expires |-> now + Lifetime, used |-> FALSE]
           open == [code |-> v, group |-> g, used |-> FALSE]
<1>1. g \in Groups /\ groups[g] # None
  BY InFlight DEF InviteInserts, At, Op
<1>2. codes' = codes \cup {c} /\ (\A d \in codes : d.code # v) /\ Shown(c) = open
  BY DEF InviteInserts, Upsert, ExistsByCode, Shown
<1> HIDE DEF c, open
<1>3. InvitationsOf' = InvitationsOf \cup {open}
  <2>1. InvitationsOf' = {Shown(d) : d \in codes'}
    BY DEF InvitationsOf, Shown
  <2>. QED
    BY <1>2, <2>1, ShownIs
<1>4. \A i \in InvitationsOf : i.code # v
  BY <1>2 DEF InvitationsOf
<1>5. StandingOf' = StandingOf
  BY DEF InviteInserts, StandingOf, RoleAmong, MembersOf
<1>6. Promise!In(g) # {}
  <2>1. PICK m \in groups[g].members : m.user = groups[g].owner
    BY <1>1 DEF OwnerIsMember
  <2>2. m.user \in Users
    BY <1>1, <2>1 DEF TypeOK, GroupRow
  <2>. QED
    BY <1>1, <2>1, <2>2, StandingIs DEF MembersOf
<1>7. Promise!Invite(g, v)
  BY <1>3, <1>4, <1>5, <1>6 DEF Promise!Invite, Promise!Invitation, open
<1>. QED
  BY <1>1, <1>7 DEF PromiseStep, Promise!Next

\* Only the owner is left, and the codes go with the group.
LEMMA DeletePromised ==
  ASSUME BaseInv, OwnersSole, SerialInv, ~overlapped, NEW s \in Slots, DeleteCommits(s)
  PROVE  PromiseStep
<1> USE DEF BaseInv, GroupInv
<1> DEFINE g == ops[s].group  row == groups[g]
<1>1. g \in Groups /\ row # None
  BY InFlight DEF DeleteCommits, At, Op
<1>2. row \in GroupRow /\ Owned(row) /\ MembersOf(g) = row.members /\ Fits(row)
      /\ CanBeDeleted(row)
  BY <1>1 DEF TypeOK, OwnerIsMember, Owned, MembersOf, SerialInv, RowsFit, FromRow,
     DeleteCommits, At
<1>3. PICK m \in row.members : row.members = {m} /\ m.user = row.owner
  BY <1>2, FS_Singleton DEF Owned, Fits, CanBeDeleted
<1>4. /\ row.owner \in Users /\ StandingOf[g][row.owner] = "OWNER"
      /\ Promise!In(g) = {row.owner}
  <2>1. row.owner \in Users /\ Parts(row.members)[row.owner] = "OWNER"
    BY <1>2, OwnerParts
  <2>2. Promise!In(g) = {u \in Users : \E n \in row.members : n.user = u}
    BY <1>1, <1>2, StandingIs
  <2>3. StandingOf[g] = Parts(row.members)
    BY <1>1, <1>2, StandingIs
  <2>4. Promise!In(g) = {row.owner}
    BY <1>3, <2>1, <2>2
  <2>. QED
    BY <2>1, <2>3, <2>4
<1>5. StandingOf' = [StandingOf EXCEPT ![g] = Promise!Nobody]
  <2>1. groups' = [groups EXCEPT ![g] = None]
    BY DEF DeleteCommits
  <2>2. Parts({}) = Promise!Nobody
    BY DEF Parts, RoleAmong, Promise!Nobody
  <2>. QED
    BY <1>1, <2>1, <2>2, StandingStep
<1>6. InvitationsOf' = {i \in InvitationsOf : i.group # g}
  BY DEF DeleteCommits, InvitationsOf
<1>7. Promise!Dissolve(row.owner, g)
  BY <1>4, <1>5, <1>6 DEF Promise!Dissolve
<1>. QED
  BY <1>1, <1>4, <1>7 DEF PromiseStep, Promise!Next

LEMMA PromiseStepHolds ==
  BaseInv /\ OwnersSole /\ CodesInv /\ SerialInv /\ [Next]_vars => PromiseStep
<1> SUFFICES ASSUME BaseInv, OwnersSole, CodesInv, SerialInv, [Next]_vars
             PROVE  PromiseStep
  OBVIOUS
<1>1. CASE overlapped'
  BY <1>1 DEF PromiseStep
<1>2. CASE UNCHANGED <<groups, codes>>
  BY <1>2, NothingPromised
<1>3. ASSUME NEW s \in Slots, Continuation(s), ~overlapped'
      PROVE  PromiseStep
  <2>1. ~overlapped
    BY <1>3, AloneStep DEF BaseInv
  <2>2. CASE Save(s)
    BY <2>1, <2>2, SavePromised, JoinPromised
  <2>3. ASSUME NEW v \in CodeValues, InviteInserts(s, v) PROVE PromiseStep
    BY <2>1, <2>3, InvitePromised
  <2>4. CASE DeleteCommits(s)
    BY <2>1, <2>4, DeletePromised
  <2>. QED
    BY <1>2, <1>3, <2>2, <2>3, <2>4
       DEF Continuation, JoinAdds, JoinRefused, InviteFails, LeaveChecks,
           LeaveForbidden, LeaveWithdraws, SaveFails, DeleteFails, Throw
<1>4. ASSUME NEW s \in Slots, Endpoint(s) PROVE PromiseStep
  BY <1>2, <1>4 DEF Endpoint, Reading
<1>5. CASE Environment
  BY <1>2, <1>5, EnvironmentSteps DEF Tick, Overlapping
<1>6. CASE UNCHANGED vars
  BY <1>2, <1>6 DEF vars
<1>. QED
  BY <1>1, <1>3, <1>4, <1>5, <1>6 DEF Next

\* As long as requests do not overlap the groups stored, their members and
\* codes change only as GroupPromise lets them, for any users, groups, codes
\* and sizes of a group.
THEOREM GroupsKeepThePromise == Spec => KeepsGroupPromise
<1>1. Init => Promise!Init
  BY DEF Init, Promise!Init, Promise!Nobody, StandingOf, InvitationsOf, RoleAmong,
     MembersOf
<1>2. BaseInv /\ OwnersSole /\ CodesInv /\ SerialInv /\ [Next]_vars
        => [overlapped' \/ Promise!Next]_(Promise!promiseVars)
  BY PromiseStepHolds DEF PromiseStep
<1>. QED
  BY <1>1, <1>2, BaseInvariant, OwnersInvariant, CodesInvariant, SerialInvariant, PTL
     DEF Spec, KeepsGroupPromise

GroupsFit ==
  ~overlapped => \A g \in Groups :
    groups[g] # None => Cardinality(groups[g].members) \in 1 .. MaxMembers

\* While requests do not overlap no group stands empty or outgrows its limit:
\* the aggregate counts its members before it takes one in, it counts them
\* all, and its owner is among them.
THEOREM GroupsKeepTheirSize == Spec => []GroupsFit
<1>1. BaseInv /\ SerialInv => GroupsFit
  <2> SUFFICES ASSUME BaseInv, SerialInv, ~overlapped, NEW g \in Groups, groups[g] # None
               PROVE  Cardinality(groups[g].members) \in 1 .. MaxMembers
    BY DEF GroupsFit
  <2>1. IsFiniteSet(groups[g].members) /\ Cardinality(groups[g].members) <= MaxMembers
    BY DEF SerialInv, RowsFit, Fits
  <2>2. groups[g].members # {}
    BY DEF BaseInv, GroupInv, OwnerIsMember
  <2>3. Cardinality(groups[g].members) \in Nat /\ Cardinality(groups[g].members) # 0
    BY <2>1, <2>2, FS_CardinalityType, FS_EmptySet
  <2>. QED
    BY <2>1, <2>3, LimitsArePositive
<1>. QED
  BY <1>1, BaseInvariant, SerialInvariant, PTL

\* Nobody founds a second group: while requests do not overlap, whoever comes
\* to own another has been handed it as a member of it (ExistsByOwnerId is
\* asked by CreateGroupUseCase and not by TransferOwnershipUseCase).
OwnsGroup(u, g) == groups[g] # None /\ groups[g].owner = u
ComesToOwn(u, g) == ~OwnsGroup(u, g) /\ OwnsGroup(u, g)'
SecondGroupIsHandedOver ==
  [][~overlapped' =>
       \A u \in Users, g, h \in Groups :
         g # h /\ OwnsGroup(u, h) /\ ComesToOwn(u, g)
           => groups[g] # None /\ HasMember(groups[g], u)]_vars

LEMMA WriteHandsOver ==
  ASSUME BaseInv, NEW op \in Op, FromRow(op), op.pc = "save",
         NEW h \in Groups, OwnsGroup(op.copy.owner, h),
         groups[op.group] = None \/ groups[op.group].owner # op.copy.owner
  PROVE  groups[op.group] # None /\ HasMember(groups[op.group], op.copy.owner)
<1> DEFINE g == groups[op.group]
<1>1. op.group \in Groups /\ op.kind \in Kind /\ (g # None => g \in GroupRow)
  BY DEF Op, BaseInv, GroupInv, TypeOK
<1>2. op.kind # "create"
  <2> SUFFICES ASSUME op.kind = "create" PROVE FALSE
    OBVIOUS
  <2>1. PICK i \in MemberIds : op.copy = Create(op.user, i)
    BY DEF FromRow
  <2>2. op.copy.owner = op.user
    BY <2>1 DEF Create
  <2>. QED
    BY <2>2 DEF FromRow, ExistsByOwnerId, OwnsGroup
<1>3. op.kind # "update"
  BY DEF FromRow
<1>4. op.kind # "join"
  BY <1>1 DEF FromRow, AddMember, GroupRow, Admits
<1>5. ~Loses(op)
  BY <1>1 DEF FromRow, RemoveMember, GroupRow
<1>6. op.kind = "transfer"
  BY <1>1, <1>2, <1>3, <1>4, <1>5 DEF FromRow, Loses, Kind
<1>. QED
  BY <1>6 DEF FromRow, TransferOwnership, CanTransfer

LEMMA SecondGroupStep ==
  ASSUME BaseInv, OwnersSole, SerialInv, [Next]_vars, ~overlapped',
         NEW u \in Users, NEW g \in Groups, NEW h \in Groups,
         OwnsGroup(u, h), ComesToOwn(u, g)
  PROVE  groups[g] # None /\ HasMember(groups[g], u)
<1> USE DEF BaseInv, GroupInv
<1>1. ~UNCHANGED groups
  BY DEF ComesToOwn, OwnsGroup
<1>2. PICK s \in Slots : Continuation(s)
  BY <1>1, EnvironmentSteps
     DEF Next, Endpoint, Reading, Tick, Overlapping, vars
<1>3. ~overlapped
  BY <1>2, AloneStep
<1>4. CASE Save(s)
  <2>1. /\ ops[s] \in Op /\ ops[s].group \in Groups
        /\ groups' = [groups EXCEPT ![ops[s].group] = ops[s].copy]
    BY <1>3, <1>4, SaveWritesCopy
  <2>2. \A k \in Groups : groups'[k] = IF k = ops[s].group THEN ops[s].copy ELSE groups[k]
    BY <2>1 DEF TypeOK
  <2>3. g = ops[s].group /\ ops[s].copy.owner = u
    BY <2>2 DEF ComesToOwn, OwnsGroup
  <2>4. FromRow(ops[s]) /\ ops[s].pc = "save"
    BY <1>3, <1>4 DEF SerialInv, Save
  <2>. QED
    BY <2>1, <2>3, <2>4, WriteHandsOver DEF ComesToOwn, OwnsGroup
<1>5. CASE DeleteCommits(s)
  BY <1>5 DEF DeleteCommits, TypeOK, ComesToOwn, OwnsGroup
<1>. QED
  BY <1>1, <1>2, <1>4, <1>5
     DEF Continuation, JoinAdds, JoinRefused, InviteInserts, InviteFails, LeaveChecks,
         LeaveForbidden, LeaveWithdraws, SaveFails, DeleteFails, Throw

\* A second group is never founded, only handed over.
THEOREM SecondGroupsAreHandedOver == Spec => SecondGroupIsHandedOver
<1>1. BaseInv /\ OwnersSole /\ SerialInv /\ [Next]_vars =>
        (~overlapped' =>
           \A u \in Users, g, h \in Groups :
             g # h /\ OwnsGroup(u, h) /\ ComesToOwn(u, g)
               => groups[g] # None /\ HasMember(groups[g], u))
  BY SecondGroupStep
<1>. QED
  BY <1>1, BaseInvariant, OwnersInvariant, SerialInvariant, PTL
     DEF Spec, SecondGroupIsHandedOver

=============================================================================
