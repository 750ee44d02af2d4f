------------------------------ MODULE Notices ------------------------------
(***************************************************************************)
(* Device tokens, notices and pushes (src/module/device-token,             *)
(* notification and push-notification).                                    *)
(*                                                                         *)
(* A request or a handler between two awaits is a record in "calls".  A    *)
(* domain event starts a handler that stores notices and one that pushes,  *)
(* side by side; a broadcast stores its notices first and pushes to        *)
(* whoever is subscribed when the push begins.  The push deletes every     *)
(* token FCM did not accept, whatever the reason.                          *)
(*                                                                         *)
(* device_tokens is a sequence in the order of last_used_at, which every   *)
(* save renews.  Rows have unique ids and unique tokens; nothing keeps a   *)
(* user from having two.  Nor does anything keep a user from having two    *)
(* notices about a thing: those of an event go to its participants as      *)
(* listed, and event_participants may list a user again.                   *)
(***************************************************************************)
EXTENDS Naturals, FiniteSets, SequencesExt

CONSTANTS
  Users,      \* accounts
  Tokens,     \* FCM tokens
  RowIds,     \* ids of device_tokens rows: bounds those in use at once
  Broadcasts, \* system announcements
  Happenings, \* domain events
  Nobody      \* stands in for who did it when the system did

ASSUME TopicsApart == Broadcasts \cap Happenings = {} /\ Nobody \notin Users

VARIABLES
  joined,   \* users who have an account
  optedOut, \* users who have switched the type off
  devices,  \* device_tokens, the one used last at the end
  dead,     \* tokens FCM refuses
  notices,  \* rows of notifications; readAt is 0 while unread
  calls,    \* requests and handlers in flight
  announced,\* history: broadcasts and domain events there have been
  happened, \* history: the domain events: of what kind, about whom, by whom
  doubled,  \* history: users of whom two registrations have overlapped
  pushed,   \* history: [user, about] that FCM has accepted
  after,    \* history: [user, about] who joined after a broadcast read users
  kept,     \* history: [user, token] registered, and nothing since undoes it
  shot      \* history: tokens registered while a deletion was on its way

noticeHistory == <<announced, happened, doubled, pushed, after, kept, shot>>
noticeVars == <<joined, optedOut, devices, dead, notices, calls, noticeHistory>>

Topics == Broadcasts \cup Happenings
Kinds == {"created", "cancelled", "started", "ended", "kicked", "unlocked"}
\* The people a domain event lists, those it lists twice (a user listed more
\* often is as one listed twice), and who did it.
Happening == [about : Happenings, kind : Kinds, people : SUBSET Users,
              twice : SUBSET Users, by : Users \cup {Nobody}]
Device == [id : RowIds, user : Users, token : Tokens]
\* user, about and nth stand for the id of the row.
Notice == [user : Users, about : Topics, nth : 1..2, readAt : Nat]
Call ==
  [pc : {"owner", "evict", "mine"}, user : Users, token : Tokens]
    \cup [pc : {"save"}, user : Users, token : Tokens, id : RowIds]
    \cup [pc : {"store"}, about : Topics, users : SUBSET Users, twice : SUBSET Users]
    \cup [pc : {"filter", "tokens"}, about : Topics, users : SUBSET Users]
    \cup [pc : {"send"}, about : Topics, to : SUBSET [user : Users, token : Tokens]]
    \cup [pc : {"failed"}, tokens : SUBSET Tokens]
    \cup [pc : {"reading"}, copy : Notice]

Rows == {devices[i] : i \in 1..Len(devices)}
RowsOf(u) == {d \in Rows : d.user = u}

\* A sequence without some elements, the others in their order.
Staying(s, rows) ==
  LET stay == {i \in 1..Len(s) : s[i] \notin rows}
      rank(i) == Cardinality({k \in stay : k <= i})
  IN  [j \in 1..Cardinality(stay) |-> s[CHOOSE i \in stay : rank(i) = j]]
Without(rows) == Staying(devices, rows)

Moves(x, y) == calls' = (calls \ {x}) \cup {y}
Ends(x) == calls' = calls \ {x}

-----------------------------------------------------------------------------
(***************************************************************************)
(* POST /device-tokens: RegisterDeviceTokenUseCase, after FCM's dry run.   *)
(***************************************************************************)
Registering(u) == {x \in calls : x.pc \in {"owner", "evict", "mine", "save"}
                                   /\ x.user = u}

RegisterValidates(u, t) ==
  /\ u \in joined /\ t \notin dead
  /\ calls' = calls \cup {[pc |-> "owner", user |-> u, token |-> t]}
  /\ doubled' = IF Registering(u) # {} THEN doubled \cup {u} ELSE doubled
  /\ UNCHANGED <<joined, optedOut, devices, dead, notices, announced, happened,
                 pushed, after, kept, shot>>

OwnsAlready(x) == \E d \in Rows : d.token = x.token /\ d.user # x.user

RegisterFindsToken(x) ==
  /\ x.pc = "owner"
  /\ Moves(x, [x EXCEPT !.pc = IF OwnsAlready(x) THEN "evict" ELSE "mine"])
  /\ UNCHANGED <<joined, optedOut, devices, dead, notices, noticeHistory>>

DeleteByToken(t) == Without({d \in Rows : d.token = t})

\* The token has moved to another user's device.
RegisterEvicts(x) ==
  /\ x.pc = "evict"
  /\ devices' = DeleteByToken(x.token)
  /\ kept' = {k \in kept : k.token # x.token}
  /\ Moves(x, [x EXCEPT !.pc = "mine"])
  /\ UNCHANGED <<joined, optedOut, dead, notices, announced, happened, doubled, pushed,
                 after, shot>>

\* findByUserId: the row used last, or a row to be created.
IsNew(i) == /\ \A d \in Rows : d.id # i
            /\ \A x \in calls : x.pc = "save" => x.id # i
NeverFinds(u, i) == IsNew(i)
FindsByUserId(u, i) ==
  \/ RowsOf(u) = {} /\ IsNew(i)
  \/ \E n \in 1..Len(devices) :
       /\ devices[n].user = u /\ devices[n].id = i
       /\ \A k \in n + 1..Len(devices) : devices[k].user # u

RegisterFindsUser(x, i) ==
  /\ x.pc = "mine" /\ FindsByUserId(x.user, i)
  /\ Moves(x, [pc |-> "save", user |-> x.user, token |-> x.token, id |-> i])
  /\ UNCHANGED <<joined, optedOut, devices, dead, notices, noticeHistory>>

\* An upsert by id; the unique key on token refuses it when another row,
\* the user's own older one too, has the token.
TokenTaken(x) == \E d \in Rows : d.token = x.token /\ d.id # x.id

RegisterSaves(x) ==
  /\ x.pc = "save" /\ ~TokenTaken(x)
  /\ devices' = Append(Without({d \in Rows : d.id = x.id}),
                       [id |-> x.id, user |-> x.user, token |-> x.token])
  /\ kept' = {k \in kept : k.user # x.user /\ k.token # x.token}
               \cup {[user |-> x.user, token |-> x.token]}
  /\ shot' = IF \E y \in calls : y.pc = "failed" /\ x.token \in y.tokens
             THEN shot \cup {x.token} ELSE shot
  /\ Ends(x)
  /\ UNCHANGED <<joined, optedOut, dead, notices, announced, happened, doubled, pushed,
                 after>>

RegisterFails(x) ==
  /\ x.pc = "save" /\ TokenTaken(x)
  /\ Ends(x)
  /\ UNCHANGED <<joined, optedOut, devices, dead, notices, noticeHistory>>

\* DELETE /device-tokens, for any token, and the user whose it was.
RemoveDeviceToken(t) ==
  /\ devices' = DeleteByToken(t)
  /\ kept' = {k \in kept : k.token # t}
  /\ UNCHANGED <<joined, optedOut, dead, notices, calls, announced, happened, doubled,
                 pushed, after, shot>>

\* TokenCleanupScheduler: everything last used before some day.
DropsNewest(n) == SubSeq(devices, 1, Len(devices) - n)
DropsOldest(n) == SubSeq(devices, n + 1, Len(devices))

CleanupStaleTokens(n) ==
  /\ n <= Len(devices)
  /\ devices' = DropsOldest(n)
  /\ kept' = {k \in kept : \A i \in 1..n : k.token # devices[i].token}
  /\ UNCHANGED <<joined, optedOut, dead, notices, calls, announced, happened, doubled,
                 pushed, after, shot>>

-----------------------------------------------------------------------------
(***************************************************************************)
(* What is announced, and the handlers it starts.                          *)
(***************************************************************************)
\* BroadcastSystemNotificationUseCase reads the users.
BroadcastReadsSubscribed(a) ==
  /\ a \in Broadcasts \ announced /\ joined # {}
  /\ announced' = announced \cup {a}
  /\ calls' = calls \cup
       {[pc |-> "store", about |-> a, users |-> joined \ optedOut, twice |-> {}]}
  /\ UNCHANGED <<joined, optedOut, devices, dead, notices, happened, doubled,
                 pushed, after, kept, shot>>
BroadcastReads(a) ==
  /\ a \in Broadcasts \ announced /\ joined # {}
  /\ announced' = announced \cup {a}
  /\ calls' = calls \cup
       {[pc |-> "store", about |-> a, users |-> joined, twice |-> {}]}
  /\ UNCHANGED <<joined, optedOut, devices, dead, notices, happened, doubled,
                 pushed, after, kept, shot>>

(***************************************************************************)
(* The handlers of a domain event: one stores notices, one pushes, unless  *)
(* it concerns nobody.  The people of an event are the members of its      *)
(* group, its participants, those with a result, or the one user.          *)
(***************************************************************************)
Store(h, users) ==
  {[pc |-> "store", about |-> h.about, users |-> us, twice |-> h.twice] :
     us \in {users} \ {{}}}
Alert(h, users) ==
  {[pc |-> "filter", about |-> h.about, users |-> us] : us \in {users} \ {{}}}
Silent(h, users) ==
  {[pc |-> "tokens", about |-> h.about, users |-> users]}

CreatedTellsEveryMember(h) == Store(h, h.people)
EventCreatedNotification(h) == Store(h, h.people \ {h.by})
EventCreatedPush(h) == Alert(h, h.people \ {h.by})
EventCancelledNotification(h) ==
  Store(h, IF h.by = Nobody THEN h.people ELSE h.people \ {h.by})
EventCancelledPush(h) ==
  Alert(h, IF h.by = Nobody THEN h.people ELSE h.people \ {h.by})
EventStartedNotification(h) == Store(h, h.people)
EventStartedPush(h) == Alert(h, h.people)
EventEndedNotification(h) == Store(h, h.people)
EventEndedPush(h) == Alert(h, h.people)
MemberKickedNotification(h) == Store(h, h.people)
MemberKickedPush(h) == Alert(h, h.people)
CharacterUnlockedPush(h) == Silent(h, h.people)

Handlers(h) ==
  CASE h.kind = "created" -> EventCreatedNotification(h) \cup EventCreatedPush(h)
    [] h.kind = "cancelled" ->
         EventCancelledNotification(h) \cup EventCancelledPush(h)
    [] h.kind = "started" -> EventStartedNotification(h) \cup EventStartedPush(h)
    [] h.kind = "ended" -> EventEndedNotification(h) \cup EventEndedPush(h)
    [] h.kind = "kicked" -> MemberKickedNotification(h) \cup MemberKickedPush(h)
    [] h.kind = "unlocked" -> CharacterUnlockedPush(h)

\* A member creates an event and a participant deletes it; the system, too,
\* cancels, and starts and ends.  The participants of an event, and so its
\* results, may list a user again, which the members of a group do not.
MayHappen(h) ==
  /\ h.people # {} /\ h.people \subseteq joined /\ h.twice \subseteq h.people
  /\ h.twice # {} => h.kind \in {"cancelled", "started", "ended"}
  /\ h.kind = "created" => h.by \in h.people
  /\ h.kind = "cancelled" => h.by \in h.people \cup {Nobody}
  /\ h.kind \notin {"created", "cancelled"} => h.by = Nobody
  /\ h.kind \in {"kicked", "unlocked"} => Cardinality(h.people) = 1

Happens(h) ==
  /\ h.about \notin announced /\ MayHappen(h)
  /\ announced' = announced \cup {h.about}
  /\ happened' = happened \cup {h}
  /\ calls' = calls \cup Handlers(h)
  /\ UNCHANGED <<joined, optedOut, devices, dead, notices, doubled, pushed,
                 after, kept, shot>>

\* saveBatch in one statement, a row for every time a user is listed; for a
\* broadcast the push handler comes next.
NoticesOf(x) ==
  [user : x.users, about : {x.about}, nth : {1}, readAt : {0}]
    \cup [user : x.users \cap x.twice, about : {x.about}, nth : {2}, readAt : {0}]
PushHandler(x) == [pc |-> "filter", about |-> x.about, users |-> Users]
Stores(x, sendPush) ==
  /\ x.pc = "store"
  /\ notices' = notices \cup NoticesOf(x)
  /\ IF x.about \in Broadcasts /\ sendPush THEN Moves(x, PushHandler(x))
     ELSE Ends(x)
  /\ UNCHANGED <<joined, optedOut, devices, dead, noticeHistory>>

FindSubscribedAmong(users) == (users \cap joined) \ optedOut

Filters(x) ==
  /\ x.pc = "filter"
  /\ Moves(x, [x EXCEPT !.pc = "tokens", !.users = FindSubscribedAmong(@)])
  /\ UNCHANGED <<joined, optedOut, devices, dead, notices, noticeHistory>>

FindTokensByUserIds(users) ==
  {[user |-> d.user, token |-> d.token] : d \in {e \in Rows : e.user \in users}}

ResolvesTokens(x) ==
  LET to == FindTokensByUserIds(x.users) IN
  /\ x.pc = "tokens"
  /\ IF to = {} THEN Ends(x)
     ELSE Moves(x, [pc |-> "send", about |-> x.about, to |-> to])
  /\ UNCHANGED <<joined, optedOut, devices, dead, notices, noticeHistory>>

\* FCM refuses the dead tokens, and any other when it is out of order.
MayFail(x, failed) ==
  /\ failed \subseteq {p.token : p \in x.to}
  /\ dead \cap {p.token : p \in x.to} \subseteq failed

Sends(x, failed) ==
  /\ x.pc = "send" /\ MayFail(x, failed)
  /\ pushed' = pushed \cup {[user |-> p.user, about |-> x.about] :
                              p \in {q \in x.to : q.token \notin failed}}
  /\ kept' = {k \in kept : k.token \notin failed}
  /\ IF failed = {} THEN Ends(x)
     ELSE Moves(x, [pc |-> "failed", tokens |-> failed])
  /\ UNCHANGED <<joined, optedOut, devices, dead, notices, announced, happened, doubled,
                 after, shot>>

DeleteByTokens(x) == Without({d \in Rows : d.token \in x.tokens})

\* HandleFailedTokensUseCase.
HandlesFailedTokens(x) ==
  /\ x.pc = "failed"
  /\ devices' = DeleteByTokens(x)
  /\ Ends(x)
  /\ UNCHANGED <<joined, optedOut, dead, notices, noticeHistory>>

-----------------------------------------------------------------------------
(***************************************************************************)
(* Reading notices.                                                        *)
(***************************************************************************)
MarkAgain(n, t) == [n EXCEPT !.readAt = t]
MarkAsRead(n, t) == IF n.readAt # 0 THEN n ELSE [n EXCEPT !.readAt = t]

\* The next moment: later than every time a notice was read at.
Moment == 1 + Max({n.readAt : n \in notices})

SameRow(m, n) == m.user = n.user /\ m.about = n.about /\ m.nth = n.nth

ReadFinds(n) ==
  /\ n \in notices
  /\ calls' = calls \cup {[pc |-> "reading", copy |-> n]}
  /\ UNCHANGED <<joined, optedOut, devices, dead, notices, noticeHistory>>

ReadSaves(x) ==
  /\ x.pc = "reading"
  /\ notices' = {n \in notices : ~SameRow(n, x.copy)}
                  \cup {MarkAsRead(x.copy, Moment)}
  /\ Ends(x)
  /\ UNCHANGED <<joined, optedOut, devices, dead, noticeHistory>>

\* updateMany where is_read is false: one statement.
MarkAllAsRead(u) ==
  /\ \E n \in notices : n.user = u /\ n.readAt = 0
  /\ notices' = {IF n.user = u THEN MarkAsRead(n, Moment) ELSE n : n \in notices}
  /\ UNCHANGED <<joined, optedOut, devices, dead, calls, noticeHistory>>

-----------------------------------------------------------------------------
(***************************************************************************)
(* The surroundings.                                                       *)
(***************************************************************************)
Joins(u) ==
  /\ u \notin joined
  /\ joined' = joined \cup {u}
  /\ after' = after \cup [user : {u}, about : announced \cap Broadcasts]
  /\ UNCHANGED <<optedOut, devices, dead, notices, calls, announced, happened, doubled,
                 pushed, kept, shot>>

Chooses(u) ==
  /\ u \in joined
  /\ optedOut' = IF u \in optedOut THEN optedOut \ {u} ELSE optedOut \cup {u}
  /\ UNCHANGED <<joined, devices, dead, notices, calls, noticeHistory>>

\* The app is uninstalled: FCM refuses the token from now on.
Dies(t) ==
  /\ t \notin dead
  /\ dead' = dead \cup {t}
  /\ UNCHANGED <<joined, optedOut, devices, notices, calls, noticeHistory>>

\* A handler rejects, or the process ends for another reason.
ProcessEnds ==
  /\ calls # {}
  /\ calls' = {}
  /\ UNCHANGED <<joined, optedOut, devices, dead, notices, noticeHistory>>

-----------------------------------------------------------------------------
NoticesInit ==
  /\ joined = {} /\ optedOut = {} /\ devices = <<>> /\ dead = {}
  /\ notices = {} /\ calls = {} /\ announced = {} /\ happened = {}
  /\ doubled = {} /\ pushed = {} /\ after = {} /\ kept = {} /\ shot = {}

RegistersDevice ==
  \/ \E u \in Users, t \in Tokens : RegisterValidates(u, t)
  \/ \E x \in calls :
       \/ RegisterFindsToken(x) \/ RegisterEvicts(x)
       \/ \E i \in RowIds : RegisterFindsUser(x, i)
       \/ RegisterSaves(x) \/ RegisterFails(x)
RemovesDevices ==
  \/ \E t \in Tokens : RemoveDeviceToken(t)
  \/ \E n \in 1..Cardinality(RowIds) : CleanupStaleTokens(n)
Announces ==
  \/ \E a \in Broadcasts : BroadcastReads(a)
  \/ \E h \in Happening : Happens(h)
  \/ \E x \in calls, sendPush \in BOOLEAN : Stores(x, sendPush)
Pushes ==
  \E x \in calls :
    \/ Filters(x) \/ ResolvesTokens(x) \/ HandlesFailedTokens(x)
    \/ \E failed \in SUBSET Tokens : Sends(x, failed)
Reads ==
  \/ \E n \in notices : ReadFinds(n)
  \/ \E x \in calls : ReadSaves(x)
  \/ \E u \in Users : MarkAllAsRead(u)
Surroundings ==
  \/ \E u \in Users : Joins(u) \/ Chooses(u)
  \/ \E t \in Tokens : Dies(t)
  \/ ProcessEnds

NoticesNext ==
  RegistersDevice \/ RemovesDevices \/ Announces \/ Pushes \/ Reads
    \/ Surroundings

NoticesSpec == NoticesInit /\ [][NoticesNext]_noticeVars

-----------------------------------------------------------------------------
\* Types, and the keys of device_tokens: an id, and a token, is in one row.
NoticesTypeOK ==
  /\ joined \subseteq Users /\ optedOut \subseteq Users /\ dead \subseteq Tokens
  /\ Rows \subseteq Device /\ Cardinality(Rows) = Len(devices)
  /\ \A d, e \in Rows : d.id = e.id \/ d.token = e.token => d = e
  /\ notices \subseteq Notice
  /\ calls \subseteq Call
  /\ announced \subseteq Topics /\ happened \subseteq Happening
  /\ doubled \subseteq Users
  /\ pushed \cup after \subseteq [user : Users, about : Topics]
  /\ kept \subseteq [user : Users, token : Tokens] /\ shot \subseteq Tokens

\* A token is in one row, and so of one user; and a user has one, as the SPEC
\* asks, unless two of the user's registrations have overlapped; pushes,
\* clean-ups and the registrations of others may come in between.
OneTokenPerUser ==
  /\ \A d, e \in Rows : d.token = e.token => d = e
  /\ \A u \in Users \ doubled : Cardinality(RowsOf(u)) <= 1

\* A registration lasts until the user registers another token, somebody
\* registers or removes this one, it grows stale or FCM refuses it, unless
\* the deletion of the token for an older failure was on its way.
RegistrationLasts ==
  \A k \in kept : k.token \in shot \/ \E d \in Rows : d.user = k.user /\ d.token = k.token

\* Whoever gets the push of a broadcast finds its notice in the app, save
\* those who joined between the reading of the users and the push.
PushedHaveTheNotice ==
  \A p \in pushed : p.about \in Broadcasts =>
    p \in after \/ \E n \in notices : n.user = p.user /\ n.about = p.about

\* The handlers of a domain event, which run side by side and choose their
\* users apart, agree on them: whoever finds a notice of it or gets a push is
\* one of its people and not the one who did it, and the notices are stored
\* for all of these or for none.
OneAudience ==
  \A h \in happened :
    LET audience == h.people \ {h.by}
        noticed == {n.user : n \in {m \in notices : m.about = h.about}}
        heard == {p.user : p \in {q \in pushed : q.about = h.about}}
    IN noticed \in {{}, audience} /\ heard \subseteq audience

\* A notice that has been read is never unread again, and the time it was
\* read at stays, unless a request that found it otherwise is still to save
\* its copy.
Stale(n) == {x \in calls : x.pc = "reading" /\ x.copy # n /\ SameRow(x.copy, n)}
ReadTimeStays ==
  [][\A n \in notices : n.readAt # 0 =>
       /\ Stale(n) = {} => n \in notices'
       /\ \E m \in notices' : SameRow(m, n) /\ m.readAt # 0]_noticeVars
=============================================================================
