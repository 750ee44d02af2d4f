------------------------------ MODULE Accounts ------------------------------
(***************************************************************************)
(* Accounts: registration and login (src/module/user), what a registration *)
(* sets off (the handlers of UserRegisteredEvent in character and          *)
(* notification), unlocking and wearing characters, and subscriptions.     *)
(* Logging in ends in a session of RedisJwt, which this module composes.   *)
(*                                                                         *)
(* A request between two awaits is a record in "tasks"; its slot is the    *)
(* one of RedisJwt when it goes on to sign tokens.  Handlers run detached: *)
(* each is a record in "work", and one that rejects ends the process,      *)
(* because nothing handles the rejection.  What was in flight is lost and  *)
(* nothing takes it up again after the restart.                            *)
(***************************************************************************)
EXTENDS RedisJwt

CONSTANTS
  Devices,    \* device ids: unique in users
  Characters, \* rows of characters; registration grants all of them
  Types,      \* notification types: a subscription for each
  Required,   \* character -> messages its CHAT_COUNT condition asks, or None
  MaxChats    \* bound: messages one user sends

ASSUME SomeCharacter == Characters # {}
ASSUME RequiredIsACount ==
  Required \in [Characters -> Nat \cup {None}] /\ MaxChats \in Nat

VARIABLES
  accounts,   \* rows of users: user -> [device, wears], or None
  owned,      \* rows of user_characters: user -> characters
  subscribed, \* rows of notification_subscriptions: user -> type -> on, or None
  welcomed,   \* users who have a welcome notice
  chats,      \* rows of chat_messages by sender
  tasks,      \* the requests in flight
  work,       \* the handlers in flight
  unlocks,    \* history: how often an unlock was pushed to its user
  raced,      \* history: users who asked for something before their handlers ended
  crashed     \* history: the process has ended and started again

tables == <<accounts, owned, subscribed, welcomed, chats>>
told == <<unlocks, raced, crashed>>
accountVars == <<tables, tasks, work, told>>

Default == CHOOSE c \in Characters : TRUE
Account == [device : Devices, wears : Characters]

ASSUME NoneIsNoRow ==
  None \notin Account /\ None \notin Characters /\ None \notin BOOLEAN

Task ==
  [pc : {"save"}, user : Users, device : Devices]
    \cup [pc : {"login"}, user : Users]
    \cup [pc : {"unlock"}, user : Users, todo : SUBSET Characters,
          next : Characters \cup {None}]
    \cup [pc : {"wear"}, user : Users, copy : Account, character : Characters]
    \cup [pc : {"setting"}, user : Users, type : Types, on : BOOLEAN,
          found : BOOLEAN]
Work ==
  [kind : {"welcome", "defaults"}, user : Users]
    \cup [kind : {"grant"}, user : Users, todo : SUBSET Characters,
          next : Characters \cup {None}]

\* unlockCharacter for one of "todo" after the other; "next" is the one that
\* was not owned when its row was looked for.
Unlocking(u, todo, next) ==
  [pc |-> "unlock", user |-> u, todo |-> todo, next |-> next]
Granting(u, todo, next) ==
  [kind |-> "grant", user |-> u, todo |-> todo, next |-> next]

Free(s) == ops[s] = Idle /\ tasks[s] = Idle
StartsTask(s, t) == Free(s) /\ tasks' = [tasks EXCEPT ![s] = t]
Moves(s, t) == tasks' = [tasks EXCEPT ![s] = t]
Finishes(s) == Moves(s, Idle)

\* The guards of @UserAuth: a valid token of a user there is.
Authenticated(u) ==
  accounts[u] # None /\ \E a \in given : a.user = u /\ Accepts(a)

Pending(u) == {w \in work : w.user = u}
Races(u) == raced' = IF Pending(u) # {} THEN raced \cup {u} ELSE raced

-----------------------------------------------------------------------------
(***************************************************************************)
(* POST /register: RegisterUseCase.                                        *)
(***************************************************************************)
FindByDeviceId(d) == {u \in Users : accounts[u] # None /\ accounts[u].device = d}

RegisterReads(s, u, d) ==
  /\ FindByDeviceId(d) = {}
  /\ accounts[u] = None /\ \A t \in Slots : tasks[t] # Idle => tasks[t].user # u
  /\ StartsTask(s, [pc |-> "save", user |-> u, device |-> d])
  /\ UNCHANGED <<vars, tables, work, told>>

DeviceTaken(d) == FindByDeviceId(d) # {}

\* The three handlers of UserRegisteredEvent start.
HandlersOfNotification(u) ==
  {[kind |-> "welcome", user |-> u], [kind |-> "defaults", user |-> u]}
Handlers(u) ==
  {[kind |-> "welcome", user |-> u], [kind |-> "defaults", user |-> u],
   Granting(u, Characters, None)}

RegisterSaves(s) ==
  LET t == tasks[s] IN
  /\ t.pc = "save" /\ ~DeviceTaken(t.device)
  /\ accounts' = [accounts EXCEPT ![t.user] =
                    [device |-> t.device, wears |-> Default]]
  /\ work' = work \cup Handlers(t.user)
  /\ Moves(s, [pc |-> "login", user |-> t.user])
  /\ UNCHANGED <<vars, owned, subscribed, welcomed, chats, told>>

\* The rest of the request is a login of RedisJwt in the same slot.
RegisterLogsIn(s, r) ==
  /\ tasks[s].pc = "login"
  /\ CreateTokenPair(s, tasks[s].user, r)
  /\ Finishes(s)
  /\ UNCHANGED <<tables, work, told>>

(***************************************************************************)
(* POST /login: LoginUseCase.                                              *)
(***************************************************************************)
LoginAnybody(s, u, d, r) == Free(s) /\ CreateTokenPair(s, u, r)
LoginSigns(s, u, d, r) ==
  /\ Free(s)
  /\ u \in FindByDeviceId(d)
  /\ CreateTokenPair(s, u, r)

LoginByDevice(s, u, d, r) ==
  LoginSigns(s, u, d, r) /\ UNCHANGED accountVars

\* A query fails, a unique key is violated: the request is refused.
TaskFails(s) ==
  /\ tasks[s].pc \in {"save", "login", "wear"}
  /\ Finishes(s)
  /\ UNCHANGED <<vars, tables, work, told>>

-----------------------------------------------------------------------------
(***************************************************************************)
(* UserRegisteredNotificationHandler and UserRegisteredSubscriptionHandler. *)
(***************************************************************************)
Welcomes(w) ==
  /\ w.kind = "welcome"
  /\ welcomed' = welcomed \cup {w.user}
  /\ work' = work \ {w}
  /\ UNCHANGED <<vars, accounts, owned, subscribed, chats, tasks, told>>

HasSetting(u, t) == subscribed[u][t] # None

SaveBatch(u) == [t \in Types |-> TRUE]

Subscribes(w) ==
  /\ w.kind = "defaults"
  /\ \A t \in Types : ~HasSetting(w.user, t)
  /\ subscribed' = [subscribed EXCEPT ![w.user] = SaveBatch(w.user)]
  /\ work' = work \ {w}
  /\ UNCHANGED <<vars, accounts, owned, welcomed, chats, tasks, told>>

(***************************************************************************)
(* UserRegisteredEventHandler of character: UnlockCharacterUseCase for one *)
(* character after the other.                                              *)
(***************************************************************************)
GrantChecks(w, c) ==
  /\ w.kind = "grant" /\ w.next = None /\ c \in w.todo
  /\ work' = (work \ {w}) \cup
       {Granting(w.user, w.todo \ {c},
                 IF c \in owned[w.user] THEN None ELSE c)}
  /\ UNCHANGED <<vars, tables, tasks, told>>

GrantSaves(w) ==
  /\ w.kind = "grant" /\ w.next # None /\ w.next \notin owned[w.user]
  /\ owned' = [owned EXCEPT ![w.user] = @ \cup {w.next}]
  /\ work' = (work \ {w}) \cup {Granting(w.user, w.todo, None)}
  /\ UNCHANGED <<vars, accounts, subscribed, welcomed, chats, tasks, told>>

GrantEnds(w) ==
  /\ w.kind = "grant" /\ w.next = None /\ w.todo = {}
  /\ work' = work \ {w}
  /\ UNCHANGED <<vars, tables, tasks, told>>

\* The process ends and starts again: what it held in memory is gone.
Restarts ==
  /\ ops' = [s \in Slots |-> Idle] /\ tasks' = [s \in Slots |-> Idle]
  /\ work' = {} /\ crashed' = TRUE
  /\ UNCHANGED <<keys, held, now, history, tables, unlocks, raced>>

\* A row of the same user and type, or user and character, came first: the
\* unique key refuses the insert and the handler rejects.
Refused(w) ==
  \/ w.kind = "defaults" /\ \E t \in Types : HasSetting(w.user, t)
  \/ w.kind = "grant" /\ w.next # None /\ w.next \in owned[w.user]
Rejects(w) == Refused(w) /\ Restarts

Crash == (\E w \in work : TRUE) /\ Restarts

-----------------------------------------------------------------------------
(***************************************************************************)
(* POST /characters/unlock-events: TrackUnlockEventUseCase, CHAT_COUNT.    *)
(***************************************************************************)
Matches(c, count) == Required[c] # None /\ count >= Required[c]

TrackReads(s, u) ==
  /\ Authenticated(u)
  /\ StartsTask(s, Unlocking(u, {c \in Characters : Matches(c, chats[u])}, None))
  /\ Races(u)
  /\ UNCHANGED <<vars, tables, work, unlocks, crashed>>

TrackChecks(s, c) ==
  LET t == tasks[s] IN
  /\ t.pc = "unlock" /\ t.next = None /\ c \in t.todo
  /\ Moves(s, Unlocking(t.user, t.todo \ {c},
                        IF c \in owned[t.user] THEN None ELSE c))
  /\ UNCHANGED <<vars, tables, work, told>>

\* The event reaches the push handler once the row is in.
AnnouncesFirst(t) == TRUE
MayInsert(t) == t.next \notin owned[t.user]

TrackSaves(s) ==
  LET t == tasks[s] IN
  /\ t.pc = "unlock" /\ t.next # None /\ MayInsert(t)
  /\ owned' = [owned EXCEPT ![t.user] = @ \cup {t.next}]
  /\ unlocks' = [unlocks EXCEPT ![t.user][t.next] = @ + 1]
  /\ Moves(s, Unlocking(t.user, t.todo, None))
  /\ UNCHANGED <<vars, accounts, subscribed, welcomed, chats, work, raced,
                 crashed>>

\* Done, or refused by the unique key: what came before stays.
TrackEnds(s) ==
  LET t == tasks[s] IN
  /\ t.pc = "unlock"
  /\ \/ t.next = None /\ t.todo = {}
     \/ t.next # None /\ t.next \in owned[t.user]
  /\ Finishes(s)
  /\ UNCHANGED <<vars, tables, work, told>>

\* GET /characters and GET /characters/unlock-config: what the app shows as
\* owned, and what it is asked to report.
FindListWithOwnership(u) ==
  {[character |-> c, isOwned |-> c \in owned[u]] : c \in Characters}
GetTrackableEventTypes(u) ==
  {"CHAT_COUNT" : c \in {d \in Characters \ owned[u] : Required[d] # None}}

(***************************************************************************)
(* PATCH /users/character: ChangeCharacterUseCase.                         *)
(***************************************************************************)
ExistsUserCharacter(u, c) == c \in owned[u]

ChangeReads(s, u, c) ==
  /\ Authenticated(u) /\ ExistsUserCharacter(u, c)
  /\ StartsTask(s, [pc |-> "wear", user |-> u, copy |-> accounts[u],
                    character |-> c])
  /\ UNCHANGED <<vars, tables, work, told>>

ChangeSaves(s) ==
  LET t == tasks[s] IN
  /\ t.pc = "wear"
  /\ accounts' = [accounts EXCEPT ![t.user] =
                    [t.copy EXCEPT !.wears = t.character]]
  /\ Finishes(s)
  /\ UNCHANGED <<vars, owned, subscribed, welcomed, chats, work, told>>

(***************************************************************************)
(* PATCH /notifications/subscriptions.                                     *)
(***************************************************************************)
SettingReads(s, u, t, on) ==
  /\ Authenticated(u)
  /\ StartsTask(s, [pc |-> "setting", user |-> u, type |-> t, on |-> on,
                    found |-> HasSetting(u, t)])
  /\ Races(u)
  /\ UNCHANGED <<vars, tables, work, unlocks, crashed>>

\* An upsert by id: a row the request did not find has a new id, and the
\* unique key on user and type refuses it when another came first.
SettingSaves(s) ==
  LET t == tasks[s] IN
  /\ t.pc = "setting"
  /\ subscribed' = IF t.found \/ ~HasSetting(t.user, t.type)
                   THEN [subscribed EXCEPT ![t.user][t.type] = t.on]
                   ELSE subscribed
  /\ Finishes(s)
  /\ UNCHANGED <<vars, accounts, owned, welcomed, chats, work, told>>

\* POST of a short-talk message, as ChatCountResolver counts it.
SendsMessage(u) ==
  /\ Authenticated(u) /\ chats[u] < MaxChats
  /\ chats' = [chats EXCEPT ![u] = @ + 1]
  /\ UNCHANGED <<vars, accounts, owned, subscribed, welcomed, tasks, work, told>>

-----------------------------------------------------------------------------
Registers(s) ==
  \/ \E u \in Users, d \in Devices : RegisterReads(s, u, d)
  \/ RegisterSaves(s)
  \/ \E r \in RefreshTokens : RegisterLogsIn(s, r)
LogsIn(s) ==
  \E u \in Users, d \in Devices, r \in RefreshTokens : LoginByDevice(s, u, d, r)
Tracks(s) ==
  \/ \E u \in Users : TrackReads(s, u)
  \/ \E c \in Characters : TrackChecks(s, c)
  \/ TrackSaves(s) \/ TrackEnds(s)
Changes(s) ==
  \/ \E u \in Users, c \in Characters : ChangeReads(s, u, c)
  \/ ChangeSaves(s)
Chooses(s) ==
  \/ \E u \in Users, t \in Types, on \in BOOLEAN : SettingReads(s, u, t, on)
  \/ SettingSaves(s)
Handles(w) ==
  \/ Welcomes(w) \/ Subscribes(w) \/ GrantSaves(w) \/ GrantEnds(w)
  \/ \E c \in Characters : GrantChecks(w, c)
  \/ Rejects(w)

\* What RedisJwt does with a slot no other request holds.
Sessions ==
  /\ \/ Tick
     \/ \E s \in Slots :
          /\ tasks[s] = Idle
          /\ StoreTokenMetadata(s) \/ RefreshAccessToken(s)
               \/ InvalidateToken(s) \/ ExecFails(s)
  /\ UNCHANGED accountVars

AccountsInit ==
  /\ Init
  /\ accounts = [u \in Users |-> None] /\ owned = [u \in Users |-> {}]
  /\ subscribed = [u \in Users |-> [t \in Types |-> None]]
  /\ welcomed = {} /\ chats = [u \in Users |-> 0]
  /\ tasks = [s \in Slots |-> Idle] /\ work = {}
  /\ unlocks = [u \in Users |-> [c \in Characters |-> 0]]
  /\ raced = {} /\ crashed = FALSE

AccountsNext ==
  \/ \E s \in Slots : \/ Registers(s) \/ LogsIn(s) \/ TaskFails(s)
                      \/ Tracks(s) \/ Changes(s) \/ Chooses(s)
  \/ \E w \in work : Handles(w)
  \/ \E u \in Users : SendsMessage(u)
  \/ Crash
  \/ Sessions

AccountsSpec == AccountsInit /\ [][AccountsNext]_<<vars, accountVars>>

-----------------------------------------------------------------------------
\* The types of the tables, the handlers in flight and the sessions.
AccountsTypeOK ==
  /\ SessionsTypeOK
  /\ accounts \in [Users -> Account \cup {None}]
  /\ owned \in [Users -> SUBSET Characters]
  /\ subscribed \in [Users -> [Types -> BOOLEAN \cup {None}]]
  /\ welcomed \subseteq Users /\ chats \in [Users -> 0..MaxChats]
  /\ tasks \in [Slots -> Task \cup {Idle}] /\ work \subseteq Work
  /\ unlocks \in [Users -> [Characters -> Nat]]
  /\ raced \subseteq Users /\ crashed \in BOOLEAN

\* A session of Redis, a granted character, a setting and a handler at work
\* are of a user whose row is in the database: tokens and announcements come
\* after the save, and a registration the key refused leaves no trace.
NothingWithoutAnAccount ==
  \A u \in Users : accounts[u] = None =>
    /\ session[u] = None /\ owned[u] = {} /\ Pending(u) = {}
    /\ u \notin welcomed /\ \A t \in Types : ~HasSetting(u, t)

\* While the process lives, the handlers that have ended have left all
\* characters, all settings and a welcome.  A key refuses a handler's row,
\* which ends the process, only when the user it is for asked for something
\* before the handlers were done: two handlers never get in each other's way.
RegistrationSettles ==
  /\ \A u \in Users : accounts[u] # None /\ Pending(u) = {} /\ ~crashed =>
       /\ owned[u] = Characters /\ u \in welcomed
       /\ \A t \in Types : HasSetting(u, t)
  /\ \A w \in work : Refused(w) => w.user \in raced

\* Requests that overlap each other and the grants unlock a character once:
\* its push goes out at most once, when it is owned and its count was met.
\* While one that is earned stays locked, the app is asked to report chats,
\* and nobody wears one that is locked, save the default of a new account.
UnlockedOnceAndEarned ==
  \A u \in Users, c \in Characters :
    LET isOwned == [character |-> c, isOwned |-> TRUE] \in FindListWithOwnership(u)
    IN
    /\ unlocks[u][c] > 0 =>
         unlocks[u][c] = 1 /\ isOwned /\ chats[u] >= Required[c]
    /\ Matches(c, chats[u]) /\ GetTrackableEventTypes(u) = {} => isOwned
    /\ accounts[u] # None /\ accounts[u].wears = c => isOwned \/ c = Default
=============================================================================
