---------------------------- MODULE Accounts_proofs ----------------------------
(***************************************************************************)
(* Proofs about Accounts, for every set of users, devices, characters,     *)
(* types and requests in flight: what is proved of the sessions of         *)
(* RedisJwt also holds here, where the process ends and starts again;      *)
(* nothing is there without an account; the handlers of a registration     *)
(* leave it whole; and a character is unlocked once.                       *)
(***************************************************************************)
EXTENDS Accounts, RedisJwt_proofs

SaveTask == [pc : {"save"}, user : Users, device : Devices]
LoginTask == [pc : {"login"}, user : Users]
UnlockTask == [pc : {"unlock"}, user : Users, todo : SUBSET Characters,
               next : Characters \cup {None}]
WearTask == [pc : {"wear"}, user : Users, copy : Account,
             character : Characters]
SettingTask == [pc : {"setting"}, user : Users, type : Types, on : BOOLEAN,
                found : BOOLEAN]
PlainWork == [kind : {"welcome", "defaults"}, user : Users]
GrantWork == [kind : {"grant"}, user : Users, todo : SUBSET Characters,
              next : Characters \cup {None}]

TablesTypeOK ==
  /\ accounts \in [Users -> Account \cup {None}]
  /\ owned \in [Users -> SUBSET Characters]
  /\ subscribed \in [Users -> [Types -> BOOLEAN \cup {None}]]
  /\ welcomed \subseteq Users /\ chats \in [Users -> 0..MaxChats]
FlightTypeOK ==
  tasks \in [Slots -> Task \cup {Idle}] /\ work \subseteq Work
ToldTypeOK ==
  unlocks \in [Users -> [Characters -> Nat]] /\ raced \subseteq Users

-----------------------------------------------------------------------------
(***************************************************************************)
(* Shapes.                                                                 *)
(***************************************************************************)

\* A request in flight carries what its next step needs.
LEMMA TaskShapes ==
  ASSUME FlightTypeOK, NEW s \in Slots
  PROVE  /\ tasks[s].pc = "save" => tasks[s] \in SaveTask
         /\ tasks[s].pc = "login" => tasks[s] \in LoginTask
         /\ tasks[s].pc = "unlock" => tasks[s] \in UnlockTask
         /\ tasks[s].pc = "wear" => tasks[s] \in WearTask
         /\ tasks[s].pc = "setting" => tasks[s] \in SettingTask
         /\ tasks[s] = Idle <=> tasks[s].pc = "idle"
         /\ tasks[s].pc \in {"save", "login", "unlock", "wear", "setting", "idle"}
<1>1. tasks[s] \in SaveTask \cup LoginTask \cup UnlockTask \cup WearTask
                     \cup SettingTask \cup {Idle}
  BY DEF FlightTypeOK, Task, SaveTask, LoginTask, UnlockTask, WearTask,
         SettingTask
<1>2. CASE tasks[s] \in SaveTask
  BY <1>2 DEF SaveTask, Idle
<1>3. CASE tasks[s] \in LoginTask
  BY <1>3 DEF LoginTask, Idle
<1>4. CASE tasks[s] \in UnlockTask
  BY <1>4 DEF UnlockTask, Idle
<1>5. CASE tasks[s] \in WearTask
  BY <1>5 DEF WearTask, Idle
<1>6. CASE tasks[s] \in SettingTask
  BY <1>6 DEF SettingTask, Idle
<1>7. CASE tasks[s] = Idle
  BY <1>7 DEF Idle
<1>. QED
  BY <1>1, <1>2, <1>3, <1>4, <1>5, <1>6, <1>7

\* So does a handler at work.
LEMMA WorkShapes ==
  ASSUME FlightTypeOK, NEW w \in work
  PROVE  /\ w.user \in Users
         /\ w.kind \in {"welcome", "defaults"} => w \in PlainWork
         /\ w.kind = "grant" => w \in GrantWork
         /\ w.kind \in {"welcome", "defaults", "grant"}
<1>1. w \in PlainWork \cup GrantWork
  BY DEF FlightTypeOK, Work, PlainWork, GrantWork
<1>2. CASE w \in PlainWork
  BY <1>2 DEF PlainWork
<1>3. CASE w \in GrantWork
  BY <1>3 DEF GrantWork
<1>. QED
  BY <1>1, <1>2, <1>3

LEMMA UnlockingIsATask ==
  ASSUME NEW u \in Users, NEW todo \in SUBSET Characters,
         NEW next \in Characters \cup {None}
  PROVE  /\ Unlocking(u, todo, next) \in Task
         /\ Unlocking(u, todo, next).pc = "unlock"
         /\ Unlocking(u, todo, next).user = u
         /\ Unlocking(u, todo, next).todo = todo
         /\ Unlocking(u, todo, next).next = next
BY DEF Unlocking, Task

LEMMA GrantingIsWork ==
  ASSUME NEW u \in Users, NEW todo \in SUBSET Characters,
         NEW next \in Characters \cup {None}
  PROVE  /\ Granting(u, todo, next) \in Work
         /\ Granting(u, todo, next).kind = "grant"
         /\ Granting(u, todo, next).user = u
         /\ Granting(u, todo, next).todo = todo
         /\ Granting(u, todo, next).next = next
BY DEF Granting, Work

LEMMA HandlersAreWork ==
  ASSUME NEW u \in Users
  PROVE  /\ Handlers(u) \subseteq Work
         /\ \A w \in Handlers(u) : w.user = u
         /\ \A w \in Handlers(u) :
              w.kind = "grant" => w = Granting(u, Characters, None)
         /\ Granting(u, Characters, None) \in Handlers(u)
         /\ [kind |-> "welcome", user |-> u] \in Handlers(u)
         /\ [kind |-> "defaults", user |-> u] \in Handlers(u)
<1>1. Granting(u, Characters, None) \in Work
      /\ Granting(u, Characters, None).user = u
  BY GrantingIsWork
<1>2. [kind |-> "welcome", user |-> u] \in Work
      /\ [kind |-> "defaults", user |-> u] \in Work
  BY DEF Work
<1>. QED
  BY <1>1, <1>2 DEF Handlers

-----------------------------------------------------------------------------
(***************************************************************************)
(* Sessions in the whole system.                                           *)
(*                                                                         *)
(* A step is one of RedisJwt, or leaves it alone, or ends the process:     *)
(* then what Redis holds stays and the requests in flight are gone.        *)
(***************************************************************************)
LEMMA CreateIsAStep ==
  ASSUME NEW s \in Slots, NEW u \in Users, NEW r \in RefreshTokens,
         CreateTokenPair(s, u, r)
  PROVE  [Next]_vars
BY DEF Next, Request, Login

LEMMA SessionsStep ==
  ASSUME Sessions
  PROVE  [Next]_vars
BY DEF Sessions, Next, Request, Login

LEMMA HandlesStep ==
  ASSUME NEW w \in work, Handles(w)
  PROVE  UNCHANGED vars \/ Restarts
BY DEF Handles, Welcomes, Subscribes, GrantSaves, GrantEnds, GrantChecks, Rejects

LEMMA RequestsStep ==
  ASSUME NEW s \in Slots,
         Registers(s) \/ LogsIn(s) \/ TaskFails(s) \/ Tracks(s) \/ Changes(s)
           \/ Chooses(s),
         FlightTypeOK
  PROVE  [Next]_vars
<1>1. CASE Registers(s)
  <2>1. ASSUME NEW r \in RefreshTokens, RegisterLogsIn(s, r)
        PROVE  [Next]_vars
    <3>1. tasks[s].user \in Users
      BY <2>1, TaskShapes DEF RegisterLogsIn, LoginTask
    <3>. QED
      BY <2>1, <3>1, CreateIsAStep DEF RegisterLogsIn
  <2>. QED
    BY <1>1, <2>1 DEF Registers, RegisterReads, RegisterSaves
<1>2. CASE LogsIn(s)
  BY <1>2, CreateIsAStep DEF LogsIn, LoginByDevice, LoginSigns
<1>3. CASE TaskFails(s)
  BY <1>3 DEF TaskFails
<1>4. CASE Tracks(s)
  BY <1>4 DEF Tracks, TrackReads, TrackChecks, TrackSaves, TrackEnds
<1>5. CASE Changes(s)
  BY <1>5 DEF Changes, ChangeReads, ChangeSaves
<1>6. CASE Chooses(s)
  BY <1>6 DEF Chooses, SettingReads, SettingSaves
<1>. QED
  BY <1>1, <1>2, <1>3, <1>4, <1>5, <1>6

LEMMA SessionStep ==
  ASSUME FlightTypeOK, [AccountsNext]_<<vars, accountVars>>
  PROVE  [Next]_vars \/ Restarts
<1>1. ASSUME NEW u \in Users, SendsMessage(u)
      PROVE  [Next]_vars
  BY <1>1 DEF SendsMessage
<1>. QED
  BY <1>1, SessionsStep, HandlesStep, RequestsStep DEF AccountsNext, Crash

LEMMA RestartKeepsSessions ==
  ASSUME SessionsTypeOK, Restarts
  PROVE  /\ SessionsTypeOK'
         /\ RevocationInv => RevocationInv'
         /\ SessionInv => SessionInv'
         /\ UsableInv => UsableInv'
<1> USE DEF Restarts, keys, history
<1>1. SessionsTypeOK'
  BY DEF SessionsTypeOK
<1>2. \A s \in Slots : ops'[s].pc = "idle"
  BY DEF Idle
<1>3. RevocationInv => RevocationInv'
  BY <1>1, <1>2 DEF RevocationInv, RevokedIsListed, LifeIsEnough
<1>4. SessionInv => SessionInv'
  BY <1>2 DEF SessionInv, KeysAreHeld, OpsAreHeld, OpsSignForTheirUser,
              LoginsAreNew, NamedSessionsEnd, SessionHasItsRefreshKey
<1>5. UsableInv => UsableInv'
  BY <1>2 DEF UsableInv, IssuedFirst, CarriedOnce, SessionsAreOwn, RevokedAreOwn,
              SessionTokenIsUsable, InUse, Carries
<1>. QED
  BY <1>1, <1>3, <1>4, <1>5

LEMMA SessionsKeptHere ==
  ASSUME FlightTypeOK, SessionsTypeOK, [AccountsNext]_<<vars, accountVars>>
  PROVE  /\ SessionsTypeOK'
         /\ RevocationInv => RevocationInv'
         /\ SessionInv => SessionInv'
         /\ SessionInv /\ UsableInv => UsableInv'
BY SessionStep, RestartKeepsSessions, TypesKept, RevocationKept, SessionsKept, UsableKept

-----------------------------------------------------------------------------
(***************************************************************************)
(* Types.                                                                  *)
(***************************************************************************)
RestTypeOK == TablesTypeOK /\ FlightTypeOK /\ ToldTypeOK

LEMMA TypesSplit ==
  AccountsTypeOK <=> SessionsTypeOK /\ RestTypeOK /\ crashed \in BOOLEAN
BY DEF AccountsTypeOK, RestTypeOK, TablesTypeOK, FlightTypeOK, ToldTypeOK

LEMMA RestStarts == AccountsInit => RestTypeOK
BY RequiredIsACount
   DEF AccountsInit, RestTypeOK, TablesTypeOK, FlightTypeOK, ToldTypeOK

\* A step that leaves the tables alone and puts a task in a slot.
LEMMA MoveTypes ==
  ASSUME RestTypeOK, NEW s \in Slots, NEW t \in Task \cup {Idle}, Moves(s, t),
         UNCHANGED <<tables, work, unlocks>>, raced' \subseteq Users
  PROVE  RestTypeOK'
BY DEF RestTypeOK, TablesTypeOK, FlightTypeOK, ToldTypeOK, Moves, tables

\* A step that leaves the tables alone and changes the handlers at work.
LEMMA WorkTypes ==
  ASSUME RestTypeOK, work' \subseteq Work, UNCHANGED <<tables, tasks, unlocks, raced>>
  PROVE  RestTypeOK'
BY DEF RestTypeOK, TablesTypeOK, FlightTypeOK, ToldTypeOK, tables

LEMMA RacesTypes ==
  ASSUME RestTypeOK, NEW u \in Users, Races(u)
  PROVE  raced' \subseteq Users
BY DEF RestTypeOK, ToldTypeOK, Races

LEMMA RegistersTypes ==
  ASSUME RestTypeOK, NEW s \in Slots, Registers(s)
  PROVE  RestTypeOK'
<1>1. ASSUME NEW u \in Users, NEW d \in Devices, RegisterReads(s, u, d)
      PROVE  RestTypeOK'
  <2>1. [pc |-> "save", user |-> u, device |-> d] \in Task
    BY DEF Task
  <2>. QED
    BY <1>1, <2>1, MoveTypes
       DEF RegisterReads, StartsTask, Moves, told, RestTypeOK, ToldTypeOK
<1>2. CASE RegisterSaves(s)
  <2>1. tasks[s].user \in Users /\ tasks[s].device \in Devices
    BY <1>2, TaskShapes DEF RegisterSaves, SaveTask, RestTypeOK
  <2>2. Default \in Characters \/ Characters = {}
    BY DEF Default
  <2>3. [device |-> tasks[s].device, wears |-> Default] \in Account
    BY <2>1, <2>2, SomeCharacter DEF Account
  <2>4. accounts' \in [Users -> Account \cup {None}]
    BY <1>2, <2>1, <2>3 DEF RegisterSaves, RestTypeOK, TablesTypeOK
  <2>5. work' \subseteq Work
    BY <1>2, <2>1, HandlersAreWork DEF RegisterSaves, RestTypeOK, FlightTypeOK
  <2>6. [pc |-> "login", user |-> tasks[s].user] \in Task
    BY <2>1 DEF Task
  <2>7. tasks' \in [Slots -> Task \cup {Idle}]
    BY <1>2, <2>6 DEF RegisterSaves, Moves, RestTypeOK, FlightTypeOK
  <2>. QED
    BY <1>2, <2>4, <2>5, <2>7
       DEF RegisterSaves, RestTypeOK, TablesTypeOK, FlightTypeOK, ToldTypeOK, told
<1>3. ASSUME NEW r \in RefreshTokens, RegisterLogsIn(s, r)
      PROVE  RestTypeOK'
  BY <1>3, MoveTypes
     DEF RegisterLogsIn, Finishes, told, RestTypeOK, ToldTypeOK
<1>. QED
  BY <1>1, <1>2, <1>3 DEF Registers

LEMMA TracksTypes ==
  ASSUME RestTypeOK, NEW s \in Slots, Tracks(s)
  PROVE  RestTypeOK'
<1>1. ASSUME NEW u \in Users, TrackReads(s, u)
      PROVE  RestTypeOK'
  <2> DEFINE todo == {c \in Characters : Matches(c, chats[u])}
  <2>1. Unlocking(u, todo, None) \in Task
    BY UnlockingIsATask
  <2>. QED
    BY <1>1, <2>1, MoveTypes, RacesTypes DEF TrackReads, StartsTask, Moves
<1>2. ASSUME NEW c \in Characters, TrackChecks(s, c)
      PROVE  RestTypeOK'
  <2> DEFINE t == tasks[s]
             next == IF c \in owned[t.user] THEN None ELSE c
  <2>1. t \in UnlockTask
    BY <1>2, TaskShapes DEF TrackChecks, RestTypeOK
  <2>2. Unlocking(t.user, t.todo \ {c}, next) \in Task
    BY <2>1, UnlockingIsATask DEF UnlockTask
  <2>. QED
    BY <1>2, <2>2, MoveTypes DEF TrackChecks, told, RestTypeOK, ToldTypeOK
<1>3. CASE TrackSaves(s)
  <2> DEFINE t == tasks[s]
  <2>1. t \in UnlockTask
    BY <1>3, TaskShapes DEF TrackSaves, RestTypeOK
  <2>2. t.user \in Users /\ t.next \in Characters /\ t.todo \in SUBSET Characters
    BY <1>3, <2>1 DEF UnlockTask, TrackSaves
  <2>3. Unlocking(t.user, t.todo, None) \in Task
    BY <2>2, UnlockingIsATask
  <2>4. owned' \in [Users -> SUBSET Characters]
    BY <1>3, <2>2 DEF TrackSaves, RestTypeOK, TablesTypeOK
  <2>5. unlocks' \in [Users -> [Characters -> Nat]]
    BY <1>3, <2>2 DEF TrackSaves, RestTypeOK, ToldTypeOK
  <2>6. tasks' \in [Slots -> Task \cup {Idle}]
    BY <1>3, <2>3 DEF TrackSaves, Moves, RestTypeOK, FlightTypeOK
  <2>. QED
    BY <1>3, <2>4, <2>5, <2>6
       DEF TrackSaves, RestTypeOK, TablesTypeOK, FlightTypeOK, ToldTypeOK
<1>4. CASE TrackEnds(s)
  BY <1>4, MoveTypes DEF TrackEnds, Finishes, told, RestTypeOK, ToldTypeOK
<1>. QED
  BY <1>1, <1>2, <1>3, <1>4 DEF Tracks

LEMMA ChangesTypes ==
  ASSUME RestTypeOK, NEW s \in Slots, Changes(s)
  PROVE  RestTypeOK'
<1>1. ASSUME NEW u \in Users, NEW c \in Characters, ChangeReads(s, u, c)
      PROVE  RestTypeOK'
  <2>1. accounts[u] \in Account
    BY <1>1 DEF ChangeReads, Authenticated, RestTypeOK, TablesTypeOK
  <2>2. [pc |-> "wear", user |-> u, copy |-> accounts[u], character |-> c] \in Task
    BY <2>1 DEF Task
  <2>. QED
    BY <1>1, <2>2, MoveTypes
       DEF ChangeReads, StartsTask, Moves, told, RestTypeOK, ToldTypeOK
<1>2. CASE ChangeSaves(s)
  <2> DEFINE t == tasks[s]
  <2>1. t \in WearTask
    BY <1>2, TaskShapes DEF ChangeSaves, RestTypeOK
  <2>2. t.user \in Users /\ t.copy \in Account /\ t.character \in Characters
    BY <2>1 DEF WearTask
  <2>3. [t.copy EXCEPT !.wears = t.character] \in Account
    BY <2>2 DEF Account
  <2>4. accounts' \in [Users -> Account \cup {None}]
    BY <1>2, <2>2, <2>3 DEF ChangeSaves, RestTypeOK, TablesTypeOK
  <2>5. tasks' \in [Slots -> Task \cup {Idle}]
    BY <1>2 DEF ChangeSaves, Finishes, Moves, RestTypeOK, FlightTypeOK
  <2>. QED
    BY <1>2, <2>4, <2>5
       DEF ChangeSaves, RestTypeOK, TablesTypeOK, FlightTypeOK, ToldTypeOK, told
<1>. QED
  BY <1>1, <1>2 DEF Changes

LEMMA ChoosesTypes ==
  ASSUME RestTypeOK, NEW s \in Slots, Chooses(s)
  PROVE  RestTypeOK'
<1>1. ASSUME NEW u \in Users, NEW t \in Types, NEW on \in BOOLEAN,
             SettingReads(s, u, t, on)
      PROVE  RestTypeOK'
  <2>1. HasSetting(u, t) \in BOOLEAN
    BY DEF HasSetting
  <2>2. [pc |-> "setting", user |-> u, type |-> t, on |-> on,
         found |-> HasSetting(u, t)] \in Task
    BY <2>1, Zenon DEF Task
  <2>. QED
    BY <1>1, <2>2, MoveTypes, RacesTypes DEF SettingReads, StartsTask, Moves
<1>2. CASE SettingSaves(s)
  <2> DEFINE t == tasks[s]
  <2>1. t \in SettingTask
    BY <1>2, TaskShapes DEF SettingSaves, RestTypeOK
  <2>2. t.user \in Users /\ t.type \in Types /\ t.on \in BOOLEAN
    BY <2>1 DEF SettingTask
  <2>3. subscribed' \in [Users -> [Types -> BOOLEAN \cup {None}]]
    BY <1>2, <2>2 DEF SettingSaves, RestTypeOK, TablesTypeOK
  <2>4. tasks' \in [Slots -> Task \cup {Idle}]
    BY <1>2 DEF SettingSaves, Finishes, Moves, RestTypeOK, FlightTypeOK
  <2>. QED
    BY <1>2, <2>3, <2>4
       DEF SettingSaves, RestTypeOK, TablesTypeOK, FlightTypeOK, ToldTypeOK, told
<1>. QED
  BY <1>1, <1>2 DEF Chooses

LEMMA HandlesTypes ==
  ASSUME RestTypeOK, NEW w \in work, Handles(w)
  PROVE  RestTypeOK'
<1>0. work \subseteq Work /\ w.user \in Users
  BY WorkShapes DEF RestTypeOK, FlightTypeOK
<1>1. CASE Welcomes(w)
  BY <1>0, <1>1
     DEF Welcomes, RestTypeOK, TablesTypeOK, FlightTypeOK, ToldTypeOK, told
<1>2. CASE Subscribes(w)
  <2>1. SaveBatch(w.user) \in [Types -> BOOLEAN \cup {None}]
    BY DEF SaveBatch
  <2>2. subscribed' \in [Users -> [Types -> BOOLEAN \cup {None}]]
    BY <1>0, <1>2, <2>1 DEF Subscribes, RestTypeOK, TablesTypeOK
  <2>. QED
    BY <1>0, <1>2, <2>2
       DEF Subscribes, RestTypeOK, TablesTypeOK, FlightTypeOK, ToldTypeOK, told
<1>3. CASE GrantSaves(w)
  <2>1. w \in GrantWork
    BY <1>3, WorkShapes DEF GrantSaves, RestTypeOK
  <2>2. w.next \in Characters /\ w.todo \in SUBSET Characters
    BY <1>3, <2>1 DEF GrantSaves, GrantWork
  <2>3. Granting(w.user, w.todo, None) \in Work
    BY <1>0, <2>2, GrantingIsWork
  <2>4. owned' \in [Users -> SUBSET Characters]
    BY <1>0, <1>3, <2>2 DEF GrantSaves, RestTypeOK, TablesTypeOK
  <2>. QED
    BY <1>0, <1>3, <2>3, <2>4
       DEF GrantSaves, RestTypeOK, TablesTypeOK, FlightTypeOK, ToldTypeOK, told
<1>4. CASE GrantEnds(w)
  BY <1>0, <1>4, WorkTypes DEF GrantEnds, told
<1>5. ASSUME NEW c \in Characters, GrantChecks(w, c)
      PROVE  RestTypeOK'
  <2> DEFINE next == IF c \in owned[w.user] THEN None ELSE c
  <2>1. w \in GrantWork
    BY <1>5, WorkShapes DEF GrantChecks, RestTypeOK
  <2>2. Granting(w.user, w.todo \ {c}, next) \in Work
    BY <1>0, <2>1, GrantingIsWork DEF GrantWork
  <2>. QED
    BY <1>0, <1>5, <2>2, WorkTypes DEF GrantChecks, told
<1>6. CASE Rejects(w)
  BY <1>6 DEF Rejects, Restarts, RestTypeOK, TablesTypeOK, FlightTypeOK,
              ToldTypeOK, tables
<1>. QED
  BY <1>1, <1>2, <1>3, <1>4, <1>5, <1>6 DEF Handles

LEMMA RestKept ==
  ASSUME RestTypeOK, [AccountsNext]_<<vars, accountVars>>
  PROVE  RestTypeOK'
<1>1. ASSUME NEW s \in Slots, LogsIn(s) \/ TaskFails(s)
      PROVE  RestTypeOK'
  <2>1. CASE LogsIn(s)
    BY <2>1 DEF LogsIn, LoginByDevice, accountVars, tables, told, RestTypeOK,
                TablesTypeOK, FlightTypeOK, ToldTypeOK
  <2>2. CASE TaskFails(s)
    BY <2>2, MoveTypes DEF TaskFails, Finishes, told, RestTypeOK, ToldTypeOK
  <2>. QED
    BY <1>1, <2>1, <2>2
<1>2. ASSUME NEW u \in Users, SendsMessage(u)
      PROVE  RestTypeOK'
  <2>1. chats' \in [Users -> 0..MaxChats]
    BY <1>2, RequiredIsACount DEF SendsMessage, RestTypeOK, TablesTypeOK
  <2>. QED
    BY <1>2, <2>1
       DEF SendsMessage, RestTypeOK, TablesTypeOK, FlightTypeOK, ToldTypeOK, told
<1>3. CASE Crash
  BY <1>3 DEF Crash, Restarts, RestTypeOK, TablesTypeOK, FlightTypeOK,
              ToldTypeOK, tables
<1>4. CASE Sessions \/ UNCHANGED accountVars
  BY <1>4 DEF Sessions, accountVars, tables, told, RestTypeOK, TablesTypeOK,
              FlightTypeOK, ToldTypeOK
<1>. QED
  BY <1>1, <1>2, <1>3, <1>4, RegistersTypes, TracksTypes, ChangesTypes,
     ChoosesTypes, HandlesTypes DEF AccountsNext

\* The types hold through overlapping requests, handlers and restarts.
LEMMA AccountsTypesStart == AccountsInit => AccountsTypeOK
<1> SUFFICES ASSUME AccountsInit
             PROVE  AccountsTypeOK
  OBVIOUS
<1>1. SessionsTypeOK
  BY TypesStart DEF AccountsInit
<1>2. crashed \in BOOLEAN
  BY Zenon DEF AccountsInit
<1>. QED
  BY <1>1, <1>2, RestStarts, TypesSplit

LEMMA CrashedIsBoolean ==
  ASSUME crashed \in BOOLEAN, [AccountsNext]_<<vars, accountVars>>
  PROVE  crashed' \in BOOLEAN
<1>1. crashed' = crashed \/ crashed' = TRUE
  <2>1. Crash \/ (\E w \in work : Rejects(w)) => crashed' = TRUE
    BY Zenon DEF Crash, Rejects, Restarts
  <2>2. ASSUME NEW s \in Slots,
               Registers(s) \/ LogsIn(s) \/ TaskFails(s) \/ Tracks(s)
                 \/ Changes(s) \/ Chooses(s)
        PROVE  crashed' = crashed
    BY <2>2 DEF Registers, RegisterReads, RegisterSaves, RegisterLogsIn, LogsIn,
       LoginByDevice, TaskFails, Tracks, TrackReads, TrackChecks, TrackSaves,
       TrackEnds, Changes, ChangeReads, ChangeSaves, Chooses, SettingReads,
       SettingSaves, told, accountVars
  <2>3. ASSUME NEW w \in work, Handles(w), ~Rejects(w)
        PROVE  crashed' = crashed
    BY <2>3 DEF Handles, Welcomes, Subscribes, GrantSaves, GrantEnds,
       GrantChecks, told
  <2>4. (\E u \in Users : SendsMessage(u)) \/ Sessions \/ UNCHANGED accountVars
          => crashed' = crashed
    BY DEF SendsMessage, Sessions, accountVars, told
  <2>. QED
    BY <2>1, <2>2, <2>3, <2>4 DEF AccountsNext
<1>. QED
  BY <1>1, Zenon

LEMMA AccountsTypesKept ==
  ASSUME AccountsTypeOK, [AccountsNext]_<<vars, accountVars>>
  PROVE  AccountsTypeOK'
<1>1. RestTypeOK' /\ crashed' \in BOOLEAN
  BY TypesSplit, RestKept, CrashedIsBoolean
<1>2. SessionsTypeOK'
  BY TypesSplit, SessionsKeptHere DEF RestTypeOK
<1>. QED
  BY <1>1, <1>2
     DEF AccountsTypeOK, RestTypeOK, TablesTypeOK, FlightTypeOK, ToldTypeOK

\* Tables, sessions and what is in flight keep their types.
THEOREM AccountsAreWellFormed == AccountsSpec => []AccountsTypeOK
<1>1. AccountsInit => AccountsTypeOK
  BY AccountsTypesStart
<1>2. AccountsTypeOK /\ [AccountsNext]_<<vars, accountVars>> => AccountsTypeOK'
  BY AccountsTypesKept
<1>. QED
  BY <1>1, <1>2, PTL DEF AccountsSpec

\* What is proved of the sessions alone holds of them in the whole system,
\* where handlers end the process and its requests at any point: a revoked
\* access token stays refused, a session can be refreshed with its token, and
\* what it hands to the refresh is not revoked before its time.
THEOREM SessionsSurviveRestarts ==
  AccountsSpec => [](RevokedIsRejected /\ SessionHasItsRefreshKey
                       /\ SessionTokenIsUsable)
<1> DEFINE Inv == AccountsTypeOK /\ RevocationInv /\ SessionInv /\ UsableInv
<1>1. AccountsInit => Inv
  <2>1. AccountsInit => AccountsTypeOK
    BY AccountsTypesStart
  <2>2. Init => RevocationInv /\ SessionInv /\ UsableInv
    BY TypesStart, SessionsStart, UsableStarts
       DEF Init, Idle, RevocationInv, RevokedIsListed, LifeIsEnough
  <2>. QED
    BY <2>1, <2>2 DEF AccountsInit
<1>2. Inv /\ [AccountsNext]_<<vars, accountVars>> => Inv'
  BY AccountsTypesKept, SessionsKeptHere, TypesSplit DEF RestTypeOK
<1>3. Inv => RevokedIsRejected /\ SessionHasItsRefreshKey /\ SessionTokenIsUsable
  BY ListedIsRejected DEF RevocationInv, SessionInv, UsableInv
<1>. QED
  BY <1>1, <1>2, <1>3, PTL DEF AccountsSpec

-----------------------------------------------------------------------------
(***************************************************************************)
(* Nothing without an account.                                             *)
(*                                                                         *)
(* Users are never removed, so whatever belongs to one who is there keeps  *)
(* belonging to one.  What NothingWithoutAnAccount says of the tables and  *)
(* the handlers must also hold of what is in flight and of the refresh     *)
(* keys, from which sessions and rows are made.                            *)
(***************************************************************************)
Known(u) == accounts[u] # None

SessionsAreKnown ==
  /\ \A u \in Users : session[u] # None => Known(u)
  /\ \A r \in RefreshTokens : refreshKey[r] # None => Known(refreshKey[r].user)
  /\ \A s \in Slots : ops[s] # Idle => Known(ops[s].user)
TasksAreKnown ==
  \A s \in Slots : tasks[s].pc \notin {"idle", "save"} => Known(tasks[s].user)
WorkIsKnown == \A w \in work : Known(w.user)
RowsAreKnown ==
  \A u \in Users : ~Known(u) =>
    owned[u] = {} /\ u \notin welcomed /\ \A t \in Types : ~HasSetting(u, t)
KnownInv == SessionsAreKnown /\ TasksAreKnown /\ WorkIsKnown /\ RowsAreKnown

AccountsStay == \A u \in Users : Known(u) => Known(u)'
RowsStay ==
  \A u \in Users : ~Known(u) =>
    /\ owned'[u] = owned[u] /\ subscribed'[u] = subscribed[u]
    /\ u \in welcomed' => u \in welcomed

LEMMA StepKeepsRows ==
  ASSUME RestTypeOK, TasksAreKnown, WorkIsKnown,
         [AccountsNext]_<<vars, accountVars>>
  PROVE  AccountsStay /\ RowsStay
<1> USE DEF RowsStay, AccountsStay, Known, told, tables
<1>1. ASSUME NEW s \in Slots, Registers(s)
      PROVE  AccountsStay /\ RowsStay
  <2>1. CASE RegisterSaves(s)
    <3>1. tasks[s].user \in Users /\ tasks[s].device \in Devices
      BY <2>1, TaskShapes DEF RegisterSaves, SaveTask, RestTypeOK
    <3>2. [device |-> tasks[s].device, wears |-> Default] \in Account
      BY <3>1, SomeCharacter DEF Account, Default
    <3>. QED
      BY <2>1, <3>1, <3>2, NoneIsNoRow
         DEF RegisterSaves, RestTypeOK, TablesTypeOK
  <2>. QED
    BY <1>1, <2>1 DEF Registers, RegisterReads, RegisterLogsIn
<1>2. ASSUME NEW s \in Slots, Tracks(s)
      PROVE  AccountsStay /\ RowsStay
  <2>1. CASE TrackSaves(s)
    <3>1. tasks[s] \in UnlockTask
      BY <2>1, TaskShapes DEF TrackSaves, RestTypeOK
    <3>2. tasks[s].user \in Users /\ Known(tasks[s].user)
      BY <2>1, <3>1 DEF UnlockTask, TasksAreKnown
    <3>. QED
      BY <2>1, <3>2 DEF TrackSaves, RestTypeOK, TablesTypeOK
  <2>. QED
    BY <1>2, <2>1 DEF Tracks, TrackReads, TrackChecks, TrackEnds
<1>3. ASSUME NEW s \in Slots, Changes(s)
      PROVE  AccountsStay /\ RowsStay
  <2>1. CASE ChangeSaves(s)
    <3>1. tasks[s] \in WearTask
      BY <2>1, TaskShapes DEF ChangeSaves, RestTypeOK
    <3>2. [tasks[s].copy EXCEPT !.wears = tasks[s].character] \in Account
      BY <3>1 DEF WearTask, Account
    <3>. QED
      BY <2>1, <3>1, <3>2, NoneIsNoRow
         DEF ChangeSaves, WearTask, RestTypeOK, TablesTypeOK
  <2>. QED
    BY <1>3, <2>1 DEF Changes, ChangeReads
<1>4. ASSUME NEW s \in Slots, Chooses(s)
      PROVE  AccountsStay /\ RowsStay
  <2>1. CASE SettingSaves(s)
    <3>1. tasks[s] \in SettingTask
      BY <2>1, TaskShapes DEF SettingSaves, RestTypeOK
    <3>2. tasks[s].user \in Users /\ Known(tasks[s].user)
      BY <2>1, <3>1 DEF SettingTask, TasksAreKnown
    <3>. QED
      BY <2>1, <3>2 DEF SettingSaves, RestTypeOK, TablesTypeOK
  <2>. QED
    BY <1>4, <2>1 DEF Chooses, SettingReads
<1>5. ASSUME NEW w \in work, Handles(w)
      PROVE  AccountsStay /\ RowsStay
  <2>1. w.user \in Users /\ Known(w.user)
    BY WorkShapes DEF RestTypeOK, WorkIsKnown
  <2>. QED
    BY <1>5, <2>1
       DEF Handles, Welcomes, Subscribes, GrantSaves, GrantEnds, GrantChecks,
           Rejects, Restarts, RestTypeOK, TablesTypeOK
<1>6. ASSUME NEW s \in Slots, LogsIn(s) \/ TaskFails(s)
      PROVE  AccountsStay /\ RowsStay
  BY <1>6 DEF LogsIn, LoginByDevice, TaskFails, accountVars
<1>7. CASE Crash \/ Sessions \/ UNCHANGED accountVars
             \/ \E u \in Users : SendsMessage(u)
  BY <1>7 DEF Crash, Restarts, Sessions, SendsMessage, accountVars
<1>. QED
  BY <1>1, <1>2, <1>3, <1>4, <1>5, <1>6, <1>7 DEF AccountsNext

\* A login of somebody with an account, and what RedisJwt does by itself.
LEMMA CreateIsKnown ==
  ASSUME SessionsTypeOK, SessionsAreKnown, NEW s \in Slots, NEW u \in Users,
         NEW r \in RefreshTokens, CreateTokenPair(s, u, r), Known(u),
         UNCHANGED accounts
  PROVE  SessionsAreKnown'
<1> USE DEF Known
<1> DEFINE op == [pc |-> "store", user |-> u, refresh |-> r, new |-> Sign(u)]
<1>1. ops' = [ops EXCEPT ![s] = op] /\ UNCHANGED <<session, refreshKey>>
  BY DEF CreateTokenPair, Starts, keys
<1>2. op.user = u
  OBVIOUS
<1> HIDE DEF op
<1>. QED
  BY <1>1, <1>2 DEF SessionsAreKnown, SessionsTypeOK

LEMMA SessionStepIsKnown ==
  ASSUME SessionsTypeOK, SessionsAreKnown, Sessions
  PROVE  SessionsAreKnown'
<1> USE DEF Known
<1>0. UNCHANGED accounts
  BY DEF Sessions, accountVars, tables
<1>1. ASSUME Tick
      PROVE  SessionsAreKnown'
  BY <1>0, <1>1 DEF Tick, SessionsAreKnown, LiveSession, SessionsTypeOK
<1>2. ASSUME NEW s \in Slots, StoreTokenMetadata(s)
      PROVE  SessionsAreKnown'
  <2>1. ops[s] \in StoreOp
    BY <1>2, OpShapes DEF StoreTokenMetadata
  <2>2. /\ ops[s].user \in Users /\ ops[s].refresh \in RefreshTokens
        /\ Known(ops[s].user)
    BY <2>1 DEF StoreOp, SessionsAreKnown, Idle
  <2>. QED
    BY <1>0, <1>2, <2>2
       DEF StoreTokenMetadata, Ends, Continues, Idle, SessionsAreKnown,
           SessionsTypeOK
<1>3. ASSUME NEW s \in Slots, NEW r \in RefreshTokens, RefreshReadsKey(s, r)
      PROVE  SessionsAreKnown'
  <2> DEFINE op == [pc |-> "look", user |-> refreshKey[r].user, refresh |-> r]
  <2>1. ops' = [ops EXCEPT ![s] = op] /\ UNCHANGED <<session, refreshKey>>
    BY <1>3 DEF RefreshReadsKey, Starts, keys
  <2>2. op.user = refreshKey[r].user /\ Known(refreshKey[r].user)
    BY <1>3 DEF RefreshReadsKey, MayRefresh, SessionsAreKnown
  <2> HIDE DEF op
  <2>. QED
    BY <1>0, <2>1, <2>2 DEF SessionsAreKnown, SessionsTypeOK
<1>4. ASSUME NEW s \in Slots, RefreshReadsSession(s)
      PROVE  SessionsAreKnown'
  <2> DEFINE old == session[ops[s].user].access
             op == [pc |-> "exec", user |-> ops[s].user,
                    refresh |-> ops[s].refresh, old |-> old,
                    new |-> Sign(ops[s].user), ttl |-> RemainingLife(old)]
  <2>1. ops' = [ops EXCEPT ![s] = op]
    BY <1>4 DEF RefreshReadsSession, Continues
  <2>3. op.user = ops[s].user
    OBVIOUS
  <2>2. Known(ops[s].user) /\ UNCHANGED <<session, refreshKey>>
    BY <1>4 DEF RefreshReadsSession, SessionsAreKnown, Idle, keys
  <2> HIDE DEF op
  <2>. QED
    BY <1>0, <2>1, <2>2, <2>3 DEF SessionsAreKnown, SessionsTypeOK
<1>5. ASSUME NEW s \in Slots, Ends(s), UNCHANGED refreshKey,
             \A u \in Users : session'[u] # None =>
               session[u] # None \/ Known(u)
      PROVE  SessionsAreKnown'
  BY <1>0, <1>5 DEF Ends, Continues, SessionsAreKnown, SessionsTypeOK
<1>6. ASSUME NEW s \in Slots, RefreshFindsNoSession(s) \/ ExecFails(s)
      PROVE  SessionsAreKnown'
  BY <1>5, <1>6 DEF RefreshFindsNoSession, ExecFails, keys
<1>7. ASSUME NEW s \in Slots, NEW answered \in BOOLEAN, RefreshExecutes(s, answered)
      PROVE  SessionsAreKnown'
  <2>1. ops[s] \in ExecOp
    BY <1>7, OpShapes DEF RefreshExecutes
  <2>2. ops[s].user \in Users /\ Known(ops[s].user)
    BY <2>1 DEF ExecOp, SessionsAreKnown, Idle
  <2>. QED
    BY <1>5, <1>7, <2>2 DEF RefreshExecutes, SessionsTypeOK
<1>8. ASSUME NEW s \in Slots, NEW u \in Users, NEW r \in RefreshTokens,
             NEW force \in BOOLEAN, InvalidateReads(s, u, r, force)
      PROVE  SessionsAreKnown'
  <2> DEFINE op == [pc |-> "drop", user |-> u, refresh |-> r, old |-> held[r],
                    ttl |-> RemainingLife(held[r]), force |-> force,
                    refreshTtl |-> Ttl(r)]
  <2>1. ops' = [ops EXCEPT ![s] = op]
    BY <1>8 DEF InvalidateReads, Starts
  <2>3. op.user = u
    OBVIOUS
  <2>2. Known(u) /\ UNCHANGED <<session, refreshKey>>
    BY <1>8 DEF InvalidateReads, SessionsAreKnown, keys
  <2> HIDE DEF op
  <2>. QED
    BY <1>0, <2>1, <2>2, <2>3 DEF SessionsAreKnown, SessionsTypeOK
<1>9. ASSUME NEW s \in Slots, InvalidateExecutes(s)
      PROVE  SessionsAreKnown'
  <2>1. ops[s] \in DropOp
    BY <1>9, OpShapes DEF InvalidateExecutes
  <2>2. ops[s].user \in Users /\ ops[s].refresh \in RefreshTokens
    BY <2>1 DEF DropOp
  <2>3. \A r \in RefreshTokens : refreshKey'[r] # None =>
          refreshKey'[r] = refreshKey[r]
    BY <1>9, <2>2 DEF InvalidateExecutes, SessionsTypeOK
  <2>4. \A u \in Users : session'[u] # None => session'[u] = session[u]
    BY <1>9, <2>2 DEF InvalidateExecutes, DeletesSession, SessionsTypeOK
  <2>5. ops' = [ops EXCEPT ![s] = Idle]
    BY <1>9 DEF InvalidateExecutes, Ends, Continues
  <2>. QED
    BY <1>0, <2>3, <2>4, <2>5 DEF SessionsAreKnown, SessionsTypeOK
<1>. QED
  BY <1>1, <1>2, <1>3, <1>4, <1>6, <1>7, <1>8, <1>9
     DEF Sessions, RefreshAccessToken, InvalidateToken

\* A step that leaves the sessions alone, where no account goes away.
LEMMA SessionsFrame ==
  ASSUME SessionsTypeOK, SessionsAreKnown, AccountsStay, UNCHANGED vars
  PROVE  SessionsAreKnown'
<1>1. \A r \in RefreshTokens : refreshKey[r] # None => refreshKey[r].user \in Users
  BY DEF SessionsTypeOK, RefreshKey
<1>2. \A s \in Slots : ops[s] # Idle => ops[s].user \in Users
  BY OpShapes DEF StoreOp, LookOp, ExecOp, DropOp
<1>. QED
  BY <1>1, <1>2 DEF SessionsAreKnown, AccountsStay, vars, keys

LEMMA SessionsStayKnown ==
  ASSUME SessionsTypeOK, RestTypeOK, KnownInv,
         [AccountsNext]_<<vars, accountVars>>
  PROVE  SessionsAreKnown'
<1> USE DEF KnownInv
<1>0. AccountsStay
  BY StepKeepsRows
<1>1. ASSUME NEW s \in Slots, NEW r \in RefreshTokens, RegisterLogsIn(s, r)
      PROVE  SessionsAreKnown'
  <2>1. tasks[s] \in LoginTask
    BY <1>1, TaskShapes DEF RegisterLogsIn, RestTypeOK
  <2>2. tasks[s].user \in Users /\ Known(tasks[s].user)
    BY <1>1, <2>1 DEF RegisterLogsIn, LoginTask, TasksAreKnown
  <2>. QED
    BY <1>1, <2>2, CreateIsKnown DEF RegisterLogsIn, tables
<1>2. ASSUME NEW s \in Slots, NEW u \in Users, NEW d \in Devices,
             NEW r \in RefreshTokens, LoginByDevice(s, u, d, r)
      PROVE  SessionsAreKnown'
  <2>1. Known(u)
    BY <1>2 DEF LoginByDevice, LoginSigns, FindByDeviceId, Known
  <2>. QED
    BY <1>2, <2>1, CreateIsKnown
       DEF LoginByDevice, LoginSigns, accountVars, tables
<1>3. CASE Restarts
  <2>1. UNCHANGED <<session, refreshKey, accounts>>
        /\ \A s \in Slots : ops'[s] = Idle
    BY <1>3 DEF Restarts, keys, tables
  <2>. QED
    BY <2>1 DEF SessionsAreKnown, Known
<1>4. CASE Sessions
  BY <1>4, SessionStepIsKnown
<1>5. CASE UNCHANGED vars
  BY <1>0, <1>5, SessionsFrame
<1>6. ASSUME NEW s \in Slots, Registers(s) \/ LogsIn(s) \/ TaskFails(s)
      PROVE  SessionsAreKnown'
  BY <1>1, <1>2, <1>5, <1>6
     DEF Registers, RegisterReads, RegisterSaves, LogsIn, TaskFails
<1>7. ASSUME NEW s \in Slots, Tracks(s) \/ Changes(s) \/ Chooses(s)
      PROVE  SessionsAreKnown'
  BY <1>5, <1>7 DEF Tracks, TrackReads, TrackChecks, TrackSaves, TrackEnds,
                    Changes, ChangeReads, ChangeSaves, Chooses, SettingReads,
                    SettingSaves
<1>8. ASSUME NEW w \in work, Handles(w)
      PROVE  SessionsAreKnown'
  BY <1>3, <1>5, <1>8, HandlesStep
<1>9. ASSUME NEW u \in Users, SendsMessage(u)
      PROVE  SessionsAreKnown'
  BY <1>5, <1>9 DEF SendsMessage
<1>. QED
  BY <1>3, <1>4, <1>5, <1>6, <1>7, <1>8, <1>9 DEF AccountsNext, Crash

-----------------------------------------------------------------------------
(***************************************************************************)
(* What is in flight.                                                      *)
(*                                                                         *)
(* A registration is about to save a user nobody else works for.  Every    *)
(* other request is of a user with an account, who is known to have raced  *)
(* if handlers are still at work for them; what an unlock has still to do  *)
(* was earned, and what a change puts on is owned.  A handler finds the    *)
(* rows of a user who has not raced as it needs them.                      *)
(***************************************************************************)
IsPending(u) == \E w \in work : w.user = u

TaskOK(t) ==
  /\ t.pc \notin {"idle", "save"} => Known(t.user)
  /\ t.pc = "save" => ~Known(t.user)
  /\ t.pc \in {"unlock", "setting"} /\ IsPending(t.user) => t.user \in raced
  /\ t.pc = "unlock" =>
       \A c \in Characters : c \in t.todo \/ c = t.next =>
         Matches(c, chats[t.user])
  /\ t.pc = "wear" => t.character \in owned[t.user]
TasksOK == \A s \in Slots : TaskOK(tasks[s])

SavesAreAlone ==
  \A s \in Slots : tasks[s].pc = "save" =>
    \A x \in Slots \ {s} : tasks[x] # Idle => tasks[x].user # tasks[s].user

WorkOK(w) ==
  /\ Known(w.user)
  /\ w.kind = "defaults" /\ w.user \notin raced =>
       \A t \in Types : ~HasSetting(w.user, t)
  /\ w.kind = "grant" /\ w.user \notin raced /\ w.next # None =>
       w.next \notin owned[w.user]
AllWorkOK == \A w \in work : WorkOK(w)
OneGrant ==
  \A v, w \in work :
    v.kind = "grant" /\ w.kind = "grant" /\ v.user = w.user => v = w

FlightInv == TasksOK /\ SavesAreAlone /\ AllWorkOK /\ OneGrant

LEMMA FlightIsKnown ==
  ASSUME FlightInv
  PROVE  TasksAreKnown /\ WorkIsKnown
BY DEF FlightInv, TasksOK, TaskOK, AllWorkOK, WorkOK, TasksAreKnown, WorkIsKnown

\* The user of a request in flight is one.
LEMMA TaskUsers ==
  ASSUME FlightTypeOK, NEW s \in Slots, tasks[s] # Idle
  PROVE  tasks[s].user \in Users
BY TaskShapes DEF SaveTask, LoginTask, UnlockTask, WearTask, SettingTask

\* What other requests and handlers rely on, for one user: no step but the
\* save of the user's registration takes it away.
Stable(u) ==
  /\ accounts'[u] = None <=> accounts[u] = None
  /\ (\E w \in work' : w.user = u) => IsPending(u)
  /\ u \in raced => u \in raced'
  /\ chats'[u] >= chats[u] /\ owned[u] \subseteq owned'[u]

LEMMA StillIsStable ==
  ASSUME RestTypeOK, NEW u \in Users, UNCHANGED <<tables, work>>,
         u \in raced => u \in raced'
  PROVE  Stable(u)
<1>1. chats[u] \in Nat
  BY RequiredIsACount DEF RestTypeOK, TablesTypeOK
<1>. QED
  BY <1>1 DEF Stable, IsPending, tables

LEMMA RacesGrow ==
  ASSUME NEW u, NEW v, Races(v), u \in raced
  PROVE  u \in raced'
BY DEF Races

LEMMA StepIsStable ==
  ASSUME RestTypeOK, FlightInv, [AccountsNext]_<<vars, accountVars>>,
         NEW u \in Users,
         \A s \in Slots : RegisterSaves(s) => tasks[s].user # u
  PROVE  Stable(u)
<1> USE DEF Stable, IsPending, told, tables
<1>0. chats[u] \in Nat
  BY RequiredIsACount DEF RestTypeOK, TablesTypeOK
<1>a. TasksAreKnown /\ WorkIsKnown
  BY FlightIsKnown
<1>1. ASSUME NEW s \in Slots, Registers(s)
      PROVE  Stable(u)
  <2>1. CASE RegisterSaves(s)
    <3>1. tasks[s].user \in Users /\ tasks[s].user # u
      BY <2>1, TaskShapes DEF RegisterSaves, SaveTask, RestTypeOK
    <3>2. \A w \in Handlers(tasks[s].user) : w.user # u
      BY <3>1, HandlersAreWork
    <3>. QED
      BY <2>1, <3>1, <3>2, <1>0 DEF RegisterSaves, RestTypeOK, TablesTypeOK
  <2>2. ASSUME NEW v \in Users, NEW d \in Devices, RegisterReads(s, v, d)
        PROVE  Stable(u)
    BY <2>2, StillIsStable DEF RegisterReads
  <2>3. ASSUME NEW r \in RefreshTokens, RegisterLogsIn(s, r)
        PROVE  Stable(u)
    BY <2>3, StillIsStable DEF RegisterLogsIn
  <2>. QED
    BY <1>1, <2>1, <2>2, <2>3 DEF Registers
<1>2. ASSUME NEW s \in Slots, Tracks(s)
      PROVE  Stable(u)
  <2>1. CASE TrackSaves(s)
    <3>1. tasks[s] \in UnlockTask
      BY <2>1, TaskShapes DEF TrackSaves, RestTypeOK
    <3>2. owned[u] \subseteq owned'[u]
      BY <2>1, <3>1 DEF TrackSaves, UnlockTask, RestTypeOK, TablesTypeOK
    <3>. QED
      BY <2>1, <3>2, <1>0 DEF TrackSaves
  <2>2. ASSUME NEW v \in Users, TrackReads(s, v)
        PROVE  Stable(u)
    BY <2>2, StillIsStable, RacesGrow DEF TrackReads
  <2>3. ASSUME NEW c \in Characters, TrackChecks(s, c)
        PROVE  Stable(u)
    BY <2>3, StillIsStable DEF TrackChecks
  <2>4. CASE TrackEnds(s)
    BY <2>4, StillIsStable DEF TrackEnds
  <2>. QED
    BY <1>2, <2>1, <2>2, <2>3, <2>4 DEF Tracks
<1>3. ASSUME NEW s \in Slots, Changes(s)
      PROVE  Stable(u)
  <2>1. CASE ChangeSaves(s)
    <3>1. tasks[s] \in WearTask /\ Known(tasks[s].user)
      BY <2>1, <1>a, TaskShapes DEF ChangeSaves, RestTypeOK, TasksAreKnown
    <3>2. [tasks[s].copy EXCEPT !.wears = tasks[s].character] \in Account
      BY <3>1 DEF WearTask, Account
    <3>3. accounts'[u] = None <=> accounts[u] = None
      BY <2>1, <3>1, <3>2, NoneIsNoRow
         DEF ChangeSaves, WearTask, Known, RestTypeOK, TablesTypeOK
    <3>. QED
      BY <2>1, <3>3, <1>0 DEF ChangeSaves
  <2>2. ASSUME NEW v \in Users, NEW c \in Characters, ChangeReads(s, v, c)
        PROVE  Stable(u)
    BY <2>2, StillIsStable DEF ChangeReads
  <2>. QED
    BY <1>3, <2>1, <2>2 DEF Changes
<1>4. ASSUME NEW s \in Slots, Chooses(s)
      PROVE  Stable(u)
  <2>1. ASSUME NEW v \in Users, NEW t \in Types, NEW on \in BOOLEAN,
               SettingReads(s, v, t, on)
        PROVE  Stable(u)
    BY <2>1, StillIsStable, RacesGrow DEF SettingReads
  <2>2. CASE SettingSaves(s)
    BY <2>2, <1>0 DEF SettingSaves
  <2>. QED
    BY <1>4, <2>1, <2>2 DEF Chooses
<1>5. ASSUME NEW w \in work, Handles(w)
      PROVE  Stable(u)
  <2>0. w.user \in Users
    BY WorkShapes DEF RestTypeOK
  <2>1. CASE GrantSaves(w)
    <3>1. w \in GrantWork /\ w.next \in Characters
      BY <2>1, WorkShapes DEF GrantSaves, GrantWork, RestTypeOK
    <3>2. Granting(w.user, w.todo, None).user = w.user
      BY DEF Granting
    <3>3. owned[u] \subseteq owned'[u]
      BY <2>0, <2>1, <3>1 DEF GrantSaves, RestTypeOK, TablesTypeOK
    <3>. QED
      BY <2>1, <3>2, <3>3, <1>0 DEF GrantSaves
  <2>2. ASSUME NEW c \in Characters, GrantChecks(w, c)
        PROVE  Stable(u)
    BY <2>2, <1>0 DEF GrantChecks, Granting
  <2>3. CASE Rejects(w)
    BY <2>3, <1>0 DEF Rejects, Restarts
  <2>. QED
    BY <1>0, <1>5, <2>1, <2>2, <2>3 DEF Handles, Welcomes, Subscribes, GrantEnds
<1>6. ASSUME NEW s \in Slots, LogsIn(s) \/ TaskFails(s)
      PROVE  Stable(u)
  BY <1>0, <1>6 DEF LogsIn, LoginByDevice, TaskFails, accountVars
<1>7. ASSUME NEW v \in Users, SendsMessage(v)
      PROVE  Stable(u)
  <2>1. chats'[u] >= chats[u]
    BY <1>0, <1>7 DEF SendsMessage, RestTypeOK, TablesTypeOK
  <2>. QED
    BY <1>7, <2>1 DEF SendsMessage
<1>8. CASE Crash \/ Sessions \/ UNCHANGED accountVars
  BY <1>0, <1>8 DEF Crash, Restarts, Sessions, accountVars
<1>. QED
  BY <1>1, <1>2, <1>3, <1>4, <1>5, <1>6, <1>7, <1>8 DEF AccountsNext

\* What TaskOK asks, after a step, of a record made before it.
WillBeOK(t) ==
  /\ t.pc \notin {"idle", "save"} => accounts'[t.user] # None
  /\ t.pc = "save" => accounts'[t.user] = None
  /\ t.pc \in {"unlock", "setting"} /\ (\E w \in work' : w.user = t.user) =>
       t.user \in raced'
  /\ t.pc = "unlock" =>
       \A c \in Characters : c \in t.todo \/ c = t.next =>
         Matches(c, chats'[t.user])
  /\ t.pc = "wear" => t.character \in owned'[t.user]

\* A request stays in order while others step.
LEMMA StableTask ==
  ASSUME RestTypeOK, RestTypeOK', NEW s \in Slots, TaskOK(tasks[s]),
         tasks[s] # Idle => Stable(tasks[s].user)
  PROVE  WillBeOK(tasks[s])
<1> DEFINE t == tasks[s]
<1>1. CASE t = Idle
  BY <1>1 DEF WillBeOK, Idle
<1>2. CASE t # Idle
  <2>1. t.user \in Users /\ Stable(t.user)
    BY <1>2, TaskUsers DEF RestTypeOK
  <2>2. ASSUME NEW c \in Characters, Matches(c, chats[t.user])
        PROVE  Matches(c, chats'[t.user])
    <3>1. chats[t.user] \in Nat /\ chats'[t.user] \in Nat /\ Required[c] \in Nat
      BY <2>1, <2>2, RequiredIsACount
         DEF RestTypeOK, TablesTypeOK, Matches
    <3>. QED
      BY <2>1, <2>2, <3>1 DEF Stable, Matches
  <2>. QED
    BY <2>1, <2>2 DEF TaskOK, WillBeOK, Stable, Known
<1>. QED
  BY <1>1, <1>2

\* One request moves; the others find what they rely on.
LEMMA MoveKeeps ==
  ASSUME RestTypeOK, RestTypeOK', TasksOK, SavesAreAlone,
         NEW s \in Slots, NEW t, Moves(s, t), WillBeOK(t),
         \A x \in Slots \ {s} : tasks[x] # Idle => Stable(tasks[x].user),
         t.pc = "save" =>
           \A x \in Slots \ {s} : tasks[x] # Idle => tasks[x].user # t.user,
         t # Idle =>
           \A x \in Slots \ {s} : tasks[x].pc = "save" => tasks[x].user # t.user
  PROVE  TasksOK' /\ SavesAreAlone'
<1>1. tasks'[s] = t /\ \A x \in Slots \ {s} : tasks'[x] = tasks[x]
  BY DEF Moves, RestTypeOK, FlightTypeOK
<1>2. \A x \in Slots : WillBeOK(tasks'[x])
  BY <1>1, StableTask DEF TasksOK
<1>3. TasksOK'
  BY <1>2 DEF TasksOK, TaskOK, WillBeOK, Known, IsPending
<1>4. SavesAreAlone'
  <2> SUFFICES ASSUME NEW x \in Slots, NEW y \in Slots \ {x},
                      tasks'[x].pc = "save", tasks'[y] # Idle
               PROVE  tasks'[y].user # tasks'[x].user
    BY DEF SavesAreAlone, Idle
  <2>. QED
    BY <1>1 DEF SavesAreAlone
<1>. QED
  BY <1>3, <1>4

\* No request moves.
LEMMA StillKeeps ==
  ASSUME RestTypeOK, RestTypeOK', TasksOK, SavesAreAlone, UNCHANGED tasks,
         \A u \in Users : Stable(u)
  PROVE  TasksOK' /\ SavesAreAlone'
<1>1. \A x \in Slots : WillBeOK(tasks[x])
  BY StableTask, TaskUsers DEF TasksOK, RestTypeOK
<1>2. TasksOK'
  BY <1>1 DEF TasksOK, TaskOK, WillBeOK, Known, IsPending
<1>. QED
  BY <1>2 DEF SavesAreAlone

\* A request of a user with an account meets no save of that user.
LEMMA KnownMeetsNoSave ==
  ASSUME TasksOK, NEW u, Known(u), NEW x \in Slots, tasks[x].pc = "save"
  PROVE  tasks[x].user # u
BY DEF TasksOK, TaskOK

\* A request that ends, or goes on for its own user.
LEMMA GoesOnKeeps ==
  ASSUME RestTypeOK, RestTypeOK', TasksOK, SavesAreAlone,
         NEW s \in Slots, NEW t, Moves(s, t), WillBeOK(t),
         tasks[s] # Idle, t = Idle \/ t.user = tasks[s].user, t.pc # "save",
         \A x \in Slots \ {s} : tasks[x] # Idle => Stable(tasks[x].user)
  PROVE  TasksOK' /\ SavesAreAlone'
<1>1. t # Idle =>
        \A x \in Slots \ {s} : tasks[x].pc = "save" => tasks[x].user # t.user
  BY DEF SavesAreAlone
<1>. QED
  BY <1>1, MoveKeeps

LEMMA IdleIsOK == WillBeOK(Idle) /\ Idle.pc = "idle"
BY DEF WillBeOK, Idle

\* A request that starts for a user with an account.
LEMMA StartKeeps ==
  ASSUME RestTypeOK, RestTypeOK', TasksOK, SavesAreAlone,
         NEW s \in Slots, NEW t, StartsTask(s, t), t.pc # "save",
         Known(t.user), WillBeOK(t), \A u \in Users : Stable(u)
  PROVE  TasksOK' /\ SavesAreAlone'
<1>1. Moves(s, t)
  BY DEF StartsTask, Moves
<1>2. \A x \in Slots : tasks[x] # Idle => Stable(tasks[x].user)
  BY TaskUsers DEF RestTypeOK
<1>3. \A x \in Slots : tasks[x].pc = "save" => tasks[x].user # t.user
  BY KnownMeetsNoSave
<1>. QED
  BY <1>1, <1>2, <1>3, MoveKeeps

LEMMA EndKeeps ==
  ASSUME RestTypeOK, RestTypeOK', TasksOK, SavesAreAlone,
         NEW s \in Slots, Finishes(s), tasks[s] # Idle,
         \A u \in Users : Stable(u)
  PROVE  TasksOK' /\ SavesAreAlone'
<1>1. \A x \in Slots : tasks[x] # Idle => Stable(tasks[x].user)
  BY TaskUsers DEF RestTypeOK
<1>. QED
  BY <1>1, IdleIsOK, GoesOnKeeps DEF Finishes

\* The save of a registration: its user gets an account and handlers, and no
\* other request is of that user.
LEMMA RegisterSavesKeeps ==
  ASSUME RestTypeOK, FlightInv, NEW s \in Slots, RegisterSaves(s),
         [AccountsNext]_<<vars, accountVars>>
  PROVE  TasksOK' /\ SavesAreAlone'
<1> DEFINE u == tasks[s].user
           t == [pc |-> "login", user |-> u]
<1>0. RestTypeOK' /\ TasksOK /\ SavesAreAlone
  BY RestKept DEF FlightInv
<1>1. tasks[s] \in SaveTask
  BY TaskShapes DEF RegisterSaves, RestTypeOK
<1>2. u \in Users /\ tasks[s].device \in Devices /\ tasks[s] # Idle
  BY <1>1 DEF SaveTask, Idle
<1>3. [device |-> tasks[s].device, wears |-> Default] \in Account
  BY <1>2, SomeCharacter DEF Account, Default
<1>4. accounts'[u] # None
  BY <1>2, <1>3, NoneIsNoRow DEF RegisterSaves, RestTypeOK, TablesTypeOK
<1>5. WillBeOK(t)
  BY <1>4 DEF WillBeOK
<1>6. Moves(s, t)
  BY DEF RegisterSaves
<1>7. \A x \in Slots \ {s} : tasks[x] # Idle => tasks[x].user # u
  BY <1>0 DEF SavesAreAlone, RegisterSaves
<1>8. \A x \in Slots : RegisterSaves(x) => x = s
  BY <1>6 DEF RegisterSaves, Moves, RestTypeOK, FlightTypeOK
<1>9. ASSUME NEW x \in Slots \ {s}, tasks[x] # Idle
      PROVE  Stable(tasks[x].user)
  <2>1. \A y \in Slots : RegisterSaves(y) => tasks[y].user # tasks[x].user
    BY <1>7, <1>8, <1>9
  <2>2. tasks[x].user \in Users
    BY <1>9, TaskUsers DEF RestTypeOK
  <2>. QED
    BY <2>1, <2>2, StepIsStable
<1>10. t.pc # "save" /\ t.user = tasks[s].user
  OBVIOUS
<1> HIDE DEF t, u
<1>. QED
  BY <1>0, <1>2, <1>5, <1>6, <1>9, <1>10, GoesOnKeeps

\* Any other step of a request.
LEMMA RequestKeepsTasks ==
  ASSUME RestTypeOK, RestTypeOK', FlightInv, NEW s \in Slots,
         Registers(s) \/ LogsIn(s) \/ TaskFails(s) \/ Tracks(s) \/ Changes(s)
           \/ Chooses(s),
         ~RegisterSaves(s), \A u \in Users : Stable(u)
  PROVE  TasksOK' /\ SavesAreAlone'
<1>0. TasksOK /\ SavesAreAlone
  BY DEF FlightInv
<1>1. \A x \in Slots : tasks[x] # Idle => Stable(tasks[x].user)
  BY TaskUsers DEF RestTypeOK
<1>2. ASSUME NEW u \in Users, NEW d \in Devices, RegisterReads(s, u, d)
      PROVE  TasksOK' /\ SavesAreAlone'
  <2> DEFINE t == [pc |-> "save", user |-> u, device |-> d]
  <2>1. Moves(s, t)
    BY <1>2 DEF RegisterReads, StartsTask, Moves
  <2>2. t.pc = "save" /\ t.user = u
    OBVIOUS
  <2>3. WillBeOK(t)
    BY <1>2, <2>2 DEF RegisterReads, WillBeOK, tables
  <2>4. \A x \in Slots : tasks[x] # Idle => tasks[x].user # u
    BY <1>2 DEF RegisterReads
  <2>5. \A x \in Slots : tasks[x].pc = "save" => tasks[x] # Idle
    BY DEF Idle
  <2> HIDE DEF t
  <2>. QED
    BY <1>0, <1>1, <2>1, <2>2, <2>3, <2>4, <2>5, MoveKeeps
<1>3. ASSUME Finishes(s), tasks[s] # Idle
      PROVE  TasksOK' /\ SavesAreAlone'
  BY <1>0, <1>3, EndKeeps
<1>4. ASSUME NEW r \in RefreshTokens, RegisterLogsIn(s, r)
      PROVE  TasksOK' /\ SavesAreAlone'
  BY <1>3, <1>4 DEF RegisterLogsIn, Idle
<1>5. ASSUME LogsIn(s)
      PROVE  TasksOK' /\ SavesAreAlone'
  BY <1>0, <1>5, StillKeeps DEF LogsIn, LoginByDevice, accountVars
<1>6. ASSUME TaskFails(s)
      PROVE  TasksOK' /\ SavesAreAlone'
  BY <1>3, <1>6 DEF TaskFails, Idle
<1>7. ASSUME NEW u \in Users, TrackReads(s, u)
      PROVE  TasksOK' /\ SavesAreAlone'
  <2> DEFINE todo == {c \in Characters : Matches(c, chats[u])}
             t == Unlocking(u, todo, None)
  <2>1. /\ t.pc = "unlock" /\ t.user = u /\ t.next = None /\ t.todo = todo
        /\ StartsTask(s, t)
    BY <1>7, UnlockingIsATask DEF TrackReads
  <2>2. Known(u) /\ UNCHANGED <<accounts, chats, work>>
    BY <1>7 DEF TrackReads, Authenticated, Known, tables
  <2>3. (\E w \in work : w.user = u) => u \in raced'
    BY <1>7 DEF TrackReads, Races, Pending
  <2>4. WillBeOK(t)
    BY <2>1, <2>2, <2>3, NoneIsNoRow DEF WillBeOK, Known
  <2>. QED
    BY <1>0, <2>1, <2>2, <2>4, StartKeeps
<1>8. ASSUME NEW c \in Characters, TrackChecks(s, c)
      PROVE  TasksOK' /\ SavesAreAlone'
  <2> DEFINE next == IF c \in owned[tasks[s].user] THEN None ELSE c
             t == Unlocking(tasks[s].user, tasks[s].todo \ {c}, next)
  <2>1. tasks[s] \in UnlockTask
    BY <1>8, TaskShapes DEF TrackChecks, RestTypeOK
  <2>2. /\ t.pc = "unlock" /\ t.user = tasks[s].user /\ t.next = next
        /\ t.todo = tasks[s].todo \ {c} /\ Moves(s, t)
    BY <1>8, <2>1, UnlockingIsATask DEF TrackChecks, UnlockTask
  <2>3. UNCHANGED <<accounts, chats, work, raced>>
    BY <1>8 DEF TrackChecks, tables, told
  <2>4. WillBeOK(t)
    BY <1>0, <1>8, <2>2, <2>3, NoneIsNoRow
       DEF WillBeOK, TasksOK, TaskOK, TrackChecks, Known, IsPending
  <2>5. tasks[s] # Idle
    BY <1>8 DEF TrackChecks, Idle
  <2> HIDE DEF t
  <2>. QED
    BY <1>0, <1>1, <2>2, <2>4, <2>5, GoesOnKeeps
<1>9. ASSUME TrackSaves(s)
      PROVE  TasksOK' /\ SavesAreAlone'
  <2> DEFINE t == Unlocking(tasks[s].user, tasks[s].todo, None)
  <2>1. tasks[s] \in UnlockTask
    BY <1>9, TaskShapes DEF TrackSaves, RestTypeOK
  <2>2. /\ t.pc = "unlock" /\ t.user = tasks[s].user /\ t.next = None
        /\ t.todo = tasks[s].todo /\ Moves(s, t)
    BY <1>9, <2>1, UnlockingIsATask DEF TrackSaves, UnlockTask
  <2>3. UNCHANGED <<accounts, chats, work, raced>>
    BY <1>9 DEF TrackSaves
  <2>4. WillBeOK(t)
    BY <1>0, <1>9, <2>2, <2>3, NoneIsNoRow
       DEF WillBeOK, TasksOK, TaskOK, TrackSaves, Known, IsPending
  <2>5. tasks[s] # Idle
    BY <1>9 DEF TrackSaves, Idle
  <2> HIDE DEF t
  <2>. QED
    BY <1>0, <1>1, <2>2, <2>4, <2>5, GoesOnKeeps
<1>10. ASSUME TrackEnds(s)
       PROVE  TasksOK' /\ SavesAreAlone'
  BY <1>3, <1>10 DEF TrackEnds, Idle
<1>11. ASSUME NEW u \in Users, NEW c \in Characters, ChangeReads(s, u, c)
       PROVE  TasksOK' /\ SavesAreAlone'
  <2> DEFINE t == [pc |-> "wear", user |-> u, copy |-> accounts[u],
                   character |-> c]
  <2>1. t.pc = "wear" /\ t.user = u /\ t.character = c
    OBVIOUS
  <2>2. StartsTask(s, t) /\ Known(u) /\ c \in owned[u]
        /\ UNCHANGED <<accounts, owned>>
    BY <1>11 DEF ChangeReads, Authenticated, Known, ExistsUserCharacter, tables
  <2> HIDE DEF t
  <2>3. WillBeOK(t)
    BY <2>1, <2>2 DEF WillBeOK, Known
  <2>. QED
    BY <1>0, <2>1, <2>2, <2>3, StartKeeps
<1>12. ASSUME ChangeSaves(s)
       PROVE  TasksOK' /\ SavesAreAlone'
  BY <1>3, <1>12 DEF ChangeSaves, Idle
<1>13. ASSUME NEW u \in Users, NEW y \in Types, NEW on \in BOOLEAN,
              SettingReads(s, u, y, on)
       PROVE  TasksOK' /\ SavesAreAlone'
  <2> DEFINE t == [pc |-> "setting", user |-> u, type |-> y, on |-> on,
                   found |-> HasSetting(u, y)]
  <2>1. t.pc = "setting" /\ t.user = u
    OBVIOUS
  <2>2. StartsTask(s, t)
    BY <1>13 DEF SettingReads
  <2> HIDE DEF t
  <2>3. Known(u) /\ UNCHANGED <<accounts, work>>
    BY <1>13 DEF SettingReads, Authenticated, Known, tables
  <2>4. (\E w \in work : w.user = u) => u \in raced'
    BY <1>13 DEF SettingReads, Races, Pending
  <2>5. WillBeOK(t)
    BY <2>1, <2>3, <2>4 DEF WillBeOK, Known
  <2>. QED
    BY <1>0, <2>1, <2>2, <2>3, <2>5, StartKeeps
<1>14. ASSUME SettingSaves(s)
       PROVE  TasksOK' /\ SavesAreAlone'
  BY <1>3, <1>14 DEF SettingSaves, Idle
<1>. QED
  BY <1>2, <1>4, <1>5, <1>6, <1>7, <1>8, <1>9, <1>10, <1>11, <1>12, <1>13, <1>14
     DEF Registers, Tracks, Changes, Chooses

LEMMA TasksKept ==
  ASSUME RestTypeOK, FlightInv, [AccountsNext]_<<vars, accountVars>>
  PROVE  TasksOK' /\ SavesAreAlone'
<1>1. CASE \E s \in Slots : RegisterSaves(s)
  BY <1>1, RegisterSavesKeeps
<1>2. CASE ~\E s \in Slots : RegisterSaves(s)
  <2>1. RestTypeOK' /\ (\A u \in Users : Stable(u)) /\ TasksOK /\ SavesAreAlone
    BY <1>2, StepIsStable, RestKept DEF FlightInv
  <2>2. ASSUME NEW s \in Slots,
               Registers(s) \/ LogsIn(s) \/ TaskFails(s) \/ Tracks(s)
                 \/ Changes(s) \/ Chooses(s)
        PROVE  TasksOK' /\ SavesAreAlone'
    BY <1>2, <2>1, <2>2, RequestKeepsTasks
  <2>3. ASSUME UNCHANGED tasks
        PROVE  TasksOK' /\ SavesAreAlone'
    BY <2>1, <2>3, StillKeeps
  <2>4. ASSUME Restarts
        PROVE  TasksOK' /\ SavesAreAlone'
    BY <2>4 DEF Restarts, TasksOK, TaskOK, SavesAreAlone, Idle
  <2>5. ASSUME NEW w \in work, Handles(w)
        PROVE  TasksOK' /\ SavesAreAlone'
    <3>1. UNCHANGED tasks \/ Restarts
      BY <2>5 DEF Handles, Welcomes, Subscribes, GrantSaves, GrantEnds,
                  GrantChecks, Rejects
    <3>. QED
      BY <2>3, <2>4, <3>1
  <2>. QED
    BY <2>2, <2>3, <2>4, <2>5
       DEF AccountsNext, SendsMessage, Crash, Sessions, accountVars
<1>. QED
  BY <1>1, <1>2

-----------------------------------------------------------------------------
(***************************************************************************)
(* Handlers at work.                                                       *)
(***************************************************************************)

\* What WorkOK asks, after a step, of a record made before it.
WorkWillBeOK(w) ==
  /\ accounts'[w.user] # None
  /\ w.kind = "defaults" /\ w.user \notin raced' =>
       \A t \in Types : subscribed'[w.user][t] = None
  /\ w.kind = "grant" /\ w.user \notin raced' /\ w.next # None =>
       w.next \notin owned'[w.user]

\* The rows a handler is about to make are left alone.
Spared(w) ==
  /\ w.kind = "defaults" /\ w.user \notin raced' =>
       subscribed'[w.user] = subscribed[w.user]
  /\ w.kind = "grant" /\ w.user \notin raced' =>
       owned'[w.user] = owned[w.user]

RacedStays == \A u \in Users : u \in raced => u \in raced'

LEMMA WillBeWork ==
  ASSUME \A w \in work' : WorkWillBeOK(w)
  PROVE  AllWorkOK'
BY DEF AllWorkOK, WorkOK, WorkWillBeOK, Known, HasSetting

LEMMA SparedWork ==
  ASSUME RestTypeOK, AllWorkOK, AccountsStay, RacedStays, NEW w \in work,
         Spared(w)
  PROVE  WorkWillBeOK(w)
BY WorkShapes
   DEF RestTypeOK, AllWorkOK, WorkOK, WorkWillBeOK, Spared, AccountsStay,
       RacedStays, Known, HasSetting

\* No handler starts and the ones at work are spared.
LEMMA ShrinkKeeps ==
  ASSUME RestTypeOK, AllWorkOK, OneGrant, AccountsStay, RacedStays,
         work' \subseteq work, \A w \in work' : Spared(w)
  PROVE  AllWorkOK' /\ OneGrant'
<1>1. \A w \in work' : WorkWillBeOK(w)
  BY SparedWork
<1>. QED
  BY <1>1, WillBeWork DEF OneGrant

\* A grant goes on with the next of its steps.
LEMMA ReplaceKeeps ==
  ASSUME RestTypeOK, AllWorkOK, OneGrant, AccountsStay, RacedStays,
         NEW w \in work, w.kind = "grant", NEW g,
         g.user = w.user, WorkWillBeOK(g),
         work' = (work \ {w}) \cup {g}, \A v \in work \ {w} : Spared(v)
  PROVE  AllWorkOK' /\ OneGrant'
<1>1. \A v \in work' : WorkWillBeOK(v)
  BY SparedWork
<1>2. OneGrant'
  BY DEF OneGrant
<1>. QED
  BY <1>1, <1>2, WillBeWork

LEMMA StillSpares ==
  ASSUME UNCHANGED <<owned, subscribed>>, NEW w
  PROVE  Spared(w)
BY DEF Spared

LEMMA HandlesKeepsWork ==
  ASSUME RestTypeOK, FlightInv, AccountsStay, RacedStays,
         NEW w \in work, Handles(w)
  PROVE  AllWorkOK' /\ OneGrant'
<1>0. AllWorkOK /\ OneGrant /\ w.user \in Users
  BY WorkShapes DEF FlightInv, RestTypeOK
<1>1. CASE Welcomes(w)
  BY <1>0, <1>1, ShrinkKeeps, StillSpares DEF Welcomes
<1>2. CASE Subscribes(w)
  <2>1. ASSUME NEW v \in work', v.kind = "defaults"
        PROVE  v.user # w.user
    <3>1. v \in PlainWork /\ w \in PlainWork /\ v # w
      BY <1>2, <2>1, WorkShapes DEF Subscribes, RestTypeOK
    <3>. QED
      BY <1>2, <2>1, <3>1 DEF Subscribes, PlainWork
  <2>2. ASSUME NEW v \in work'
        PROVE  Spared(v)
    BY <1>2, <2>1, WorkShapes
       DEF Subscribes, Spared, RestTypeOK, TablesTypeOK
  <2>. QED
    BY <1>0, <1>2, <2>2, ShrinkKeeps DEF Subscribes
<1>3. CASE GrantSaves(w)
  <2> DEFINE g == Granting(w.user, w.todo, None)
  <2>1. g.user = w.user /\ g.kind = "grant" /\ g.next = None
    BY DEF Granting
  <2> HIDE DEF g
  <2>2. w.kind = "grant" /\ work' = (work \ {w}) \cup {g}
    BY <1>3 DEF GrantSaves, g
  <2>3. WorkWillBeOK(g)
    BY <1>0, <2>1, WorkShapes
       DEF WorkWillBeOK, AllWorkOK, WorkOK, AccountsStay, Known
  <2>4. ASSUME NEW v \in work \ {w}
        PROVE  Spared(v)
    <3>1. v.kind = "grant" => v.user # w.user
      BY <1>0, <2>2 DEF OneGrant
    <3>2. v.user \in Users
      BY WorkShapes DEF RestTypeOK
    <3>. QED
      BY <1>0, <1>3, <3>1, <3>2 DEF GrantSaves, Spared, RestTypeOK, TablesTypeOK
  <2>. QED
    BY <1>0, <2>1, <2>2, <2>3, <2>4, ReplaceKeeps
<1>4. CASE GrantEnds(w)
  BY <1>0, <1>4, ShrinkKeeps, StillSpares DEF GrantEnds, tables
<1>5. ASSUME NEW c \in Characters, GrantChecks(w, c)
      PROVE  AllWorkOK' /\ OneGrant'
  <2> DEFINE next == IF c \in owned[w.user] THEN None ELSE c
             g == Granting(w.user, w.todo \ {c}, next)
  <2>1. g.user = w.user /\ g.kind = "grant" /\ g.next = next
    BY DEF Granting
  <2>2. w.kind = "grant" /\ work' = (work \ {w}) \cup {g}
    BY <1>5 DEF GrantChecks
  <2>3. WorkWillBeOK(g)
    BY <1>0, <1>5, <2>1
       DEF WorkWillBeOK, AllWorkOK, WorkOK, AccountsStay, Known, GrantChecks,
           tables
  <2>4. \A v \in work \ {w} : Spared(v)
    BY <1>5, StillSpares DEF GrantChecks, tables
  <2> HIDE DEF g
  <2>. QED
    BY <1>0, <2>1, <2>2, <2>3, <2>4, ReplaceKeeps
<1>6. CASE Rejects(w)
  BY <1>6 DEF Rejects, Restarts, AllWorkOK, OneGrant
<1>. QED
  BY <1>1, <1>2, <1>3, <1>4, <1>5, <1>6 DEF Handles

LEMMA RacedGrows ==
  ASSUME RestTypeOK, FlightInv, [AccountsNext]_<<vars, accountVars>>
  PROVE  RacedStays
<1>1. CASE \E s \in Slots : RegisterSaves(s)
  BY <1>1 DEF RegisterSaves, told, RacedStays
<1>2. CASE ~\E s \in Slots : RegisterSaves(s)
  BY <1>2, StepIsStable DEF Stable, RacedStays
<1>. QED
  BY <1>1, <1>2

\* A request makes a row for somebody whose handlers are still at work only
\* after it is known to race with them.
LEMMA RequestKeepsWork ==
  ASSUME RestTypeOK, FlightInv, RowsAreKnown, AccountsStay, RacedStays,
         NEW s \in Slots,
         Registers(s) \/ LogsIn(s) \/ TaskFails(s) \/ Tracks(s) \/ Changes(s)
           \/ Chooses(s)
  PROVE  AllWorkOK' /\ OneGrant'
<1>0. AllWorkOK /\ OneGrant /\ TasksOK
  BY DEF FlightInv
<1>1. ASSUME UNCHANGED <<owned, subscribed, work>>
      PROVE  AllWorkOK' /\ OneGrant'
  BY <1>0, <1>1, ShrinkKeeps, StillSpares
<1>2. CASE RegisterSaves(s)
  <2> DEFINE u == tasks[s].user
  <2>1. tasks[s] \in SaveTask
    BY <1>2, TaskShapes DEF RegisterSaves, RestTypeOK
  <2>2. u \in Users /\ tasks[s].device \in Devices /\ ~Known(u)
    BY <1>0, <1>2, <2>1 DEF SaveTask, RegisterSaves, TasksOK, TaskOK
  <2>3. [device |-> tasks[s].device, wears |-> Default] \in Account
    BY <2>2, SomeCharacter DEF Account, Default
  <2>4. accounts'[u] # None
    BY <1>2, <2>2, <2>3, NoneIsNoRow DEF RegisterSaves, RestTypeOK, TablesTypeOK
  <2>5. UNCHANGED <<owned, subscribed>> /\ work' = work \cup Handlers(u)
    BY <1>2 DEF RegisterSaves
  <2>6. \A w \in work : w.user # u
    BY <1>0, <2>2 DEF AllWorkOK, WorkOK
  <2>7. ASSUME NEW w \in Handlers(u)
        PROVE  WorkWillBeOK(w)
    <3>1. w.user = u /\ owned'[u] = {} /\ \A t \in Types : subscribed'[u][t] = None
      BY <2>2, <2>5, HandlersAreWork DEF RowsAreKnown, HasSetting
    <3>. QED
      BY <2>4, <3>1 DEF WorkWillBeOK
  <2>8. AllWorkOK'
    BY <1>0, <2>5, <2>7, SparedWork, StillSpares, WillBeWork
  <2>9. OneGrant'
    <3> SUFFICES ASSUME NEW v \in work', NEW w \in work', v.kind = "grant",
                        w.kind = "grant", v.user = w.user
                 PROVE  v = w
      BY DEF OneGrant
    <3>1. \A x \in Handlers(u) : x.user = u
            /\ (x.kind = "grant" => x = Granting(u, Characters, None))
      BY <2>2, HandlersAreWork
    <3>. QED
      BY <1>0, <2>5, <2>6, <3>1 DEF OneGrant
  <2>. QED
    BY <2>8, <2>9
<1>3. ASSUME NEW u \in Users, NEW d \in Devices, RegisterReads(s, u, d)
      PROVE  AllWorkOK' /\ OneGrant'
  BY <1>1, <1>3 DEF RegisterReads, tables
<1>4. ASSUME NEW r \in RefreshTokens, RegisterLogsIn(s, r)
      PROVE  AllWorkOK' /\ OneGrant'
  BY <1>1, <1>4 DEF RegisterLogsIn, tables
<1>5. CASE LogsIn(s) \/ TaskFails(s)
  BY <1>1, <1>5 DEF LogsIn, LoginByDevice, TaskFails, accountVars, tables
<1>6. ASSUME NEW u \in Users, TrackReads(s, u)
      PROVE  AllWorkOK' /\ OneGrant'
  BY <1>1, <1>6 DEF TrackReads, tables
<1>7. ASSUME NEW c \in Characters, TrackChecks(s, c)
      PROVE  AllWorkOK' /\ OneGrant'
  BY <1>1, <1>7 DEF TrackChecks, tables
<1>8. CASE TrackSaves(s)
  <2>1. tasks[s] \in UnlockTask
    BY <1>8, TaskShapes DEF TrackSaves, RestTypeOK
  <2>2. \A w \in work : w.user = tasks[s].user => w.user \in raced'
    BY <1>0, <1>8 DEF TrackSaves, TasksOK, TaskOK, IsPending
  <2>3. ASSUME NEW w \in work
        PROVE  Spared(w)
    BY <1>8, <2>1, <2>2, WorkShapes
       DEF TrackSaves, Spared, UnlockTask, RestTypeOK, TablesTypeOK
  <2>. QED
    BY <1>0, <1>8, <2>3, ShrinkKeeps DEF TrackSaves
<1>9. CASE TrackEnds(s)
  BY <1>1, <1>9 DEF TrackEnds, tables
<1>10. ASSUME NEW u \in Users, NEW c \in Characters, ChangeReads(s, u, c)
       PROVE  AllWorkOK' /\ OneGrant'
  BY <1>1, <1>10 DEF ChangeReads, tables
<1>11. CASE ChangeSaves(s)
  BY <1>1, <1>11 DEF ChangeSaves
<1>12. ASSUME NEW u \in Users, NEW t \in Types, NEW on \in BOOLEAN,
              SettingReads(s, u, t, on)
       PROVE  AllWorkOK' /\ OneGrant'
  BY <1>1, <1>12 DEF SettingReads, tables
<1>13. CASE SettingSaves(s)
  <2>1. tasks[s] \in SettingTask
    BY <1>13, TaskShapes DEF SettingSaves, RestTypeOK
  <2>2. \A w \in work : w.user = tasks[s].user => w.user \in raced'
    BY <1>0, <1>13 DEF SettingSaves, TasksOK, TaskOK, IsPending, told
  <2>3. ASSUME NEW w \in work
        PROVE  Spared(w)
    BY <1>13, <2>1, <2>2, WorkShapes
       DEF SettingSaves, Spared, SettingTask, RestTypeOK, TablesTypeOK
  <2>. QED
    BY <1>0, <1>13, <2>3, ShrinkKeeps DEF SettingSaves
<1>. QED
  BY <1>2, <1>3, <1>4, <1>5, <1>6, <1>7, <1>8, <1>9, <1>10, <1>11, <1>12, <1>13
     DEF Registers, Tracks, Changes, Chooses

WholeInv == AccountsTypeOK /\ SessionsAreKnown /\ FlightInv /\ RowsAreKnown

LEMMA WholeStarts == AccountsInit => WholeInv
<1> SUFFICES ASSUME AccountsInit
             PROVE  WholeInv
  OBVIOUS
<1>1. AccountsTypeOK
  BY AccountsTypesStart
<1>2. SessionsAreKnown
  BY DEF AccountsInit, Init, SessionsAreKnown
<1>3. FlightInv
  BY DEF AccountsInit, FlightInv, TasksOK, TaskOK, SavesAreAlone, AllWorkOK,
         OneGrant, Idle
<1>4. RowsAreKnown
  BY DEF AccountsInit, RowsAreKnown, HasSetting
<1>. QED
  BY <1>1, <1>2, <1>3, <1>4 DEF WholeInv

LEMMA WholeKept ==
  ASSUME WholeInv, [AccountsNext]_<<vars, accountVars>>
  PROVE  WholeInv'
<1>0. SessionsTypeOK /\ RestTypeOK /\ FlightInv /\ RowsAreKnown
  BY TypesSplit DEF WholeInv
<1>1. AccountsTypeOK'
  BY AccountsTypesKept DEF WholeInv
<1>2. KnownInv
  BY <1>0, FlightIsKnown DEF KnownInv, WholeInv
<1>3. AccountsStay /\ RowsStay /\ RacedStays
  BY <1>0, <1>2, StepKeepsRows, RacedGrows DEF KnownInv
<1>4. SessionsAreKnown'
  BY <1>0, <1>2, SessionsStayKnown
<1>5. RowsAreKnown'
  BY <1>0, <1>3 DEF RowsAreKnown, AccountsStay, RowsStay, HasSetting
<1>6. TasksOK' /\ SavesAreAlone'
  BY <1>0, TasksKept
<1>7. AllWorkOK' /\ OneGrant'
  <2>1. ASSUME UNCHANGED <<tables, work>>
        PROVE  AllWorkOK' /\ OneGrant'
    BY <1>0, <1>3, <2>1, ShrinkKeeps, StillSpares DEF FlightInv, tables
  <2>2. ASSUME NEW u \in Users, SendsMessage(u)
        PROVE  AllWorkOK' /\ OneGrant'
    BY <1>0, <1>3, <2>2, ShrinkKeeps, StillSpares DEF FlightInv, SendsMessage
  <2>3. CASE Crash
    BY <2>3 DEF Crash, Restarts, AllWorkOK, OneGrant
  <2>. QED
    BY <1>0, <1>3, <2>1, <2>2, <2>3, RequestKeepsWork, HandlesKeepsWork
       DEF AccountsNext, Sessions, accountVars
<1>. QED
  BY <1>1, <1>4, <1>5, <1>6, <1>7 DEF WholeInv, FlightInv

\* Whatever overlaps and whenever the process ends, sessions, characters,
\* settings and handlers belong to users whose row is in the database.
THEOREM AccountsComeFirst == AccountsSpec => []NothingWithoutAnAccount
<1>1. AccountsInit => WholeInv
  BY WholeStarts
<1>2. WholeInv /\ [AccountsNext]_<<vars, accountVars>> => WholeInv'
  BY WholeKept
<1>3. WholeInv => NothingWithoutAnAccount
  BY DEF WholeInv, FlightInv, AllWorkOK, WorkOK, SessionsAreKnown, RowsAreKnown,
         NothingWithoutAnAccount, Known, Pending
<1>. QED
  BY <1>1, <1>2, <1>3, PTL DEF AccountsSpec

-----------------------------------------------------------------------------
(***************************************************************************)
(* What the handlers leave.                                                *)
(*                                                                         *)
(* Until a handler has done its part of a registration it is at work on    *)
(* it: what a user lacks, some record in "work" still has to make, unless  *)
(* the process has ended.                                                  *)
(***************************************************************************)
Grants(u, c) ==
  \E w \in work : w.kind = "grant" /\ w.user = u /\ (c \in w.todo \/ c = w.next)
Covered(u) ==
  /\ \A c \in Characters : c \in owned[u] \/ Grants(u, c)
  /\ u \in welcomed \/ [kind |-> "welcome", user |-> u] \in work
  /\ (\A t \in Types : HasSetting(u, t))
       \/ [kind |-> "defaults", user |-> u] \in work
AllCovered == \A u \in Users : Known(u) => Covered(u)

\* No row of these tables is ever removed.
RowsGrow ==
  \A u \in Users :
    /\ owned[u] \subseteq owned'[u] /\ (u \in welcomed => u \in welcomed')
    /\ \A t \in Types : subscribed[u][t] # None => subscribed'[u][t] # None

LEMMA RowsAlwaysGrow ==
  ASSUME RestTypeOK, FlightInv, [AccountsNext]_<<vars, accountVars>>
  PROVE  RowsGrow
<1>1. \A u \in Users : owned[u] \subseteq owned'[u]
  <2>1. CASE \E s \in Slots : RegisterSaves(s)
    BY <2>1 DEF RegisterSaves
  <2>2. CASE ~\E s \in Slots : RegisterSaves(s)
    BY <2>2, StepIsStable DEF Stable
  <2>. QED
    BY <2>1, <2>2
<1>2. ASSUME UNCHANGED <<subscribed, welcomed>>
      PROVE  RowsGrow
  BY <1>1, <1>2 DEF RowsGrow
<1>3. ASSUME NEW s \in Slots, SettingSaves(s)
      PROVE  RowsGrow
  <2>1. tasks[s] \in SettingTask
    BY <1>3, TaskShapes DEF SettingSaves, RestTypeOK
  <2>2. tasks[s].on # None
    BY <2>1, NoneIsNoRow DEF SettingTask
  <2>. QED
    BY <1>1, <1>3, <2>1, <2>2
       DEF SettingSaves, SettingTask, RowsGrow, RestTypeOK, TablesTypeOK
<1>4. ASSUME NEW w \in work, Subscribes(w)
      PROVE  RowsGrow
  <2>1. w.user \in Users /\ \A t \in Types : SaveBatch(w.user)[t] # None
    BY WorkShapes, NoneIsNoRow DEF SaveBatch, RestTypeOK
  <2>2. subscribed' = [subscribed EXCEPT ![w.user] = SaveBatch(w.user)]
        /\ UNCHANGED welcomed
    BY <1>4 DEF Subscribes
  <2>. QED
    BY <1>1, <2>1, <2>2 DEF RowsGrow, RestTypeOK, TablesTypeOK
<1>5. ASSUME NEW w \in work, Welcomes(w)
      PROVE  RowsGrow
  BY <1>1, <1>5 DEF Welcomes, RowsGrow
<1>6. ASSUME NEW s \in Slots,
             Registers(s) \/ LogsIn(s) \/ TaskFails(s) \/ Tracks(s)
               \/ Changes(s) \/ Chooses(s)
      PROVE  RowsGrow
  <2>1. UNCHANGED <<subscribed, welcomed>> \/ SettingSaves(s)
    BY <1>6
       DEF Registers, RegisterReads, RegisterSaves, RegisterLogsIn, LogsIn,
           LoginByDevice, TaskFails, Tracks, TrackReads, TrackChecks,
           TrackSaves, TrackEnds, Changes, ChangeReads, ChangeSaves, Chooses,
           SettingReads, accountVars, tables
  <2>. QED
    BY <1>2, <1>3, <2>1
<1>7. ASSUME NEW w \in work, Handles(w)
      PROVE  RowsGrow
  <2>1. UNCHANGED <<subscribed, welcomed>> \/ Subscribes(w) \/ Welcomes(w)
    BY <1>7 DEF Handles, GrantSaves, GrantEnds, GrantChecks, Rejects, Restarts,
                tables
  <2>. QED
    BY <1>2, <1>4, <1>5, <2>1
<1>8. CASE Crash \/ Sessions \/ UNCHANGED accountVars
             \/ \E u \in Users : SendsMessage(u)
  BY <1>2, <1>8 DEF Crash, Restarts, Sessions, SendsMessage, accountVars, tables
<1>. QED
  BY <1>6, <1>7, <1>8 DEF AccountsNext

\* What covers a user before a step where no handler ends covers them after.
LEMMA CoverStays ==
  ASSUME RowsGrow, work \subseteq work', NEW u \in Users, Covered(u)
  PROVE  Covered(u)'
BY DEF RowsGrow, Covered, Grants, HasSetting

LEMMA HandlesCovers ==
  ASSUME RestTypeOK, FlightInv, RowsGrow, NEW w \in work, Handles(w),
         ~Restarts, NEW u \in Users, Covered(u)
  PROVE  Covered(u)'
<1>0. w.user \in Users
  BY WorkShapes DEF RestTypeOK
<1>1. CASE Welcomes(w)
  <2>1. w \in PlainWork /\ w.kind = "welcome" /\ work' = work \ {w}
    BY <1>1, WorkShapes DEF Welcomes, RestTypeOK
  <2>2. (\A c \in Characters : c \in owned[u] \/ Grants(u, c))'
    BY <2>1 DEF Covered, Grants, RowsGrow
  <2>3. (u \in welcomed \/ [kind |-> "welcome", user |-> u] \in work)'
    <3>1. CASE w.user = u
      BY <1>1, <3>1 DEF Welcomes
    <3>2. CASE w.user # u
      <4>1. w # [kind |-> "welcome", user |-> u]
        BY <3>2
      <4>. QED
        BY <2>1, <4>1 DEF Covered, RowsGrow
    <3>. QED
      BY <3>1, <3>2
  <2>4. w # [kind |-> "defaults", user |-> u]
    BY <2>1
  <2>5. ((\A t \in Types : HasSetting(u, t))
           \/ [kind |-> "defaults", user |-> u] \in work)'
    BY <2>1, <2>4 DEF Covered, RowsGrow, HasSetting
  <2>. QED
    BY <2>2, <2>3, <2>5 DEF Covered
<1>2. CASE Subscribes(w)
  <2>1. w \in PlainWork /\ w.kind = "defaults" /\ work' = work \ {w}
    BY <1>2, WorkShapes DEF Subscribes, RestTypeOK
  <2>2. (\A c \in Characters : c \in owned[u] \/ Grants(u, c))'
    BY <2>1 DEF Covered, Grants, RowsGrow
  <2>3. w # [kind |-> "welcome", user |-> u]
    BY <2>1
  <2>4. (u \in welcomed \/ [kind |-> "welcome", user |-> u] \in work)'
    BY <2>1, <2>3 DEF Covered, RowsGrow
  <2>5. ((\A t \in Types : HasSetting(u, t))
           \/ [kind |-> "defaults", user |-> u] \in work)'
    <3>1. CASE w.user = u
      <4>1. \A t \in Types : SaveBatch(u)[t] # None
        BY NoneIsNoRow DEF SaveBatch
      <4>2. subscribed' = [subscribed EXCEPT ![u] = SaveBatch(u)]
        BY <1>2, <3>1 DEF Subscribes
      <4>. QED
        BY <4>1, <4>2 DEF HasSetting, RestTypeOK, TablesTypeOK
    <3>2. CASE w.user # u
      <4>1. w # [kind |-> "defaults", user |-> u]
        BY <3>2
      <4>. QED
        BY <2>1, <4>1 DEF Covered, RowsGrow, HasSetting
    <3>. QED
      BY <3>1, <3>2
  <2>. QED
    BY <2>2, <2>4, <2>5 DEF Covered
<1>3. ASSUME w.kind = "grant", work \ {w} \subseteq work',
             \A c \in Characters : w.user = u /\ (c \in w.todo \/ c = w.next) =>
               c \in owned'[u]
                 \/ \E v \in work' : v.kind = "grant" /\ v.user = u
                                     /\ (c \in v.todo \/ c = v.next)
      PROVE  Covered(u)'
  <2>1. w # [kind |-> "welcome", user |-> u]
        /\ w # [kind |-> "defaults", user |-> u]
    BY <1>3
  <2>2. (\A c \in Characters : c \in owned[u] \/ Grants(u, c))'
    BY <1>3 DEF Covered, Grants, RowsGrow
  <2>. QED
    BY <1>3, <2>1, <2>2 DEF Covered, RowsGrow, HasSetting
<1>4. CASE GrantSaves(w)
  <2> DEFINE g == Granting(w.user, w.todo, None)
  <2>1. g.kind = "grant" /\ g.user = w.user /\ g.todo = w.todo
    BY DEF Granting
  <2> HIDE DEF g
  <2>2. work' = (work \ {w}) \cup {g} /\ w.kind = "grant"
    BY <1>4 DEF GrantSaves, g
  <2>3. w.next \in owned'[w.user]
    BY <1>0, <1>4 DEF GrantSaves, RestTypeOK, TablesTypeOK
  <2>. QED
    BY <1>3, <2>1, <2>2, <2>3
<1>5. CASE GrantEnds(w)
  BY <1>3, <1>5, NoneIsNoRow DEF GrantEnds
<1>6. ASSUME NEW c \in Characters, GrantChecks(w, c)
      PROVE  Covered(u)'
  <2> DEFINE next == IF c \in owned[w.user] THEN None ELSE c
             g == Granting(w.user, w.todo \ {c}, next)
  <2>1. /\ g.kind = "grant" /\ g.user = w.user /\ g.todo = w.todo \ {c}
        /\ g.next = next
    BY DEF Granting
  <2>2. work' = (work \ {w}) \cup {g} /\ w.kind = "grant" /\ w.next = None
        /\ owned' = owned
    BY <1>6 DEF GrantChecks, tables
  <2> HIDE DEF g
  <2>. QED
    BY <1>3, <2>1, <2>2, NoneIsNoRow
<1>. QED
  BY <1>1, <1>2, <1>4, <1>5, <1>6 DEF Handles, Rejects

LEMMA CoverKept ==
  ASSUME RestTypeOK, FlightInv, AllCovered, ~Restarts,
         [AccountsNext]_<<vars, accountVars>>
  PROVE  AllCovered'
<1>0. RowsGrow
  BY RowsAlwaysGrow
<1>1. CASE \E s \in Slots : RegisterSaves(s)
  <2> PICK s \in Slots : RegisterSaves(s)
    BY <1>1
  <2>1. tasks[s] \in SaveTask
    BY TaskShapes DEF RegisterSaves, RestTypeOK
  <2>2. PICK u \in Users : u = tasks[s].user
    BY <2>1 DEF SaveTask
  <2>3. work' = work \cup Handlers(u)
        /\ \A v \in Users \ {u} : accounts'[v] = accounts[v]
    BY <2>2 DEF RegisterSaves, RestTypeOK, TablesTypeOK
  <2>4. Covered(u)'
    <3>1. Granting(u, Characters, None).kind = "grant"
          /\ Granting(u, Characters, None).user = u
          /\ Granting(u, Characters, None).todo = Characters
      BY DEF Granting
    <3>2. /\ Granting(u, Characters, None) \in work'
          /\ [kind |-> "welcome", user |-> u] \in work'
          /\ [kind |-> "defaults", user |-> u] \in work'
      BY <2>2, <2>3, HandlersAreWork
    <3>3. \A c \in Characters :
            \E w \in work' : w.kind = "grant" /\ w.user = u
                             /\ (c \in w.todo \/ c = w.next)
      BY <3>1, <3>2
    <3>. QED
      BY <3>2, <3>3 DEF Covered, Grants
  <2>. QED
    BY <1>0, <2>3, <2>4, CoverStays DEF AllCovered, Known
<1>2. CASE ~\E s \in Slots : RegisterSaves(s)
  <2>1. \A u \in Users : accounts'[u] = None <=> accounts[u] = None
    BY <1>2, StepIsStable DEF Stable
  <2>2. ASSUME work \subseteq work'
        PROVE  AllCovered'
    BY <1>0, <2>1, <2>2, CoverStays DEF AllCovered, Known
  <2>3. ASSUME NEW w \in work, Handles(w)
        PROVE  AllCovered'
    BY <1>0, <2>1, <2>3, HandlesCovers DEF AllCovered, Known
  <2>4. ASSUME NEW s \in Slots,
               Registers(s) \/ LogsIn(s) \/ TaskFails(s) \/ Tracks(s)
                 \/ Changes(s) \/ Chooses(s)
        PROVE  work' = work
    BY <1>2, <2>4
       DEF Registers, RegisterReads, RegisterLogsIn, LogsIn,
           LoginByDevice, TaskFails, Tracks, TrackReads, TrackChecks,
           TrackSaves, TrackEnds, Changes, ChangeReads, ChangeSaves, Chooses,
           SettingReads, SettingSaves, accountVars
  <2>. QED
    BY <2>2, <2>3, <2>4
       DEF AccountsNext, Crash, Sessions, SendsMessage, accountVars
<1>. QED
  BY <1>1, <1>2

CoverInv == ~crashed => AllCovered

LEMMA CoverInvKept ==
  ASSUME WholeInv, CoverInv, [AccountsNext]_<<vars, accountVars>>
  PROVE  CoverInv'
<1>0. RestTypeOK /\ FlightInv
  BY TypesSplit DEF WholeInv
<1>1. CASE Restarts
  <2>1. crashed'
    BY <1>1, Zenon DEF Restarts
  <2>. QED
    BY <2>1, Zenon DEF CoverInv
<1>2. CASE ~Restarts
  <2>1. crashed' = crashed
    <3>1. ASSUME NEW s \in Slots,
                 Registers(s) \/ LogsIn(s) \/ TaskFails(s) \/ Tracks(s)
                   \/ Changes(s) \/ Chooses(s)
          PROVE  crashed' = crashed
      BY <3>1 DEF Registers, RegisterReads, RegisterSaves, RegisterLogsIn,
         LogsIn, LoginByDevice, TaskFails, Tracks, TrackReads, TrackChecks,
         TrackSaves, TrackEnds, Changes, ChangeReads, ChangeSaves, Chooses,
         SettingReads, SettingSaves, told, accountVars
    <3>2. ASSUME NEW w \in work, Handles(w)
          PROVE  crashed' = crashed
      BY <1>2, <3>2 DEF Handles, Welcomes, Subscribes, GrantSaves, GrantEnds,
         GrantChecks, Rejects, told
    <3>. QED
      BY <1>2, <3>1, <3>2
         DEF AccountsNext, Crash, Sessions, SendsMessage, accountVars, told
  <2>2. AllCovered => AllCovered'
    BY <1>0, <1>2, CoverKept
  <2>. QED
    BY <2>1, <2>2, Zenon DEF CoverInv
<1>. QED
  BY <1>1, <1>2

\* Unless the process ends, every registration is made whole by its handlers,
\* whatever its user and others do meanwhile; and no row a handler makes is
\* refused for a user who asked for nothing before the handlers were done.
THEOREM RegistrationsSettle == AccountsSpec => []RegistrationSettles
<1> DEFINE Inv == WholeInv /\ CoverInv
<1>1. AccountsInit => Inv
  <2>1. AccountsInit => CoverInv
    BY DEF AccountsInit, CoverInv, AllCovered, Known
  <2>. QED
    BY <2>1, WholeStarts
<1>2. Inv /\ [AccountsNext]_<<vars, accountVars>> => Inv'
  BY WholeKept, CoverInvKept
<1>3. Inv => RegistrationSettles
  <2> SUFFICES ASSUME WholeInv, CoverInv
               PROVE  RegistrationSettles
    OBVIOUS
  <2>1. ASSUME NEW u \in Users, Known(u), Pending(u) = {}, AllCovered
        PROVE  /\ owned[u] = Characters /\ u \in welcomed
               /\ \A t \in Types : HasSetting(u, t)
    <3>1. \A w \in work : w.user # u
      BY <2>1 DEF Pending
    <3>2. [kind |-> "welcome", user |-> u] \notin work
          /\ [kind |-> "defaults", user |-> u] \notin work
      BY <3>1
    <3>3. owned[u] \in SUBSET Characters
      BY TypesSplit DEF WholeInv, RestTypeOK, TablesTypeOK
    <3>. QED
      BY <2>1, <3>1, <3>2, <3>3 DEF AllCovered, Covered, Grants
  <2>2. ASSUME NEW w \in work, Refused(w)
        PROVE  w.user \in raced
    <3>1. WorkOK(w)
      BY DEF WholeInv, FlightInv, AllWorkOK
    <3>2. CASE w.kind = "defaults" /\ \E t \in Types : HasSetting(w.user, t)
      BY <3>1, <3>2 DEF WorkOK
    <3>3. CASE w.kind = "grant" /\ w.next # None /\ w.next \in owned[w.user]
      BY <3>1, <3>3 DEF WorkOK
    <3>. QED
      BY <2>2, <3>2, <3>3 DEF Refused
  <2>3. ASSUME NEW u \in Users, accounts[u] # None, Pending(u) = {}, ~crashed
        PROVE  /\ owned[u] = Characters /\ u \in welcomed
               /\ \A t \in Types : HasSetting(u, t)
    <3>1. AllCovered
      BY <2>3, Zenon DEF CoverInv
    <3>. QED
      BY <2>1, <2>3, <3>1 DEF Known
  <2>. QED
    BY <2>2, <2>3, Zenon DEF RegistrationSettles
<1>. QED
  BY <1>1, <1>2, <1>3, PTL DEF AccountsSpec

-----------------------------------------------------------------------------
(***************************************************************************)
(* Unlocking.                                                              *)
(*                                                                         *)
(* A push goes out with the row it is about, once the row is not there     *)
(* already; the count an unlock was earned with never goes down, and what  *)
(* a request has still to unlock was earned when it began (TaskOK).        *)
(***************************************************************************)
UnlocksAreEarned ==
  \A u \in Users, c \in Characters : unlocks[u][c] > 0 =>
    unlocks[u][c] = 1 /\ c \in owned[u] /\ Matches(c, chats[u])
WearsAreOwned ==
  \A u \in Users : Known(u) =>
    accounts[u].wears \in owned[u] \/ accounts[u].wears = Default
UnlockInv == UnlocksAreEarned /\ WearsAreOwned

\* A step that unlocks nothing, where counts and rows only grow.
LEMMA UnlocksStay ==
  ASSUME RestTypeOK, RestTypeOK', UnlocksAreEarned, RowsGrow, UNCHANGED unlocks,
         \A u \in Users : chats'[u] >= chats[u]
  PROVE  UnlocksAreEarned'
<1> SUFFICES ASSUME NEW u \in Users, NEW c \in Characters, unlocks[u][c] > 0
             PROVE  /\ unlocks[u][c] = 1 /\ c \in owned'[u]
                    /\ Matches(c, chats'[u])
  BY DEF UnlocksAreEarned
<1>1. unlocks[u][c] = 1 /\ c \in owned[u] /\ Matches(c, chats[u])
  BY DEF UnlocksAreEarned
<1>2. chats[u] \in Nat /\ chats'[u] \in Nat /\ Required[c] \in Nat
  BY <1>1, RequiredIsACount DEF RestTypeOK, TablesTypeOK, Matches
<1>. QED
  BY <1>1, <1>2 DEF RowsGrow, Matches

LEMMA UnlocksKept ==
  ASSUME RestTypeOK, FlightInv, UnlocksAreEarned,
         [AccountsNext]_<<vars, accountVars>>
  PROVE  UnlocksAreEarned'
<1>0. RestTypeOK' /\ RowsGrow
  BY RestKept, RowsAlwaysGrow
<1>1. \A u \in Users : chats'[u] >= chats[u]
  <2>1. CASE \E s \in Slots : RegisterSaves(s)
    <3>1. \A u \in Users : chats[u] \in Nat
      BY RequiredIsACount DEF RestTypeOK, TablesTypeOK
    <3>. QED
      BY <2>1, <3>1 DEF RegisterSaves
  <2>2. CASE ~\E s \in Slots : RegisterSaves(s)
    BY <2>2, StepIsStable DEF Stable
  <2>. QED
    BY <2>1, <2>2
<1>2. ASSUME UNCHANGED unlocks
      PROVE  UnlocksAreEarned'
  BY <1>0, <1>1, <1>2, UnlocksStay
<1>3. ASSUME NEW s \in Slots, TrackSaves(s)
      PROVE  UnlocksAreEarned'
  <2>1. tasks[s] \in UnlockTask
    BY <1>3, TaskShapes DEF TrackSaves, RestTypeOK
  <2>2. PICK v \in Users, d \in Characters :
          v = tasks[s].user /\ d = tasks[s].next
    BY <1>3, <2>1 DEF TrackSaves, UnlockTask
  <2>3. d \notin owned[v] /\ Matches(d, chats[v])
    BY <1>3, <2>2 DEF TrackSaves, MayInsert, FlightInv, TasksOK, TaskOK
  <2>4. unlocks[v][d] = 0
    BY <2>2, <2>3 DEF UnlocksAreEarned, RestTypeOK, ToldTypeOK
  <2>5. /\ unlocks' = [unlocks EXCEPT ![v][d] = @ + 1]
        /\ owned' = [owned EXCEPT ![v] = @ \cup {d}] /\ chats' = chats
    BY <1>3, <2>2 DEF TrackSaves
  <2> SUFFICES ASSUME NEW u \in Users, NEW c \in Characters, unlocks'[u][c] > 0
               PROVE  /\ unlocks'[u][c] = 1 /\ c \in owned'[u]
                      /\ Matches(c, chats'[u])
    BY DEF UnlocksAreEarned
  <2>6. CASE u = v /\ c = d
    BY <2>3, <2>4, <2>5, <2>6 DEF RestTypeOK, TablesTypeOK, ToldTypeOK
  <2>7. CASE ~(u = v /\ c = d)
    <3>1. unlocks'[u][c] = unlocks[u][c]
      BY <2>5, <2>7 DEF RestTypeOK, ToldTypeOK
    <3>. QED
      BY <1>0, <2>5, <3>1 DEF UnlocksAreEarned, RowsGrow
  <2>. QED
    BY <2>6, <2>7
<1>4. ASSUME NEW s \in Slots,
             Registers(s) \/ LogsIn(s) \/ TaskFails(s) \/ Tracks(s)
               \/ Changes(s) \/ Chooses(s)
      PROVE  UnlocksAreEarned'
  <2>1. UNCHANGED unlocks \/ TrackSaves(s)
    BY <1>4
       DEF Registers, RegisterReads, RegisterSaves, RegisterLogsIn, LogsIn,
           LoginByDevice, TaskFails, Tracks, TrackReads, TrackChecks,
           TrackEnds, Changes, ChangeReads, ChangeSaves, Chooses,
           SettingReads, SettingSaves, accountVars, told
  <2>. QED
    BY <1>2, <1>3, <2>1
<1>5. ASSUME NEW w \in work, Handles(w)
      PROVE  UnlocksAreEarned'
  BY <1>2, <1>5 DEF Handles, Welcomes, Subscribes, GrantSaves, GrantEnds,
                    GrantChecks, Rejects, Restarts, told
<1>. QED
  BY <1>2, <1>4, <1>5
     DEF AccountsNext, Crash, Restarts, Sessions, SendsMessage, accountVars, told

LEMMA WearsKept ==
  ASSUME RestTypeOK, FlightInv, WearsAreOwned,
         [AccountsNext]_<<vars, accountVars>>
  PROVE  WearsAreOwned'
<1>0. RowsGrow
  BY RowsAlwaysGrow
<1>1. ASSUME UNCHANGED accounts
      PROVE  WearsAreOwned'
  BY <1>0, <1>1 DEF WearsAreOwned, RowsGrow, Known
<1>2. ASSUME NEW s \in Slots, RegisterSaves(s)
      PROVE  WearsAreOwned'
  <2>1. tasks[s].user \in Users
    BY <1>2, TaskShapes DEF RegisterSaves, SaveTask, RestTypeOK
  <2>2. accounts' = [accounts EXCEPT ![tasks[s].user] =
                       [device |-> tasks[s].device, wears |-> Default]]
    BY <1>2 DEF RegisterSaves
  <2>. QED
    BY <1>0, <2>1, <2>2
       DEF WearsAreOwned, RowsGrow, Known, RestTypeOK, TablesTypeOK
<1>3. ASSUME NEW s \in Slots, ChangeSaves(s)
      PROVE  WearsAreOwned'
  <2>1. tasks[s] \in WearTask
    BY <1>3, TaskShapes DEF ChangeSaves, RestTypeOK
  <2>2. tasks[s].user \in Users /\ tasks[s].copy \in Account
        /\ tasks[s].character \in owned[tasks[s].user]
    BY <1>3, <2>1 DEF WearTask, ChangeSaves, FlightInv, TasksOK, TaskOK
  <2>3. [tasks[s].copy EXCEPT !.wears = tasks[s].character].wears
          = tasks[s].character
    BY <2>2 DEF Account
  <2>4. accounts' = [accounts EXCEPT ![tasks[s].user] =
                       [tasks[s].copy EXCEPT !.wears = tasks[s].character]]
    BY <1>3 DEF ChangeSaves
  <2>. QED
    BY <1>0, <2>2, <2>3, <2>4
       DEF WearsAreOwned, RowsGrow, Known, RestTypeOK, TablesTypeOK
<1>4. ASSUME NEW s \in Slots,
             Registers(s) \/ LogsIn(s) \/ TaskFails(s) \/ Tracks(s)
               \/ Changes(s) \/ Chooses(s)
      PROVE  WearsAreOwned'
  <2>1. UNCHANGED accounts \/ RegisterSaves(s) \/ ChangeSaves(s)
    BY <1>4
       DEF Registers, RegisterReads, RegisterLogsIn, LogsIn,
           LoginByDevice, TaskFails, Tracks, TrackReads, TrackChecks,
           TrackSaves, TrackEnds, Changes, ChangeReads, Chooses,
           SettingReads, SettingSaves, accountVars, tables
  <2>. QED
    BY <1>1, <1>2, <1>3, <2>1
<1>5. ASSUME NEW w \in work, Handles(w)
      PROVE  WearsAreOwned'
  BY <1>1, <1>5 DEF Handles, Welcomes, Subscribes, GrantSaves, GrantEnds,
                    GrantChecks, Rejects, Restarts, tables
<1>. QED
  BY <1>1, <1>4, <1>5
     DEF AccountsNext, Crash, Restarts, Sessions, SendsMessage, accountVars,
         tables

\* A character is unlocked at most once, owned from then on and paid for with
\* messages; the app is asked to report them while one is earned and locked;
\* and users wear what they own.
THEOREM UnlocksHappenOnce == AccountsSpec => []UnlockedOnceAndEarned
<1> DEFINE Inv == WholeInv /\ UnlockInv
<1>1. AccountsInit => Inv
  <2>1. AccountsInit => UnlockInv
    BY DEF AccountsInit, UnlockInv, UnlocksAreEarned, WearsAreOwned, Known
  <2>. QED
    BY <2>1, WholeStarts
<1>2. Inv /\ [AccountsNext]_<<vars, accountVars>> => Inv'
  BY WholeKept, UnlocksKept, WearsKept, TypesSplit DEF WholeInv, UnlockInv
<1>3. Inv => UnlockedOnceAndEarned
  <2> SUFFICES ASSUME WholeInv, UnlockInv, NEW u \in Users, NEW c \in Characters
               PROVE  LET isOwned == [character |-> c, isOwned |-> TRUE]
                                       \in FindListWithOwnership(u)
                      IN
                      /\ unlocks[u][c] > 0 =>
                           /\ unlocks[u][c] = 1 /\ isOwned
                           /\ chats[u] >= Required[c]
                      /\ Matches(c, chats[u]) /\ GetTrackableEventTypes(u) = {}
                           => isOwned
                      /\ accounts[u] # None /\ accounts[u].wears = c =>
                           isOwned \/ c = Default
    BY DEF UnlockedOnceAndEarned
  <2>1. c \in owned[u] =>
          [character |-> c, isOwned |-> TRUE] \in FindListWithOwnership(u)
    BY Zenon DEF FindListWithOwnership
  <2>2. Matches(c, chats[u]) /\ GetTrackableEventTypes(u) = {} => c \in owned[u]
    BY DEF Matches, GetTrackableEventTypes
  <2>3. unlocks[u][c] > 0 =>
          unlocks[u][c] = 1 /\ c \in owned[u] /\ chats[u] >= Required[c]
    BY DEF UnlockInv, UnlocksAreEarned, Matches
  <2>4. accounts[u] # None /\ accounts[u].wears = c => c \in owned[u] \/ c = Default
    BY DEF UnlockInv, WearsAreOwned, Known
  <2>. QED
    BY <2>1, <2>2, <2>3, <2>4
<1>. QED
  BY <1>1, <1>2, <1>3, PTL DEF AccountsSpec

=============================================================================
