----------------------------- MODULE ShortTalk -----------------------------
(***************************************************************************)
(* The chat of one group (src/module/short-talk): the registry of SSE      *)
(* connections kept in memory, sending a message, and catching up after a  *)
(* reconnect.  Groups share nothing but the process.                       *)
(*                                                                         *)
(* A join asks the database twice before it subscribes; the handler for    *)
(* the end of the connection is attached in the turn that subscribes.  A   *)
(* message gets its time when it is created, is saved after an await and   *)
(* is published after another.  Subjects, map and handlers run on one      *)
(* event loop: what happens between two awaits is one step.                *)
(*                                                                         *)
(* The client is an environment, as the SPEC describes it: it remembers    *)
(* the last message it has seen when a connection ends, and on the next    *)
(* one it lists what came since.  It may give up a connection long before  *)
(* the server sees the close, and open another.                            *)
(***************************************************************************)
EXTENDS Naturals, FiniteSets

CONSTANTS
  Members,     \* members of the group; nobody else passes the first check
  Connections, \* SSE connections, in no order
  Messages,    \* ids of chat messages
  NoConnection \* "no value" for connections

ASSUME NoConnectionIsNone == NoConnection \notin Connections \cup Members

VARIABLES
  registry, \* connections: member -> the registered connection
  live,     \* connections whose Subject has not completed
  sockets,  \* connections the server holds open
  joining,  \* connections whose join has not subscribed yet
  watched,  \* connections whose close event has its handler
  rows,     \* rows of chat_messages: [id, at]
  sends,    \* messages on their way: [id, at, sender, pc]
  current,  \* client: the connection a member listens to
  since,    \* client: the time of the last message seen before this connection
  caughtUp, \* client: members who have listed what they missed
  seen,     \* client: member -> messages seen
  talked,   \* history: connections ever opened, and by whom
  late,     \* history: members of whom an older connection has subscribed or
            \* closed after the one they listen to was registered
  unwatched, \* history: members with a connection closed before it was watched
  silent,   \* history: messages saved and never published
  crossed   \* history: two sends have overlapped

server == <<registry, live, sockets, joining, watched, rows, sends>>
client == <<current, since, caughtUp, seen>>
pasts == <<talked, late, unwatched, silent, crossed>>
talkVars == <<server, client, pasts>>

MessageRow == [id : Messages, at : Nat]
Send == [id : Messages, at : Nat, sender : Members,
         pc : {"save", "saved", "lookup"}]

Registered(c) == \E m \in Members : registry[m] = c
OwnerOf(c) == talked[c]
Ids(messages) == {x.id : x \in messages}
LastSeen(m) == {x.at : x \in {y \in rows : y.id \in seen[m]}}
Latest(times) == IF times = {} THEN 0
                 ELSE CHOOSE t \in times : \A u \in times : u <= t

\* The mark a client catches up from: the last message it has seen, once it
\* has caught up.  Before that a message of the stream would hide others.
Mark(m) == IF m \in caughtUp THEN Latest(LastSeen(m)) ELSE since[m]

-----------------------------------------------------------------------------
(***************************************************************************)
(* GET /short-talk/:groupId/stream.                                        *)
(***************************************************************************)
Opens(m, c) ==
  /\ talked[c] = NoConnection
  /\ talked' = [talked EXCEPT ![c] = m]
  /\ sockets' = sockets \cup {c} /\ joining' = joining \cup {c}
  /\ current' = [current EXCEPT ![m] = c]
  /\ since' = [since EXCEPT ![m] = Mark(m)]
  /\ caughtUp' = caughtUp \ {m}
  /\ UNCHANGED <<registry, live, watched, rows, sends, seen, late, unwatched,
                 silent, crossed>>

\* subscribe: the Subject of the member's older connection completes.
CompletesNothing(m) == live
CompletesExisting(m) == live \ {registry[m]}

\* The controller attaches the close handler in the same turn; a connection
\* that is already gone never fires it.
Subscribes(c) ==
  LET m == OwnerOf(c) IN
  /\ c \in joining
  /\ joining' = joining \ {c}
  /\ registry' = [registry EXCEPT ![m] = c]
  /\ live' = CompletesExisting(m) \cup {c}
  /\ watched' = IF c \in sockets THEN watched \cup {c} ELSE watched
  /\ unwatched' = IF c \in sockets THEN unwatched ELSE unwatched \cup {m}
  /\ late' = IF current[m] \in watched THEN late \cup {m} ELSE late
  /\ UNCHANGED <<sockets, rows, sends, client, talked, silent, crossed>>

JoinFails(c) ==
  /\ c \in joining
  /\ joining' = joining \ {c} /\ sockets' = sockets \ {c}
  /\ UNCHANGED <<registry, live, watched, rows, sends, client, pasts>>

\* disconnect: by member, whichever of the member's connections has closed.
DisconnectKeepsEntry(m) ==
  /\ live' = live \ {registry[m]}
  /\ UNCHANGED registry
DisconnectDropsGroup(m) ==
  /\ registry' = [n \in Members |-> NoConnection]
  /\ live' = live \ {registry[m]}
Disconnect(m) ==
  /\ registry' = [registry EXCEPT ![m] = NoConnection]
  /\ live' = live \ {registry[m]}

\* The server sees the end of a connection.
Closes(c) ==
  LET m == OwnerOf(c) IN
  /\ c \in sockets
  /\ sockets' = sockets \ {c}
  /\ watched' = watched \ {c}
  /\ IF c \in watched THEN Disconnect(m) ELSE UNCHANGED <<registry, live>>
  /\ late' = IF c \in watched /\ registry[m] # c THEN late \cup {m} ELSE late
  /\ UNCHANGED <<joining, rows, sends, client, talked, unwatched, silent,
                 crossed>>

\* cleanupClosedConnections, every five minutes: complete() does not set
\* "closed" on a Subject, so that no entry is ever found closed.
CleanupClosedConnections == UNCHANGED talkVars

\* The client gives up a connection, and the server need not know yet.
GivesUp(m) ==
  /\ current[m] # NoConnection
  /\ current' = [current EXCEPT ![m] = NoConnection]
  /\ since' = [since EXCEPT ![m] = Mark(m)]
  /\ caughtUp' = caughtUp \ {m}
  /\ UNCHANGED <<server, seen, pasts>>

-----------------------------------------------------------------------------
(***************************************************************************)
(* POST /short-talk/:groupId/messages: SendShortTalkMessageUseCase.        *)
(***************************************************************************)
Created == Ids(rows) \cup Ids(sends)

SendCreates(m, id) ==
  /\ id \notin Created
  /\ sends' = sends \cup {[id |-> id, at |-> Cardinality(Created) + 1,
                           sender |-> m, pc |-> "save"]}
  /\ crossed' = (crossed \/ sends # {})
  /\ UNCHANGED <<registry, live, sockets, joining, watched, rows, client,
                 talked, late, unwatched, silent>>

SendSaves(x) ==
  /\ x.pc = "save"
  /\ rows' = rows \cup {[id |-> x.id, at |-> x.at]}
  /\ sends' = (sends \ {x}) \cup {[x EXCEPT !.pc = "saved"]}
  /\ UNCHANGED <<registry, live, sockets, joining, watched, client, pasts>>

\* next() on every registered Subject; whoever still reads its stream sees it.
Reaches(m) == /\ registry[m] # NoConnection
              /\ registry[m] = current[m] /\ registry[m] \in live \cap sockets

Publish(x) == [m \in Members |-> IF Reaches(m) THEN seen[m] \cup {x.id}
                                 ELSE seen[m]]

\* The sender's info is in the registry, or a query must find it.
HasSenderInfo(m) == registry[m] # NoConnection

SendPublishes(x) ==
  /\ x.pc = "lookup" \/ (x.pc = "saved" /\ HasSenderInfo(x.sender))
  /\ seen' = Publish(x)
  /\ sends' = sends \ {x}
  /\ UNCHANGED <<registry, live, sockets, joining, watched, rows, current,
                 since, caughtUp, pasts>>

SendLooksUp(x) ==
  /\ x.pc = "saved" /\ ~HasSenderInfo(x.sender)
  /\ sends' = (sends \ {x}) \cup {[x EXCEPT !.pc = "lookup"]}
  /\ UNCHANGED <<registry, live, sockets, joining, watched, rows, client, pasts>>

\* The save fails and leaves nothing, or the lookup fails: the request is
\* refused, and its message stays saved and unpublished.
SendFails(x) ==
  /\ x.pc \in {"save", "lookup"}
  /\ sends' = sends \ {x}
  /\ silent' = IF x.pc = "lookup" THEN silent \cup {x.id} ELSE silent
  /\ UNCHANGED <<registry, live, sockets, joining, watched, rows, client,
                 talked, late, unwatched, crossed>>

-----------------------------------------------------------------------------
(***************************************************************************)
(* GET /short-talk/:groupId/messages?sinceId: what came after that message *)
(* in the order of creation.  A page gives the newest of it; the client    *)
(* follows the cursors, which go on without sinceId, back to what it has.  *)
(***************************************************************************)
FindListBefore(m) == {x \in rows : x.at < since[m]}
FindListSince(m) == {x \in rows : x.at > since[m]}

CatchesUp(m) ==
  /\ m \notin caughtUp /\ current[m] # NoConnection
  /\ current[m] \notin joining
  /\ seen' = [seen EXCEPT ![m] = @ \cup Ids(FindListSince(m))]
  /\ caughtUp' = caughtUp \cup {m}
  /\ UNCHANGED <<server, current, since, pasts>>

\* onModuleDestroy, or a crash: the process keeps nothing.
ServerRestarts ==
  /\ registry' = [m \in Members |-> NoConnection]
  /\ live' = {} /\ sockets' = {} /\ joining' = {} /\ watched' = {} /\ sends' = {}
  /\ silent' = silent \cup (Ids(sends) \cap Ids(rows))
  /\ UNCHANGED <<rows, client, talked, late, unwatched, crossed>>

-----------------------------------------------------------------------------
TalkInit ==
  /\ registry = [m \in Members |-> NoConnection]
  /\ live = {} /\ sockets = {} /\ joining = {} /\ watched = {}
  /\ rows = {} /\ sends = {}
  /\ current = [m \in Members |-> NoConnection]
  /\ since = [m \in Members |-> 0]
  /\ caughtUp = {} /\ seen = [m \in Members |-> {}]
  /\ talked = [c \in Connections |-> NoConnection]
  /\ late = {} /\ unwatched = {} /\ silent = {} /\ crossed = FALSE

TalkNext ==
  \/ \E m \in Members, c \in Connections : Opens(m, c)
  \/ \E c \in Connections : Subscribes(c) \/ JoinFails(c) \/ Closes(c)
  \/ \E m \in Members : GivesUp(m) \/ CatchesUp(m)
  \/ \E m \in Members, id \in Messages : SendCreates(m, id)
  \/ \E x \in sends :
       SendSaves(x) \/ SendPublishes(x) \/ SendLooksUp(x) \/ SendFails(x)
  \/ CleanupClosedConnections
  \/ ServerRestarts

TalkSpec == TalkInit /\ [][TalkNext]_talkVars

-----------------------------------------------------------------------------
TalkTypeOK ==
  /\ registry \in [Members -> Connections \cup {NoConnection}]
  /\ live \subseteq Connections /\ sockets \subseteq Connections
  /\ joining \subseteq Connections /\ watched \subseteq Connections
  /\ rows \subseteq MessageRow /\ sends \subseteq Send
  /\ current \in [Members -> Connections \cup {NoConnection}]
  /\ since \in [Members -> Nat] /\ caughtUp \subseteq Members
  /\ seen \in [Members -> SUBSET Messages]
  /\ talked \in [Connections -> Members \cup {NoConnection}]
  /\ late \subseteq Members /\ unwatched \subseteq Members
  /\ silent \subseteq Messages /\ crossed \in BOOLEAN

\* Joins, late closes, reconnects and restarts in any order leave exactly the
\* registered connections with a Subject that is not completed: what the
\* registry drops it ends, and a message reaches no stream it has dropped.
LiveIffRegistered == \A c \in Connections : c \in live <=> Registered(c)

\* A member has the entry of an open connection, unless the connection was
\* gone before its handler was attached, and the server then keeps an entry
\* that no close will remove.
NoEntryOutlivesItsSocket ==
  \A m \in Members \ unwatched :
    registry[m] # NoConnection => registry[m] \in sockets \cap watched

\* The connection a member listens to is the registered one as long as the
\* server holds it open, unless an older connection's join or close came
\* after it was registered: then the member hears nothing on an open stream.
ListenersAreRegistered ==
  \A m \in Members \ late :
    current[m] \in watched => registry[m] = current[m]

\* When no two sends overlap, a member who has connected and then listed what
\* came since has seen everything saved and not on its way, across
\* reconnects, restarts and late closes, while the entry is the member's.
NothingMissed ==
  ~crossed => \A m \in caughtUp : Reaches(m) =>
    Ids(rows) \ (Ids(sends) \cup silent) \subseteq seen[m]
=============================================================================
