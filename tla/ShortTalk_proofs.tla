--------------------------- MODULE ShortTalk_proofs ---------------------------
(***************************************************************************)
(* Proofs about ShortTalk, for every set of members, connections and       *)
(* messages.  What joins, closes, reconnects and restarts do to the        *)
(* registry does not depend on the messages: the first invariant is about  *)
(* the connections only.  The second rests on it and is about what a       *)
(* member has seen, while no two sends overlap.                            *)
(***************************************************************************)
EXTENDS ShortTalk, FiniteSetTheorems, WellFoundedInduction, TLAPS

-----------------------------------------------------------------------------
(***************************************************************************)
(* The inductive invariant: the types of the connections' variables, every *)
(* entry belongs to whoever opened its connection, a connection whose join *)
(* is under way has no entry and no handler, and the three properties.     *)
(***************************************************************************)
ConnectionTypes ==
  /\ registry \in [Members -> Connections \cup {NoConnection}]
  /\ current \in [Members -> Connections \cup {NoConnection}]
  /\ talked \in [Connections -> Members \cup {NoConnection}]
  /\ live \subseteq Connections /\ sockets \subseteq Connections
  /\ joining \subseteq Connections /\ watched \subseteq Connections

EntriesAreTheirs ==
  \A m \in Members : registry[m] # NoConnection => talked[registry[m]] = m
ListensToOwn ==
  \A m \in Members : current[m] # NoConnection => talked[current[m]] = m
OnlyOpened ==
  \A c \in sockets \cup joining \cup watched : talked[c] \in Members
JoiningIsNew == \A c \in joining : c \notin watched /\ ~Registered(c)

TalkInv ==
  /\ ConnectionTypes
  /\ EntriesAreTheirs /\ ListensToOwn /\ OnlyOpened /\ JoiningIsNew
  /\ LiveIffRegistered /\ NoEntryOutlivesItsSocket /\ ListenersAreRegistered

\* The variables the invariant reads.
connectionVars == <<registry, live, sockets, joining, watched, current,
                    talked, late, unwatched>>

\* A step that leaves the connections alone keeps the invariant.
LEMMA OtherSteps ==
  ASSUME TalkInv, UNCHANGED connectionVars
  PROVE  TalkInv'
BY DEF TalkInv, ConnectionTypes, EntriesAreTheirs, ListensToOwn, OnlyOpened,
       JoiningIsNew, Registered, LiveIffRegistered, NoEntryOutlivesItsSocket,
       ListenersAreRegistered, connectionVars

\* Nothing is connected in the beginning.
LEMMA TalkStarts == TalkInit => TalkInv
BY NoConnectionIsNone
   DEF TalkInit, TalkInv, ConnectionTypes, EntriesAreTheirs, ListensToOwn,
       OnlyOpened, JoiningIsNew, Registered, LiveIffRegistered,
       NoEntryOutlivesItsSocket, ListenersAreRegistered

-----------------------------------------------------------------------------
\* A connection that opens is in none of the sets yet.
LEMMA OpensKeeps ==
  ASSUME TalkInv, NEW m \in Members, NEW c \in Connections, Opens(m, c)
  PROVE  TalkInv'
<1> USE DEF TalkInv, Opens
<1>1. /\ c \notin sockets \cup joining \cup watched
      /\ \A n \in Members : registry[n] # c /\ current[n] # c
  BY NoConnectionIsNone DEF ConnectionTypes, EntriesAreTheirs, ListensToOwn, OnlyOpened
<1>2. ConnectionTypes'
  BY DEF ConnectionTypes
<1>3. \A d \in Connections \ {c} : talked'[d] = talked[d]
  BY DEF ConnectionTypes
<1>4. talked'[c] = m
  BY DEF ConnectionTypes
<1>5. EntriesAreTheirs'
  BY <1>1, <1>3 DEF ConnectionTypes, EntriesAreTheirs
<1>6. ListensToOwn'
  BY <1>1, <1>3, <1>4 DEF ConnectionTypes, ListensToOwn
<1>7. OnlyOpened'
  BY <1>3, <1>4 DEF ConnectionTypes, OnlyOpened
<1>8. JoiningIsNew'
  BY <1>1 DEF JoiningIsNew, Registered
<1>9. LiveIffRegistered'
  BY DEF LiveIffRegistered, Registered
<1>10. NoEntryOutlivesItsSocket'
  BY DEF NoEntryOutlivesItsSocket
<1>11. ListenersAreRegistered'
  BY <1>1 DEF ConnectionTypes, ListenersAreRegistered
<1>. QED
  BY <1>2, <1>5, <1>6, <1>7, <1>8, <1>9, <1>10, <1>11

\* Subscribing replaces the entry of the connection's owner and nobody else's.
LEMMA SubscribesKeeps ==
  ASSUME TalkInv, NEW c \in Connections, Subscribes(c)
  PROVE  TalkInv'
<1> DEFINE m == OwnerOf(c)
<1> USE DEF TalkInv, Subscribes
<1>1. m \in Members /\ talked[c] = m /\ c \in joining
  BY DEF OnlyOpened, OwnerOf
<1>2. registry' = [registry EXCEPT ![m] = c]
  OBVIOUS
<1>3. c \notin watched /\ \A n \in Members : registry[n] # c
  BY <1>1 DEF JoiningIsNew, Registered
<1>4. registry'[m] = c /\ \A n \in Members \ {m} : registry'[n] = registry[n]
  BY <1>1, <1>2 DEF ConnectionTypes
<1>5. live' = (live \ {registry[m]}) \cup {c}
  BY DEF CompletesExisting
<1>6. /\ joining' = joining \ {c}
      /\ UNCHANGED <<sockets, current, talked>>
      /\ watched' \subseteq watched \cup {c} /\ watched \subseteq watched'
  BY DEF client
<1>7. ConnectionTypes'
  BY <1>1, <1>2, <1>5, <1>6 DEF ConnectionTypes
<1>8. EntriesAreTheirs'
  BY <1>1, <1>4, <1>6 DEF EntriesAreTheirs
<1>9. ListensToOwn'
  BY <1>6 DEF ListensToOwn
<1>10. OnlyOpened'
  BY <1>1, <1>6 DEF OnlyOpened
<1>11. JoiningIsNew'
  <2> SUFFICES ASSUME NEW d \in joining'
               PROVE  d \notin watched' /\ \A n \in Members : registry'[n] # d
    BY DEF JoiningIsNew, Registered
  <2>1. d \in joining /\ d # c
    BY <1>6
  <2>2. d \notin watched /\ \A n \in Members : registry[n] # d
    BY <2>1 DEF JoiningIsNew, Registered
  <2>. QED
    BY <1>4, <1>6, <2>1, <2>2
<1>12. LiveIffRegistered'
  <2> SUFFICES ASSUME NEW d \in Connections
               PROVE  d \in live' <=> \E n \in Members : registry'[n] = d
    BY DEF LiveIffRegistered, Registered
  <2>1. d \in live <=> \E n \in Members : registry[n] = d
    BY DEF LiveIffRegistered, Registered
  <2>2. CASE d = c
    BY <1>1, <1>4, <1>5, <2>2
  <2>3. CASE d # c /\ d = registry[m]
    <3>1. d # NoConnection
      BY NoConnectionIsNone
    <3>2. \A n \in Members \ {m} : registry[n] # d
      BY <1>1, <2>3, <3>1 DEF EntriesAreTheirs
    <3>. QED
      BY <1>4, <1>5, <2>3, <3>2
  <2>4. CASE d # c /\ d # registry[m]
    BY <1>1, <1>4, <1>5, <2>1, <2>4
  <2>. QED
    BY <2>2, <2>3, <2>4
<1>13. NoEntryOutlivesItsSocket'
  <2> SUFFICES ASSUME NEW n \in Members, n \notin unwatched', registry'[n] # NoConnection
               PROVE  registry'[n] \in sockets' \cap watched'
    BY DEF NoEntryOutlivesItsSocket
  <2>1. CASE n = m
    BY <1>4, <1>6, <2>1
  <2>2. CASE n # m
    <3>1. n \notin unwatched /\ registry'[n] = registry[n]
      BY <1>4, <2>2
    <3>. QED
      BY <1>6, <3>1 DEF NoEntryOutlivesItsSocket
  <2>. QED
    BY <2>1, <2>2
<1>14. ListenersAreRegistered'
  <2> SUFFICES ASSUME NEW n \in Members, n \notin late', current'[n] \in watched'
               PROVE  registry'[n] = current'[n]
    BY DEF ListenersAreRegistered
  <2>0. n \notin late
    OBVIOUS
  <2>1. CASE n = m
    <3>1. current[m] \notin watched
      BY <2>1
    <3>. QED
      BY <1>4, <1>6, <2>1, <3>1
  <2>2. CASE n # m
    <3>1. current[n] # c
      BY <1>1, <2>2, NoConnectionIsNone DEF ListensToOwn
    <3>. QED
      BY <1>4, <1>6, <2>0, <2>2, <3>1 DEF ListenersAreRegistered
  <2>. QED
    BY <2>1, <2>2
<1>. QED
  BY <1>7, <1>8, <1>9, <1>10, <1>11, <1>12, <1>13, <1>14

\* A join that fails had no entry.
LEMMA JoinFailsKeeps ==
  ASSUME TalkInv, NEW c \in Connections, JoinFails(c)
  PROVE  TalkInv'
<1> USE DEF TalkInv, JoinFails, client, pasts
<1>1. \A n \in Members : registry[n] # c
  BY DEF JoiningIsNew, Registered
<1>2. NoEntryOutlivesItsSocket'
  BY <1>1 DEF NoEntryOutlivesItsSocket
<1>. QED
  BY <1>2 DEF ConnectionTypes, EntriesAreTheirs, ListensToOwn, OnlyOpened,
              JoiningIsNew, LiveIffRegistered, ListenersAreRegistered, Registered

\* The end of a connection removes its owner's entry, whichever it is.
LEMMA ClosesKeeps ==
  ASSUME TalkInv, NEW c \in Connections, Closes(c)
  PROVE  TalkInv'
<1> DEFINE m == OwnerOf(c)
<1> USE DEF TalkInv, Closes
<1>1. m \in Members /\ talked[c] = m
  BY DEF OnlyOpened, OwnerOf
<1>2. /\ sockets' = sockets \ {c} /\ watched' = watched \ {c}
      /\ UNCHANGED <<joining, current, talked, unwatched>>
  BY DEF client
<1>3. CASE c \notin watched
  <2>1. UNCHANGED <<registry, live, late>>
    BY <1>3
  <2>2. \A n \in Members \ unwatched : registry[n] # c \/ c = NoConnection
    BY <1>3 DEF NoEntryOutlivesItsSocket
  <2>3. NoEntryOutlivesItsSocket'
    BY <1>2, <2>1, <2>2, NoConnectionIsNone DEF NoEntryOutlivesItsSocket
  <2>. QED
    BY <1>2, <2>1, <2>3 DEF ConnectionTypes, EntriesAreTheirs, ListensToOwn,
       OnlyOpened, JoiningIsNew, LiveIffRegistered, ListenersAreRegistered, Registered
<1>4. CASE c \in watched
  <2>1. /\ registry' = [registry EXCEPT ![m] = NoConnection]
        /\ live' = live \ {registry[m]}
    BY <1>4 DEF Disconnect
  <2>2. /\ registry'[m] = NoConnection
        /\ \A n \in Members \ {m} : registry'[n] = registry[n]
    BY <1>1, <2>1 DEF ConnectionTypes
  <2>3. \A n \in Members \ {m} : registry[n] # c
    BY <1>1, NoConnectionIsNone DEF EntriesAreTheirs
  <2>4. ConnectionTypes'
    BY <1>2, <2>1 DEF ConnectionTypes
  <2>5. EntriesAreTheirs' /\ ListensToOwn' /\ OnlyOpened'
    BY <1>2, <2>2 DEF EntriesAreTheirs, ListensToOwn, OnlyOpened
  <2>6. JoiningIsNew'
    BY <1>2, <2>2, NoConnectionIsNone DEF JoiningIsNew, Registered, ConnectionTypes
  <2>7. LiveIffRegistered'
    <3> SUFFICES ASSUME NEW d \in Connections
                 PROVE  d \in live' <=> \E n \in Members : registry'[n] = d
      BY DEF LiveIffRegistered, Registered
    <3>1. d \in live <=> \E n \in Members : registry[n] = d
      BY DEF LiveIffRegistered, Registered
    <3>2. d # NoConnection
      BY NoConnectionIsNone
    <3>3. CASE d = registry[m]
      <4>1. \A n \in Members \ {m} : registry[n] # d
        BY <1>1, <3>2, <3>3 DEF EntriesAreTheirs
      <4>. QED
        BY <2>1, <2>2, <3>2, <3>3, <4>1
    <3>4. CASE d # registry[m]
      BY <2>1, <2>2, <3>1, <3>2, <3>4
    <3>. QED
      BY <3>3, <3>4
  <2>8. NoEntryOutlivesItsSocket'
    BY <1>2, <2>2, <2>3 DEF NoEntryOutlivesItsSocket
  <2>9. ListenersAreRegistered'
    <3> SUFFICES ASSUME NEW n \in Members, n \notin late', current'[n] \in watched'
                 PROVE  registry'[n] = current'[n]
      BY DEF ListenersAreRegistered
    <3>1. n \notin late /\ current[n] \in watched /\ current[n] # c
      BY <1>2
    <3>2. registry[n] = current[n]
      BY <3>1 DEF ListenersAreRegistered
    <3>3. n # m
      BY <1>4, <3>1, <3>2
    <3>. QED
      BY <1>2, <2>2, <3>2, <3>3
  <2>. QED
    BY <2>4, <2>5, <2>6, <2>7, <2>8, <2>9
<1>. QED
  BY <1>3, <1>4

\* A member who gives up a connection listens to none.
LEMMA GivesUpKeeps ==
  ASSUME TalkInv, NEW m \in Members, GivesUp(m)
  PROVE  TalkInv'
BY NoConnectionIsNone
   DEF GivesUp, server, pasts, TalkInv, ConnectionTypes, EntriesAreTheirs,
       ListensToOwn, OnlyOpened, JoiningIsNew, Registered, LiveIffRegistered,
       NoEntryOutlivesItsSocket, ListenersAreRegistered

\* A restart leaves an empty registry and no connection.
LEMMA RestartKeeps ==
  ASSUME TalkInv, ServerRestarts
  PROVE  TalkInv'
BY NoConnectionIsNone
   DEF ServerRestarts, client, TalkInv, ConnectionTypes, EntriesAreTheirs,
       ListensToOwn, OnlyOpened, JoiningIsNew, Registered, LiveIffRegistered,
       NoEntryOutlivesItsSocket, ListenersAreRegistered

\* Every step keeps the invariant: those of messages leave connections alone.
LEMMA TalkStep == TalkInv /\ [TalkNext]_talkVars => TalkInv'
<1> SUFFICES ASSUME TalkInv, [TalkNext]_talkVars PROVE TalkInv'
  OBVIOUS
<1>1. CASE \E m \in Members, c \in Connections : Opens(m, c)
  BY <1>1, OpensKeeps
<1>2. CASE \E c \in Connections : Subscribes(c) \/ JoinFails(c) \/ Closes(c)
  BY <1>2, SubscribesKeeps, JoinFailsKeeps, ClosesKeeps
<1>3. CASE \E m \in Members : GivesUp(m)
  BY <1>3, GivesUpKeeps
<1>4. CASE ServerRestarts
  BY <1>4, RestartKeeps
<1>5. CASE \E m \in Members : CatchesUp(m)
  BY <1>5, OtherSteps DEF CatchesUp, server, pasts, connectionVars
<1>6. CASE \E m \in Members, id \in Messages : SendCreates(m, id)
  BY <1>6, OtherSteps DEF SendCreates, client, connectionVars
<1>7. CASE \E x \in sends :
             SendSaves(x) \/ SendPublishes(x) \/ SendLooksUp(x) \/ SendFails(x)
  BY <1>7, OtherSteps
     DEF SendSaves, SendPublishes, SendLooksUp, SendFails, client, pasts, connectionVars
<1>8. CASE UNCHANGED talkVars
  BY <1>8, OtherSteps DEF talkVars, server, client, pasts, connectionVars
<1>. QED
  BY <1>1, <1>2, <1>3, <1>4, <1>5, <1>6, <1>7, <1>8
     DEF TalkNext, CleanupClosedConnections

-----------------------------------------------------------------------------
\* The invariant holds of every reachable state.
THEOREM TalkInvariant == TalkSpec => []TalkInv
<1>1. TalkInit => TalkInv
  BY TalkStarts
<1>2. TalkInv /\ [TalkNext]_talkVars => TalkInv'
  BY TalkStep
<1>. QED
  BY <1>1, <1>2, PTL DEF TalkSpec

\* The streams that are not completed are exactly those the registry holds,
\* in whatever order joins, closes, reconnects and restarts come.
THEOREM StreamsAreTheRegistered == TalkSpec => []LiveIffRegistered
<1>1. TalkInv => LiveIffRegistered
  BY DEF TalkInv
<1>. QED
  BY <1>1, TalkInvariant, PTL

\* An entry goes with its connection, unless that had gone before the close
\* handler was attached.
THEOREM EntriesEndWithSockets == TalkSpec => []NoEntryOutlivesItsSocket
<1>1. TalkInv => NoEntryOutlivesItsSocket
  BY DEF TalkInv
<1>. QED
  BY <1>1, TalkInvariant, PTL

\* The connection a member listens to is the registered one, unless an older
\* connection of the member subscribed or closed after it.
THEOREM ListenersStayRegistered == TalkSpec => []ListenersAreRegistered
<1>1. TalkInv => ListenersAreRegistered
  BY DEF TalkInv
<1>. QED
  BY <1>1, TalkInvariant, PTL

-----------------------------------------------------------------------------
(***************************************************************************)
(* Types.  The time of a message counts the messages before it, so that    *)
(* there are finitely many of them.                                        *)
(***************************************************************************)
TalkTypes == TalkTypeOK /\ IsFiniteSet(rows) /\ IsFiniteSet(sends)

\* The ids of finitely many records are finitely many.
LEMMA FiniteIds ==
  ASSUME NEW S, IsFiniteSet(S)
  PROVE  IsFiniteSet(Ids(S)) /\ Cardinality(Ids(S)) \in Nat
<1> DEFINE f == [x \in S |-> x.id]
<1>1. f \in Surjection(S, Ids(S))
  BY DEF Surjection, Ids
<1>. QED
  BY <1>1, FS_Surjection, FS_CardinalityType

\* A new id is one more.
LEMMA OneMoreId ==
  ASSUME NEW S, IsFiniteSet(S), NEW z, z.id \notin Ids(S)
  PROVE  /\ IsFiniteSet(S \cup {z})
         /\ Cardinality(Ids(S \cup {z})) = Cardinality(Ids(S)) + 1
<1>1. IsFiniteSet(Ids(S))
  BY FiniteIds
<1>2. Ids(S \cup {z}) = Ids(S) \cup {z.id}
  BY DEF Ids
<1>. QED
  BY <1>1, <1>2, FS_AddElement

\* Finitely many times have a last one: no other has fewer times after it.
LEMMA GreatestTime ==
  ASSUME NEW T, T \subseteq Nat, T # {}, IsFiniteSet(T)
  PROVE  Latest(T) \in T /\ \A u \in T : u <= Latest(T)
<1> DEFINE After(t) == {u \in T : u > t}
           D == {After(t) : t \in T}
<1>0. \A t \in T : After(t) \in SUBSET T
  OBVIOUS
<1>1. D \subseteq FiniteSubsetsOf(T) /\ D # {}
  <2>1. FiniteSubsetsOf(T) = SUBSET T
    BY FS_FiniteSubsetsOfFinite
  <2>2. \A e \in D : e \in SUBSET T
    BY <1>0
  <2>3. PICK t0 \in T : After(t0) \in D
    OBVIOUS
  <2>. QED
    BY <2>1, <2>2, <2>3
<1>2. IsWellFoundedOn(StrictSubsetOrdering(T), FiniteSubsetsOf(T))
  BY FS_StrictSubsetOrderingWellFounded
<1>3. PICK d \in D : \A e \in D : ~(<<e, d>> \in StrictSubsetOrdering(T))
  BY <1>1, <1>2, WFMin
<1>4. PICK t \in T : d = After(t)
  OBVIOUS
<1>5. \A u \in T : u <= t
  <2> SUFFICES ASSUME NEW u \in T, ~(u <= t) PROVE FALSE
    OBVIOUS
  <2>0. u \in Nat /\ t \in Nat /\ u > t
    OBVIOUS
  <2>1. After(u) \subseteq After(t) /\ u \in After(t) /\ u \notin After(u)
    <3>1. \A v \in T : v > u => v > t
      BY <2>0
    <3>2. ~(u > u)
      BY <2>0
    <3>. QED
      BY <2>0, <3>1, <3>2
  <2>2. <<After(u), After(t)>> \in StrictSubsetOrdering(T)
    BY <2>1 DEF StrictSubsetOrdering
  <2>. QED
    BY <1>3, <1>4, <2>2
<1>. QED
  BY <1>4, <1>5 DEF Latest

\* The marks a client keeps are times, for there are finitely many.
LEMMA MarksAreTimes ==
  ASSUME TalkTypes, NEW m \in Members
  PROVE  /\ LastSeen(m) \subseteq Nat /\ IsFiniteSet(LastSeen(m))
         /\ Latest(LastSeen(m)) \in Nat /\ Mark(m) \in Nat
<1> DEFINE R == {y \in rows : y.id \in seen[m]}
           f == [y \in R |-> y.at]
<1>1. LastSeen(m) \subseteq Nat
  BY DEF TalkTypes, TalkTypeOK, LastSeen, MessageRow
<1>2. IsFiniteSet(R)
  BY FS_Subset DEF TalkTypes
<1>3. f \in Surjection(R, LastSeen(m))
  BY DEF Surjection, LastSeen
<1>4. IsFiniteSet(LastSeen(m))
  BY <1>2, <1>3, FS_Surjection
<1>5. Latest(LastSeen(m)) \in Nat
  <2>1. CASE LastSeen(m) = {}
    BY <2>1 DEF Latest
  <2>2. CASE LastSeen(m) # {}
    BY <1>1, <1>4, <2>2, GreatestTime
  <2>. QED
    BY <2>1, <2>2
<1>. QED
  BY <1>1, <1>4, <1>5 DEF Mark, TalkTypes, TalkTypeOK

\* Putting an element in for another keeps a set finite.
LEMMA SwapFinite ==
  ASSUME NEW S, IsFiniteSet(S), NEW x, NEW y
  PROVE  IsFiniteSet(S \ {x}) /\ IsFiniteSet((S \ {x}) \cup {y})
<1>1. IsFiniteSet(S \ {x})
  BY FS_Subset
<1>. QED
  BY <1>1, FS_AddElement

LEMMA TalkTypesStart == TalkInit => TalkTypes
<1> SUFFICES ASSUME TalkInit PROVE TalkTypes
  OBVIOUS
<1>1. TalkTypeOK
  BY DEF TalkInit, TalkTypeOK
<1>2. IsFiniteSet({}) /\ rows = {} /\ sends = {}
  BY FS_EmptySet DEF TalkInit
<1>. QED
  BY <1>1, <1>2 DEF TalkTypes

LEMMA TalkTypesStep ==
  ASSUME TalkInv, TalkTypes, [TalkNext]_talkVars
  PROVE  TalkTypes'
<1> USE DEF TalkTypes
<1>1. CASE \E m \in Members, c \in Connections : Opens(m, c)
  <2>1. PICK m \in Members, c \in Connections : Opens(m, c)
    BY <1>1
  <2>2. Mark(m) \in Nat
    BY MarksAreTimes
  <2>. QED
    BY <2>1, <2>2 DEF Opens, TalkTypeOK
<1>2. CASE \E c \in Connections : Subscribes(c) \/ JoinFails(c) \/ Closes(c)
  <2>1. PICK c \in Connections : Subscribes(c) \/ JoinFails(c) \/ Closes(c)
    BY <1>2
  <2>2. \A d \in sockets \cup joining \cup watched : talked[d] \in Members
    BY DEF TalkInv, OnlyOpened
  <2>. QED
    BY <2>1, <2>2 DEF Subscribes, JoinFails, Closes, Disconnect, OwnerOf,
       CompletesExisting, client, pasts, TalkTypeOK
<1>3. CASE \E m \in Members : GivesUp(m)
  <2>1. PICK m \in Members : GivesUp(m)
    BY <1>3
  <2>2. Mark(m) \in Nat
    BY MarksAreTimes
  <2>. QED
    BY <2>1, <2>2 DEF GivesUp, server, pasts, TalkTypeOK
<1>4. CASE ServerRestarts
  BY <1>4, FS_EmptySet DEF ServerRestarts, client, TalkTypeOK, Ids, Send
<1>5. CASE \E m \in Members : CatchesUp(m)
  <2>1. PICK m \in Members : CatchesUp(m)
    BY <1>5
  <2>2. Ids(FindListSince(m)) \subseteq Messages
    BY DEF TalkTypeOK, MessageRow, Ids, FindListSince
  <2>. QED
    BY <2>1, <2>2 DEF CatchesUp, server, pasts, TalkTypeOK
<1>6. CASE \E m \in Members, id \in Messages : SendCreates(m, id)
  <2>1. PICK m \in Members, id \in Messages : SendCreates(m, id)
    BY <1>6
  <2>2. IsFiniteSet(Created) /\ Cardinality(Created) \in Nat
    BY FiniteIds, FS_Union, FS_CardinalityType DEF Created
  <2> DEFINE x == [id |-> id, at |-> Cardinality(Created) + 1,
                   sender |-> m, pc |-> "save"]
  <2>3. x \in Send
    BY <2>2 DEF Send
  <2>4. sends' = sends \cup {x}
    BY <2>1 DEF SendCreates
  <2>5. IsFiniteSet(sends')
    BY <2>4, FS_AddElement
  <2> HIDE DEF x
  <2>6. sends' \subseteq Send /\ crossed' \in BOOLEAN
    BY <2>1, <2>3, <2>4 DEF SendCreates, TalkTypeOK
  <2>. QED
    BY <2>1, <2>5, <2>6 DEF SendCreates, client, TalkTypeOK
<1>7. CASE \E x \in sends :
             SendSaves(x) \/ SendPublishes(x) \/ SendLooksUp(x) \/ SendFails(x)
  <2>1. PICK x \in sends :
          SendSaves(x) \/ SendPublishes(x) \/ SendLooksUp(x) \/ SendFails(x)
    BY <1>7
  <2>2. /\ x \in Send /\ x.id \in Messages /\ x.at \in Nat
        /\ [x EXCEPT !.pc = "saved"] \in Send /\ [x EXCEPT !.pc = "lookup"] \in Send
    BY DEF TalkTypeOK, Send
  <2>3. [id |-> x.id, at |-> x.at] \in MessageRow
    BY <2>2 DEF MessageRow
  <2>4. /\ IsFiniteSet(sends \ {x})
        /\ IsFiniteSet((sends \ {x}) \cup {[x EXCEPT !.pc = "saved"]})
        /\ IsFiniteSet((sends \ {x}) \cup {[x EXCEPT !.pc = "lookup"]})
        /\ IsFiniteSet(rows \cup {[id |-> x.id, at |-> x.at]})
    BY SwapFinite, FS_AddElement
  <2>5. CASE SendSaves(x)
    BY <2>2, <2>3, <2>4, <2>5 DEF SendSaves, client, pasts, TalkTypeOK
  <2>6. CASE SendPublishes(x)
    BY <2>2, <2>4, <2>6 DEF SendPublishes, Publish, pasts, TalkTypeOK
  <2>7. CASE SendLooksUp(x)
    BY <2>2, <2>4, <2>7 DEF SendLooksUp, client, pasts, TalkTypeOK
  <2>8. CASE SendFails(x)
    BY <2>2, <2>4, <2>8 DEF SendFails, client, TalkTypeOK
  <2>. QED
    BY <2>1, <2>5, <2>6, <2>7, <2>8
<1>8. CASE UNCHANGED talkVars
  BY <1>8 DEF talkVars, server, client, pasts, TalkTypeOK
<1>. QED
  BY <1>1, <1>2, <1>3, <1>4, <1>5, <1>6, <1>7, <1>8
     DEF TalkNext, CleanupClosedConnections

-----------------------------------------------------------------------------
(***************************************************************************)
(* What a member has seen, while no two sends overlap.  Then the times     *)
(* number the messages in the order they are saved, the one on its way is  *)
(* the newest, and what a member has seen is everything published up to    *)
(* the mark - up to the last message seen, once caught up.                 *)
(***************************************************************************)
CaughtUpAfterJoin ==
  \A m \in caughtUp : current[m] # NoConnection /\ current[m] \notin joining

SeenAreSaved == \A m \in Members : seen[m] \subseteq Ids(rows)
OneAtATime == \A x, y \in sends : x = y
TimesNumber ==
  /\ \A z \in rows : z.at >= 1 /\ z.at <= Cardinality(Ids(rows))
  /\ \A y, z \in rows : y.at = z.at => y = z
NewestOnItsWay ==
  \A x \in sends :
    IF x.pc = "save"
    THEN x.id \notin Ids(rows) /\ x.at = Cardinality(Ids(rows)) + 1
    ELSE x.id \in Ids(rows) /\ \A y, z \in rows : z.id = x.id => y.at <= z.at
MarkIsSeen ==
  \A m \in Members :
    since[m] = 0 \/ \E z \in rows : z.id \in seen[m] /\ z.at = since[m]

\* A message on its way, or one that was never published, need not be seen.
Excused == Ids(sends) \cup silent
SeenUpToMark ==
  \A m \in Members, y \in rows :
    y.at <= since[m] => y.id \in seen[m] \cup Excused
SeenUpToLast ==
  \A m \in caughtUp, y, z \in rows :
    z.id \in seen[m] /\ y.at <= z.at => y.id \in seen[m] \cup Excused
AllSeen ==
  \A m \in caughtUp : Reaches(m) =>
    \A y \in rows : y.id \in seen[m] \cup Excused

InOrder ==
  /\ SeenAreSaved /\ OneAtATime /\ TimesNumber /\ NewestOnItsWay
  /\ MarkIsSeen /\ SeenUpToMark /\ SeenUpToLast /\ AllSeen

SeenInv == CaughtUpAfterJoin /\ (~crossed => InOrder)

LEMMA SeenStarts == TalkInit => SeenInv
BY DEF TalkInit, SeenInv, CaughtUpAfterJoin, InOrder, SeenAreSaved, OneAtATime,
       TimesNumber, NewestOnItsWay, MarkIsSeen, SeenUpToMark, SeenUpToLast, AllSeen, Ids

\* Who has caught up and is reached after a join, a failed join or a close
\* was reached before it.
LEMMA ConnectionsKeepSeen ==
  ASSUME TalkInv, TalkTypes, SeenInv, NEW c \in Connections,
         Subscribes(c) \/ JoinFails(c) \/ Closes(c)
  PROVE  SeenInv'
<1> USE DEF TalkInv
<1>1. /\ UNCHANGED <<rows, sends, current, since, caughtUp, seen, silent, crossed>>
      /\ joining' \subseteq joining /\ sockets' \subseteq sockets
  BY DEF Subscribes, JoinFails, Closes, client, pasts
<1>2. ASSUME NEW m \in Members, m \in caughtUp, CaughtUpAfterJoin, Reaches(m)'
      PROVE  Reaches(m)
  <2>1. CASE Subscribes(c)
    <3> DEFINE o == OwnerOf(c)
    <3>1. o \in Members /\ c \in joining
      BY <2>1 DEF Subscribes, OnlyOpened, OwnerOf
    <3>2. registry' = [registry EXCEPT ![o] = c]
          /\ live' = (live \ {registry[o]}) \cup {c}
      BY <2>1 DEF Subscribes, CompletesExisting
    <3>3. m # o
      BY <1>1, <1>2, <3>1, <3>2 DEF ConnectionTypes, CaughtUpAfterJoin, Reaches
    <3>4. registry'[m] = registry[m] /\ registry[m] # c
      BY <3>1, <3>2, <3>3 DEF ConnectionTypes, JoiningIsNew, Registered
    <3>. QED
      BY <1>1, <1>2, <3>2, <3>4 DEF Reaches
  <2>2. CASE JoinFails(c)
    BY <1>1, <1>2, <2>2 DEF JoinFails, Reaches
  <2>3. CASE Closes(c)
    <3>1. OwnerOf(c) \in Members
      BY <2>3 DEF Closes, OnlyOpened, OwnerOf
    <3>2. registry'[m] \in {registry[m], NoConnection} /\ live' \subseteq live
      BY <2>3, <3>1 DEF Closes, Disconnect, ConnectionTypes
    <3>. QED
      BY <1>1, <1>2, <3>2 DEF Reaches
  <2>. QED
    BY <2>1, <2>2, <2>3
<1>3. CaughtUpAfterJoin'
  BY <1>1 DEF SeenInv, CaughtUpAfterJoin
<1>4. ASSUME ~crossed PROVE InOrder'
  <2>1. InOrder /\ CaughtUpAfterJoin
    BY <1>4 DEF SeenInv
  <2>2. AllSeen'
    <3> SUFFICES ASSUME NEW m \in caughtUp', Reaches(m)', NEW y \in rows'
                 PROVE  y.id \in seen'[m] \cup Excused'
      BY DEF AllSeen
    <3>1. Excused' = Excused
      BY <1>1 DEF Excused, Ids
    <3>2. m \in Members
      BY <1>1 DEF TalkTypes, TalkTypeOK
    <3>3. Reaches(m)
      BY <1>1, <1>2, <2>1, <3>2
    <3>. QED
      BY <1>1, <2>1, <3>1, <3>3 DEF InOrder, AllSeen
  <2>. QED
    BY <1>1, <2>1, <2>2
       DEF InOrder, SeenAreSaved, OneAtATime, TimesNumber, NewestOnItsWay,
           MarkIsSeen, SeenUpToMark, SeenUpToLast, Excused, Ids
<1>. QED
  BY <1>1, <1>3, <1>4 DEF SeenInv

\* A mark is zero, or the time of a message seen up to which all are seen.
LEMMA MarkKeepsSeen ==
  ASSUME TalkTypes, InOrder, NEW m \in Members
  PROVE  /\ Mark(m) = 0 \/ \E z \in rows : z.id \in seen[m] /\ z.at = Mark(m)
         /\ \A y \in rows : y.at <= Mark(m) => y.id \in seen[m] \cup Excused
<1> USE DEF InOrder
<1>1. CASE m \notin caughtUp
  BY <1>1 DEF Mark, MarkIsSeen, SeenUpToMark
<1>2. CASE m \in caughtUp /\ LastSeen(m) = {}
  <2>1. Mark(m) = 0
    BY <1>2 DEF Mark, Latest
  <2>2. \A y \in rows : y.at \in Nat /\ y.at >= 1
    BY DEF TalkTypes, TalkTypeOK, MessageRow, TimesNumber
  <2>. QED
    BY <2>1, <2>2
<1>3. CASE m \in caughtUp /\ LastSeen(m) # {}
  <2>1. Mark(m) \in LastSeen(m)
    BY <1>3, MarksAreTimes, GreatestTime DEF Mark
  <2>2. PICK z \in rows : z.id \in seen[m] /\ z.at = Mark(m)
    BY <2>1 DEF LastSeen
  <2>. QED
    BY <1>3, <2>2 DEF SeenUpToLast
<1>. QED
  BY <1>1, <1>2, <1>3

\* Whoever opens a connection or gives one up takes the mark along.
LEMMA MarksKeepSeen ==
  ASSUME TalkInv, TalkTypes, SeenInv, NEW m \in Members,
         GivesUp(m) \/ \E c \in Connections : Opens(m, c)
  PROVE  SeenInv'
<1>1. /\ UNCHANGED <<registry, live, rows, sends, seen, silent, crossed>>
      /\ since' = [since EXCEPT ![m] = Mark(m)]
      /\ caughtUp' = caughtUp \ {m} /\ caughtUp \subseteq Members
      /\ \A n \in Members \ {m} : current'[n] = current[n]
  BY DEF GivesUp, Opens, server, pasts, TalkTypes, TalkTypeOK
<1>2. since'[m] = Mark(m) /\ \A n \in Members \ {m} : since'[n] = since[n]
  BY <1>1 DEF TalkTypes, TalkTypeOK
<1>3. CaughtUpAfterJoin'
  <2>1. CASE GivesUp(m)
    BY <1>1, <2>1 DEF GivesUp, server, SeenInv, CaughtUpAfterJoin
  <2>2. CASE \E c \in Connections : Opens(m, c)
    <3>1. PICK c \in Connections : Opens(m, c)
      BY <2>2
    <3>2. \A n \in Members : current[n] # c
      BY <3>1, NoConnectionIsNone DEF Opens, TalkInv, ListensToOwn
    <3>. QED
      BY <1>1, <3>1, <3>2 DEF Opens, SeenInv, CaughtUpAfterJoin
  <2>. QED
    BY <2>1, <2>2
<1>4. ASSUME NEW n \in caughtUp', Reaches(n)'
      PROVE  Reaches(n)
  <2>1. n \in Members \ {m} /\ current'[n] = current[n] /\ registry'[n] = registry[n]
    BY <1>1
  <2>2. CASE GivesUp(m)
    BY <1>4, <2>1, <2>2 DEF GivesUp, server, Reaches
  <2>3. CASE \E c \in Connections : Opens(m, c)
    <3>1. PICK c \in Connections : Opens(m, c)
      BY <2>3
    <3>2. registry[n] # c
      BY <2>1, <3>1, NoConnectionIsNone DEF Opens, TalkInv, EntriesAreTheirs
    <3>. QED
      BY <1>4, <2>1, <3>1, <3>2 DEF Opens, Reaches
  <2>. QED
    BY <2>2, <2>3
<1>5. ASSUME ~crossed PROVE InOrder'
  <2> USE DEF InOrder
  <2>1. InOrder
    BY <1>5 DEF SeenInv
  <2>2. Excused' = Excused
    BY <1>1 DEF Excused, Ids
  <2>3. MarkIsSeen' /\ SeenUpToMark'
    <3> SUFFICES ASSUME NEW n \in Members
                 PROVE  /\ since'[n] = 0 \/ \E z \in rows : z.id \in seen[n] /\ z.at = since'[n]
                        /\ \A y \in rows : y.at <= since'[n] => y.id \in seen[n] \cup Excused
      BY <1>1, <2>2 DEF MarkIsSeen, SeenUpToMark
    <3>1. CASE n = m
      BY <1>2, <2>1, <3>1, MarkKeepsSeen
    <3>2. CASE n # m
      BY <1>2, <2>1, <3>2 DEF MarkIsSeen, SeenUpToMark
    <3>. QED
      BY <3>1, <3>2
  <2>4. SeenUpToLast'
    BY <1>1, <2>1, <2>2 DEF SeenUpToLast
  <2>5. AllSeen'
    BY <1>1, <1>4, <2>1, <2>2 DEF AllSeen
  <2>. QED
    BY <1>1, <2>1, <2>3, <2>4, <2>5
       DEF SeenAreSaved, OneAtATime, TimesNumber, NewestOnItsWay, Ids
<1>. QED
  BY <1>1, <1>3, <1>5 DEF SeenInv

\* Whoever lists what came since the mark has seen all.
LEMMA CatchingUpSees ==
  ASSUME TalkTypes, SeenInv, NEW m \in Members, CatchesUp(m)
  PROVE  SeenInv'
<1> DEFINE came == Ids(FindListSince(m))
<1>1. /\ UNCHANGED <<registry, live, sockets, joining, rows, sends, current,
                     since, silent, crossed>>
      /\ seen' = [seen EXCEPT ![m] = @ \cup came]
      /\ caughtUp' = caughtUp \cup {m} /\ caughtUp \subseteq Members
      /\ current[m] # NoConnection /\ current[m] \notin joining
  BY DEF CatchesUp, server, pasts, TalkTypes, TalkTypeOK
<1>2. seen'[m] = seen[m] \cup came /\ \A n \in Members \ {m} : seen'[n] = seen[n]
  BY <1>1 DEF TalkTypes, TalkTypeOK
<1>3. CaughtUpAfterJoin'
  BY <1>1 DEF SeenInv, CaughtUpAfterJoin
<1>4. ASSUME ~crossed PROVE InOrder'
  <2> USE DEF InOrder
  <2>1. InOrder
    BY <1>4 DEF SeenInv
  <2>2. Excused' = Excused /\ Ids(rows)' = Ids(rows)
    BY <1>1 DEF Excused, Ids
  <2>3. came \subseteq Ids(rows)
    BY DEF Ids, FindListSince
  <2>4. \A y \in rows : y.id \in seen'[m] \cup Excused
    <3> TAKE y \in rows
    <3>1. y.at \in Nat /\ since[m] \in Nat
      BY DEF TalkTypes, TalkTypeOK, MessageRow
    <3>2. CASE y.at > since[m]
      BY <1>2, <3>2 DEF FindListSince, Ids
    <3>3. CASE y.at <= since[m]
      BY <1>2, <2>1, <3>3 DEF SeenUpToMark
    <3>. QED
      BY <3>1, <3>2, <3>3
  <2> HIDE DEF came
  <2>5. SeenAreSaved'
    BY <1>2, <2>1, <2>2, <2>3 DEF SeenAreSaved
  <2>6. MarkIsSeen' /\ SeenUpToMark'
    BY <1>1, <1>2, <2>1, <2>2 DEF MarkIsSeen, SeenUpToMark
  <2>7. SeenUpToLast' /\ AllSeen'
    BY <1>1, <1>2, <2>1, <2>2, <2>4 DEF SeenUpToLast, AllSeen, Reaches
  <2>. QED
    BY <1>1, <2>1, <2>2, <2>5, <2>6, <2>7
       DEF OneAtATime, TimesNumber, NewestOnItsWay
<1>. QED
  BY <1>1, <1>3, <1>4 DEF SeenInv

\* A restart ends every stream; what was saved and on its way stays silent.
LEMMA RestartKeepsSeen ==
  ASSUME SeenInv, ServerRestarts, TalkTypes
  PROVE  SeenInv'
<1> USE DEF ServerRestarts, client
<1>1. CaughtUpAfterJoin'
  BY DEF SeenInv, CaughtUpAfterJoin
<1>2. ASSUME NEW y \in rows, y.id \in Excused PROVE y.id \in Excused'
  BY <1>2 DEF Excused, Ids
<1>3. \A m \in caughtUp : ~Reaches(m)'
  BY DEF Reaches, TalkTypes, TalkTypeOK
<1>. QED
  BY <1>1, <1>2, <1>3
     DEF SeenInv, InOrder, SeenAreSaved, OneAtATime, TimesNumber, NewestOnItsWay,
         MarkIsSeen, SeenUpToMark, SeenUpToLast, AllSeen, Ids

\* A send leaves connections and marks alone.
SendFrame == UNCHANGED <<registry, live, sockets, joining, current, since, caughtUp>>

\* Alone on its way, a new message has the number after those saved.
LEMMA CreatingKeepsSeen ==
  ASSUME SeenInv, NEW m \in Members, NEW id \in Messages, SendCreates(m, id)
  PROVE  SeenInv'
<1> DEFINE x == [id |-> id, at |-> Cardinality(Created) + 1,
                 sender |-> m, pc |-> "save"]
<1>1. /\ SendFrame /\ UNCHANGED <<rows, seen, silent>> /\ id \notin Created
      /\ sends' = sends \cup {x} /\ crossed' = (crossed \/ sends # {})
  BY DEF SendCreates, SendFrame, client
<1>2. x.id = id /\ x.at = Cardinality(Created) + 1 /\ x.pc = "save"
  OBVIOUS
<1> HIDE DEF x
<1>3. CaughtUpAfterJoin'
  BY <1>1 DEF SeenInv, CaughtUpAfterJoin, SendFrame
<1>4. ASSUME ~crossed' PROVE InOrder'
  <2> USE DEF InOrder
  <2>1. InOrder /\ sends = {} /\ sends' = {x}
    BY <1>1, <1>4 DEF SeenInv
  <2>2. Created = Ids(rows)
    BY <2>1 DEF Created, Ids
  <2>3. OneAtATime' /\ NewestOnItsWay'
    BY <1>1, <1>2, <2>1, <2>2 DEF OneAtATime, NewestOnItsWay, Ids
  <2>4. Excused \subseteq Excused'
    BY <1>1 DEF Excused, Ids
  <2>. QED
    BY <1>1, <2>1, <2>3, <2>4
       DEF SendFrame, SeenAreSaved, TimesNumber, MarkIsSeen, SeenUpToMark,
           SeenUpToLast, AllSeen, Reaches, Ids
<1>. QED
  BY <1>3, <1>4 DEF SeenInv

\* The message saved is the newest, nobody has seen it, and it is on its way.
LEMMA SavingKeepsSeen ==
  ASSUME TalkTypes, SeenInv, NEW x \in sends, SendSaves(x)
  PROVE  SeenInv'
<1> DEFINE s == [x EXCEPT !.pc = "saved"]
           r == [id |-> x.id, at |-> x.at]
<1>1. /\ SendFrame /\ UNCHANGED <<seen, silent, crossed>> /\ x.pc = "save"
      /\ rows' = rows \cup {r} /\ sends' = (sends \ {x}) \cup {s}
  BY DEF SendSaves, SendFrame, client, pasts
<1>2. r.id = x.id /\ r.at = x.at /\ s.id = x.id /\ s.pc = "saved"
  BY DEF TalkTypes, TalkTypeOK, Send
<1> HIDE DEF s, r
<1>3. CaughtUpAfterJoin'
  BY <1>1 DEF SeenInv, CaughtUpAfterJoin, SendFrame
<1>4. ASSUME ~crossed PROVE InOrder'
  <2> USE DEF InOrder
  <2>1. InOrder /\ sends = {x} /\ sends' = {s}
    BY <1>1, <1>4 DEF SeenInv, OneAtATime
  <2> DEFINE k == Cardinality(Ids(rows))
  <2>2. x.id \notin Ids(rows) /\ x.at = k + 1
    BY <1>1, <2>1 DEF NewestOnItsWay
  <2>3. /\ k \in Nat /\ Cardinality(Ids(rows)') = k + 1
        /\ Ids(rows)' = Ids(rows) \cup {x.id}
    <3>1. Cardinality(Ids(rows \cup {r})) = k + 1 /\ k \in Nat
      BY <1>2, <2>2, OneMoreId, FiniteIds DEF TalkTypes
    <3>. QED
      BY <1>1, <1>2, <3>1 DEF Ids
  <2>4. \A y \in rows : y.at \in Nat /\ y.at >= 1 /\ y.at <= k /\ y.id \in Ids(rows)
    BY <2>1 DEF TimesNumber, TalkTypes, TalkTypeOK, MessageRow, Ids
  <2> HIDE DEF k
  <2>5. TimesNumber'
    <3>1. \A z \in rows' : z.at >= 1 /\ z.at <= k + 1
      BY <1>1, <1>2, <2>2, <2>3, <2>4
    <3>2. \A y, z \in rows' : y.at = z.at => y = z
      <4>1. \A y \in rows : y.at # r.at
        BY <1>2, <2>2, <2>3, <2>4
      <4>. QED
        BY <1>1, <2>1, <4>1 DEF TimesNumber
    <3>. QED
      BY <2>3, <3>1, <3>2 DEF TimesNumber
  <2>6. OneAtATime' /\ NewestOnItsWay'
    <3>1. \A y \in rows' : y.at <= r.at
      BY <1>1, <1>2, <2>2, <2>3, <2>4
    <3>2. \A z \in rows' : z.id = s.id => z = r
      BY <1>1, <1>2, <2>2, <2>4
    <3>. QED
      BY <1>2, <2>1, <2>3, <3>1, <3>2 DEF OneAtATime, NewestOnItsWay
  <2>7. SeenAreSaved'
    BY <1>1, <2>1, <2>3 DEF SeenAreSaved
  <2>8. Excused' = Excused /\ x.id \in Excused
    BY <1>1, <1>2, <2>1 DEF Excused, Ids
  <2>9. MarkIsSeen' /\ SeenUpToMark'
    BY <1>1, <1>2, <2>1, <2>8 DEF SendFrame, MarkIsSeen, SeenUpToMark
  <2>10. AllSeen'
    BY <1>1, <1>2, <2>1, <2>8 DEF SendFrame, AllSeen, Reaches
  <2>11. SeenUpToLast'
    <3>1. \A m \in Members : x.id \notin seen[m]
      BY <2>1, <2>2 DEF SeenAreSaved
    <3>2. caughtUp \subseteq Members
      BY DEF TalkTypes, TalkTypeOK
    <3>. QED
      BY <1>1, <1>2, <2>1, <2>8, <3>1, <3>2 DEF SendFrame, SeenUpToLast
  <2>. QED
    BY <2>5, <2>6, <2>7, <2>9, <2>10, <2>11
<1>. QED
  BY <1>1, <1>3, <1>4 DEF SeenInv

\* Whoever is reached sees the newest message now; of the others nobody's
\* mark or last message is later.
LEMMA PublishingKeepsSeen ==
  ASSUME TalkTypes, SeenInv, NEW x \in sends, SendPublishes(x)
  PROVE  SeenInv'
<1>1. /\ SendFrame /\ UNCHANGED <<rows, silent, crossed>> /\ x.pc # "save"
      /\ sends' = sends \ {x}
      /\ seen' = [m \in Members |-> IF Reaches(m) THEN seen[m] \cup {x.id} ELSE seen[m]]
  BY DEF SendPublishes, Publish, SendFrame, pasts
<1>2. CaughtUpAfterJoin'
  BY <1>1 DEF SeenInv, CaughtUpAfterJoin, SendFrame
<1>3. ASSUME ~crossed PROVE InOrder'
  <2> USE DEF InOrder
  <2>1. InOrder /\ sends = {x} /\ sends' = {}
    BY <1>1, <1>3 DEF SeenInv, OneAtATime
  <2>2. /\ x.id \in Ids(rows) /\ Ids(rows)' = Ids(rows)
        /\ \A y, z \in rows : z.id = x.id => y.at <= z.at
    BY <1>1, <2>1 DEF NewestOnItsWay
  <2>3. /\ Excused = {x.id} \cup silent /\ Excused' = silent
    BY <1>1, <2>1 DEF Excused, Ids
  <2>4. \A m \in Members : /\ Reaches(m)' = Reaches(m)
                           /\ seen'[m] = IF Reaches(m) THEN seen[m] \cup {x.id} ELSE seen[m]
    BY <1>1 DEF SendFrame, Reaches
  <2>5. SeenAreSaved'
    BY <2>1, <2>2, <2>4 DEF SeenAreSaved
  <2>6. MarkIsSeen'
    BY <1>1, <2>1, <2>4 DEF SendFrame, MarkIsSeen
  <2>7. \A y \in rows : y.at \in Nat
    BY DEF TalkTypes, TalkTypeOK, MessageRow
  <2>8. SeenUpToMark'
    <3> SUFFICES ASSUME NEW m \in Members, NEW y \in rows, y.at <= since[m]
                 PROVE  y.id \in seen'[m] \cup silent
      BY <1>1, <2>3 DEF SendFrame, SeenUpToMark
    <3>1. y.id \in seen[m] \cup {x.id} \cup silent
      BY <2>1, <2>3 DEF SeenUpToMark
    <3>2. CASE y.id # x.id \/ Reaches(m)
      BY <2>4, <3>1, <3>2
    <3>3. CASE y.id = x.id /\ ~Reaches(m)
      <4>1. y.at >= 1
        BY <2>1 DEF TimesNumber
      <4>2. PICK z \in rows : z.id \in seen[m] /\ z.at = since[m]
        BY <2>1, <2>7, <4>1 DEF MarkIsSeen
      <4>3. z = y
        BY <2>1, <2>2, <2>7, <3>3, <4>2 DEF TimesNumber
      <4>. QED
        BY <2>4, <3>3, <4>2, <4>3
    <3>. QED
      BY <3>2, <3>3
  <2>9. caughtUp \subseteq Members
    BY DEF TalkTypes, TalkTypeOK
  <2>10. SeenUpToLast'
    <3> SUFFICES ASSUME NEW m \in caughtUp, NEW y \in rows, NEW z \in rows,
                        z.id \in seen'[m], y.at <= z.at
                 PROVE  y.id \in seen'[m] \cup silent
      BY <1>1, <2>3 DEF SendFrame, SeenUpToLast
    <3>1. CASE Reaches(m)
      BY <2>1, <2>3, <2>4, <2>9, <3>1 DEF AllSeen
    <3>2. CASE ~Reaches(m)
      <4>1. seen'[m] = seen[m]
        BY <2>4, <2>9, <3>2
      <4>2. y.id \in seen[m] \cup {x.id} \cup silent
        BY <2>1, <2>3, <4>1 DEF SeenUpToLast
      <4>3. CASE y.id = x.id
        <5>1. z = y
          BY <2>1, <2>2, <2>7, <4>3 DEF TimesNumber
        <5>. QED
          BY <4>1, <5>1
      <4>. QED
        BY <4>1, <4>2, <4>3
    <3>. QED
      BY <3>1, <3>2
  <2>11. AllSeen'
    BY <1>1, <2>1, <2>3, <2>4, <2>9 DEF SendFrame, AllSeen
  <2>. QED
    BY <1>1, <2>1, <2>2, <2>5, <2>6, <2>8, <2>10, <2>11
       DEF OneAtATime, TimesNumber, NewestOnItsWay
<1>. QED
  BY <1>1, <1>2, <1>3 DEF SeenInv

\* Looking the sender up changes nothing; a send that fails has saved nothing
\* or leaves its message silent.
LEMMA OtherSendsKeepSeen ==
  ASSUME TalkTypes, SeenInv, NEW x \in sends, SendLooksUp(x) \/ SendFails(x)
  PROVE  SeenInv'
<1> DEFINE l == [x EXCEPT !.pc = "lookup"]
<1>1. /\ SendFrame /\ UNCHANGED <<rows, seen, crossed>> /\ silent \subseteq silent'
      /\ \/ x.pc = "saved" /\ sends' = (sends \ {x}) \cup {l}
         \/ x.pc = "save" /\ sends' = sends \ {x}
         \/ x.id \in silent' /\ sends' = sends \ {x}
  BY DEF SendLooksUp, SendFails, SendFrame, client, pasts
<1>2. l.id = x.id /\ l.pc = "lookup"
  BY DEF TalkTypes, TalkTypeOK, Send
<1> HIDE DEF l
<1>3. CaughtUpAfterJoin'
  BY <1>1 DEF SeenInv, CaughtUpAfterJoin, SendFrame
<1>4. ASSUME ~crossed PROVE InOrder'
  <2> USE DEF InOrder
  <2>1. InOrder /\ sends = {x}
    BY <1>4 DEF SeenInv, OneAtATime
  <2>2. OneAtATime' /\ NewestOnItsWay'
    BY <1>1, <1>2, <2>1 DEF OneAtATime, NewestOnItsWay
  <2>3. \A y \in rows : y.id \in Excused => y.id \in Excused'
    <3>1. x.pc = "save" => x.id \notin Ids(rows)
      BY <2>1 DEF NewestOnItsWay
    <3>. QED
      BY <1>1, <1>2, <2>1, <3>1 DEF Excused, Ids
  <2>. QED
    BY <1>1, <2>1, <2>2, <2>3
       DEF SendFrame, SeenAreSaved, TimesNumber, MarkIsSeen, SeenUpToMark,
           SeenUpToLast, AllSeen, Reaches, Ids
<1>. QED
  BY <1>1, <1>3, <1>4 DEF SeenInv

\* Every step keeps what is known of the messages seen.
LEMMA SeenStep ==
  TalkInv /\ TalkTypes /\ SeenInv /\ [TalkNext]_talkVars => SeenInv'
<1> SUFFICES ASSUME TalkInv, TalkTypes, SeenInv, [TalkNext]_talkVars
             PROVE  SeenInv'
  OBVIOUS
<1>1. CASE \E m \in Members, c \in Connections : Opens(m, c)
  BY <1>1, MarksKeepSeen
<1>2. CASE \E c \in Connections : Subscribes(c) \/ JoinFails(c) \/ Closes(c)
  BY <1>2, ConnectionsKeepSeen
<1>3. CASE \E m \in Members : GivesUp(m) \/ CatchesUp(m)
  BY <1>3, MarksKeepSeen, CatchingUpSees
<1>4. CASE \E m \in Members, id \in Messages : SendCreates(m, id)
  BY <1>4, CreatingKeepsSeen
<1>5. CASE \E x \in sends :
             SendSaves(x) \/ SendPublishes(x) \/ SendLooksUp(x) \/ SendFails(x)
  BY <1>5, SavingKeepsSeen, PublishingKeepsSeen, OtherSendsKeepSeen
<1>6. CASE ServerRestarts
  BY <1>6, RestartKeepsSeen
<1>7. CASE UNCHANGED talkVars
  BY <1>7 DEF talkVars, server, client, pasts, SeenInv, CaughtUpAfterJoin,
     InOrder, SeenAreSaved, OneAtATime, TimesNumber, NewestOnItsWay, MarkIsSeen,
     SeenUpToMark, SeenUpToLast, AllSeen, Reaches, Excused, Ids
<1>. QED
  BY <1>1, <1>2, <1>3, <1>4, <1>5, <1>6, <1>7
     DEF TalkNext, CleanupClosedConnections

-----------------------------------------------------------------------------
\* The variables of the talk keep their types, also when sends overlap.
THEOREM TalkTypesHold == TalkSpec => [](TalkTypeOK /\ IsFiniteSet(rows \cup sends))
<1>1. TalkInit => TalkTypes
  BY TalkTypesStart
<1>2. TalkInv /\ TalkTypes /\ [TalkNext]_talkVars => TalkTypes'
  BY TalkTypesStep
<1>3. TalkTypes => TalkTypeOK /\ IsFiniteSet(rows \cup sends)
  BY FS_Union DEF TalkTypes
<1>. QED
  BY <1>1, <1>2, <1>3, TalkInvariant, PTL DEF TalkSpec

\* When no two sends overlap, a member who has connected and then listed what
\* came since has seen every message saved and published, across reconnects,
\* restarts and late closes, for as long as the registered entry is the
\* member's: SseConnectionService and the cursor by time lose nothing between
\* them.
THEOREM CaughtUpMissNothing == TalkSpec => []NothingMissed
<1>1. TalkInit => TalkTypes
  BY TalkTypesStart
<1>2. TalkInv /\ TalkTypes /\ [TalkNext]_talkVars => TalkTypes'
  BY TalkTypesStep
<1>3. TalkInit => SeenInv
  BY SeenStarts
<1>4. TalkInv /\ TalkTypes /\ SeenInv /\ [TalkNext]_talkVars => SeenInv'
  BY SeenStep
<1>5. SeenInv => NothingMissed
  BY DEF SeenInv, InOrder, AllSeen, Excused, NothingMissed, Ids
<1>. QED
  BY <1>1, <1>2, <1>3, <1>4, <1>5, TalkInvariant, PTL DEF TalkSpec

=============================================================================
