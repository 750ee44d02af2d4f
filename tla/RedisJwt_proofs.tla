---------------------------- MODULE RedisJwt_proofs ----------------------------
(***************************************************************************)
(* Proofs about RedisJwt, for every set of users, tokens and requests in   *)
(* flight and for every life of a token: the keys are well-formed, what is *)
(* revoked is refused, a session can be refreshed with its token, and its  *)
(* access token is not one that was revoked.                               *)
(***************************************************************************)
EXTENDS RedisJwt, TLAPS

-----------------------------------------------------------------------------
(***************************************************************************)
(* The inductive invariant.                                                *)
(*                                                                         *)
(* RevokedIsRejected alone is not inductive: the blacklist key is set with *)
(* a life computed a round trip earlier.  RevokedIsListed says that the    *)
(* key outlives the token, and LifeIsEnough that the life a request in     *)
(* flight carries is never shorter than what is left of the token.         *)
(*                                                                         *)
(* SessionHasItsRefreshKey rests on refresh tokens being handed out once:  *)
(* a key belongs to whoever holds its token, and a login in flight is the  *)
(* only request with its token.                                            *)
(***************************************************************************)
RevokedIsListed ==
  \A a \in revoked : now < a.exp =>
    \E b \in blackAccess : b.token = a /\ b.until >= a.exp
LifeIsEnough ==
  \A s \in Slots : ops[s].pc \in {"exec", "drop"} =>
    ops[s].ttl >= ops[s].old.exp - now

KeysAreHeld ==
  \A r \in RefreshTokens : refreshKey[r] # None =>
    held[r] # None /\ held[r].user = refreshKey[r].user
OpsAreHeld ==
  \A s \in Slots : ops[s].pc \in {"look", "exec", "drop"} =>
    /\ held[ops[s].refresh] # None
    /\ held[ops[s].refresh].user = ops[s].user
\* What a request has read or signed is a token of its user.
OpsSignForTheirUser ==
  \A s \in Slots : ops[s].pc \in {"store", "exec"} =>
    ops[s].new.user = ops[s].user
LoginsAreNew ==
  \A s \in Slots : ops[s].pc = "store" =>
    /\ held[ops[s].refresh] = None
    /\ \A t \in Slots \ {s} : ops[t] # Idle => ops[t].refresh # ops[s].refresh

\* A session that names a refresh token has an end.
NamedSessionsEnd ==
  \A u \in Users : session[u] # None /\ session[u].refresh # None =>
    session[u].expires \in Nat

RevocationInv == SessionsTypeOK /\ RevokedIsListed /\ LifeIsEnough
SessionInv ==
  /\ KeysAreHeld /\ OpsAreHeld /\ OpsSignForTheirUser /\ LoginsAreNew
  /\ NamedSessionsEnd /\ SessionHasItsRefreshKey

StoreOp == [pc : {"store"}, user : Users, refresh : RefreshTokens,
            new : AccessToken]
LookOp == [pc : {"look"}, user : Users, refresh : RefreshTokens]
ExecOp == [pc : {"exec"}, user : Users, refresh : RefreshTokens,
           old : AccessToken, new : AccessToken, ttl : Int]
DropOp == [pc : {"drop"}, user : Users, refresh : RefreshTokens,
           old : AccessToken, ttl : Int, force : BOOLEAN, refreshTtl : Int]

-----------------------------------------------------------------------------
(***************************************************************************)
(* The shape of requests.                                                  *)
(***************************************************************************)

\* A request in flight carries what the round trip it waits for needs.
LEMMA OpShapes ==
  ASSUME SessionsTypeOK, NEW s \in Slots
  PROVE  /\ ops[s].pc = "store" => ops[s] \in StoreOp
         /\ ops[s].pc = "look" => ops[s] \in LookOp
         /\ ops[s].pc = "exec" => ops[s] \in ExecOp
         /\ ops[s].pc = "drop" => ops[s] \in DropOp
         /\ ops[s] = Idle <=> ops[s].pc = "idle"
         /\ ops[s].pc \in {"store", "look", "exec", "drop", "idle"}
<1>1. ops[s] \in StoreOp \cup LookOp \cup ExecOp \cup DropOp \cup {Idle}
  BY DEF SessionsTypeOK, Op, StoreOp, LookOp, ExecOp, DropOp
<1>2. CASE ops[s] \in StoreOp
  BY <1>2 DEF StoreOp, Idle
<1>3. CASE ops[s] \in LookOp
  BY <1>3 DEF LookOp, Idle
<1>4. CASE ops[s] \in ExecOp
  BY <1>4 DEF ExecOp, Idle
<1>5. CASE ops[s] \in DropOp
  BY <1>5 DEF DropOp, Idle
<1>6. CASE ops[s] = Idle
  BY <1>6 DEF Idle
<1>. QED
  BY <1>1, <1>2, <1>3, <1>4, <1>5, <1>6

\* Signing gives an access token of the user.
LEMMA SignedTokens ==
  ASSUME SessionsTypeOK, NEW u \in Users
  PROVE  Sign(u) \in AccessToken /\ Sign(u).user = u
BY LivesArePositive DEF SessionsTypeOK, Sign, AccessToken

\* A key with a positive life is stored until its end.
LEMMA SetExAccess ==
  ASSUME SessionsTypeOK, NEW a \in AccessToken, NEW ttl \in Int
  PROVE  /\ SetEx(blackAccess, a, ttl) \subseteq BlackAccess
         /\ blackAccess \subseteq SetEx(blackAccess, a, ttl)
         /\ ttl > 0 => [token |-> a, until |-> now + ttl]
                         \in SetEx(blackAccess, a, ttl)
BY DEF SessionsTypeOK, SetEx, BlackAccess

LEMMA SetExRefresh ==
  ASSUME SessionsTypeOK, NEW r \in RefreshTokens, NEW ttl \in Int
  PROVE  SetEx(blackRefresh, r, ttl) \subseteq BlackRefresh
BY DEF SessionsTypeOK, SetEx, BlackRefresh

-----------------------------------------------------------------------------
(***************************************************************************)
(* Types.                                                                  *)
(***************************************************************************)
LEMMA TypesStart == Init => SessionsTypeOK
BY DEF Init, SessionsTypeOK

LEMMA LoginTypes ==
  ASSUME SessionsTypeOK, NEW s \in Slots, Login(s)
  PROVE  SessionsTypeOK'
<1>1. ASSUME NEW u \in Users, NEW r \in RefreshTokens, CreateTokenPair(s, u, r)
      PROVE  SessionsTypeOK'
  <2>1. [pc |-> "store", user |-> u, refresh |-> r, new |-> Sign(u)] \in Op
    BY SignedTokens DEF Op
  <2>. QED
    BY <1>1, <2>1, SignedTokens
       DEF CreateTokenPair, Starts, Signed, SessionsTypeOK, keys
<1>2. CASE StoreTokenMetadata(s)
  <2>1. ops[s] \in StoreOp
    BY <1>2, OpShapes DEF StoreTokenMetadata
  <2>2. /\ ops[s].user \in Users /\ ops[s].refresh \in RefreshTokens
        /\ ops[s].new \in AccessToken
    BY <2>1 DEF StoreOp
  <2>3. StoredPair(ops[s]) \in Session
    BY <2>2, LivesArePositive DEF StoredPair, Session, SessionsTypeOK
  <2>4. [user |-> ops[s].user, expires |-> now + RefreshLife] \in RefreshKey
    BY <2>2, LivesArePositive DEF RefreshKey, SessionsTypeOK
  <2>. QED
    BY <1>2, <2>2, <2>3, <2>4
       DEF StoreTokenMetadata, Ends, Continues, SessionsTypeOK
<1>. QED
  BY <1>1, <1>2 DEF Login

LEMMA RefreshTypes ==
  ASSUME SessionsTypeOK, NEW s \in Slots, RefreshAccessToken(s)
  PROVE  SessionsTypeOK'
<1>1. ASSUME NEW r \in RefreshTokens, RefreshReadsKey(s, r)
      PROVE  SessionsTypeOK'
  <2>1. refreshKey[r].user \in Users
    BY <1>1 DEF RefreshReadsKey, MayRefresh, SessionsTypeOK, RefreshKey
  <2>2. [pc |-> "look", user |-> refreshKey[r].user, refresh |-> r] \in Op
    BY <2>1 DEF Op
  <2>. QED
    BY <1>1, <2>2 DEF RefreshReadsKey, Starts, SessionsTypeOK, keys
<1>2. CASE RefreshReadsSession(s)
  <2> DEFINE u == ops[s].user
             old == session[u].access
  <2>1. ops[s] \in LookOp
    BY <1>2, OpShapes DEF RefreshReadsSession
  <2>2. u \in Users /\ ops[s].refresh \in RefreshTokens
    BY <2>1 DEF LookOp
  <2>3. old \in AccessToken
    BY <1>2, <2>2 DEF RefreshReadsSession, SessionsTypeOK, Session
  <2>4. RemainingLife(old) \in Int
    BY <2>3 DEF RemainingLife, AccessToken, SessionsTypeOK
  <2>5. [pc |-> "exec", user |-> u, refresh |-> ops[s].refresh, old |-> old,
         new |-> Sign(u), ttl |-> RemainingLife(old)] \in Op
    BY <2>2, <2>3, <2>4, SignedTokens DEF Op
  <2>. QED
    BY <1>2, <2>2, <2>5, SignedTokens
       DEF RefreshReadsSession, Continues, Signed, SessionsTypeOK, keys
<1>3. CASE RefreshFindsNoSession(s)
  BY <1>3 DEF RefreshFindsNoSession, Ends, Continues, SessionsTypeOK, keys
<1>4. ASSUME NEW answered \in BOOLEAN, RefreshExecutes(s, answered)
      PROVE  SessionsTypeOK'
  <2>1. ops[s] \in ExecOp
    BY <1>4, OpShapes DEF RefreshExecutes
  <2>2. /\ ops[s].user \in Users /\ ops[s].refresh \in RefreshTokens
        /\ ops[s].new \in AccessToken /\ ops[s].old \in AccessToken
        /\ ops[s].ttl \in Int
    BY <2>1 DEF ExecOp
  <2>3. WithAccess(ops[s]) \in Session
    BY <2>2 DEF WithAccess, Session, SessionsTypeOK
  <2>4. SetEx(blackAccess, ops[s].old, ops[s].ttl) \subseteq BlackAccess
    BY <2>2, SetExAccess
  <2>. QED
    BY <1>4, <2>2, <2>3, <2>4
       DEF RefreshExecutes, Ends, Continues, SessionsTypeOK
<1>. QED
  BY <1>1, <1>2, <1>3, <1>4 DEF RefreshAccessToken

LEMMA InvalidateTypes ==
  ASSUME SessionsTypeOK, NEW s \in Slots, InvalidateToken(s)
  PROVE  SessionsTypeOK'
<1>1. ASSUME NEW u \in Users, NEW r \in RefreshTokens, NEW force \in BOOLEAN,
             InvalidateReads(s, u, r, force)
      PROVE  SessionsTypeOK'
  <2>1. held[r] \in AccessToken
    BY <1>1 DEF InvalidateReads, SessionsTypeOK
  <2>2. RemainingLife(held[r]) \in Int
    BY <2>1 DEF RemainingLife, AccessToken, SessionsTypeOK
  <2>3. Ttl(r) \in Int
    BY DEF Ttl, SessionsTypeOK, RefreshKey
  <2>4. [pc |-> "drop", user |-> u, refresh |-> r, old |-> held[r],
         ttl |-> RemainingLife(held[r]), force |-> force,
         refreshTtl |-> Ttl(r)] \in Op
    BY <2>1, <2>2, <2>3 DEF Op
  <2>. QED
    BY <1>1, <2>4 DEF InvalidateReads, Starts, SessionsTypeOK, keys
<1>2. CASE InvalidateExecutes(s)
  <2>1. ops[s] \in DropOp
    BY <1>2, OpShapes DEF InvalidateExecutes
  <2>2. /\ ops[s].user \in Users /\ ops[s].refresh \in RefreshTokens
        /\ ops[s].old \in AccessToken /\ ops[s].ttl \in Int
        /\ ops[s].refreshTtl \in Int
    BY <2>1 DEF DropOp
  <2>3. SetEx(blackAccess, ops[s].old, ops[s].ttl) \subseteq BlackAccess
    BY <2>2, SetExAccess
  <2>4. SetEx(blackRefresh, ops[s].refresh, ops[s].refreshTtl) \subseteq BlackRefresh
    BY <2>2, SetExRefresh
  <2>. QED
    BY <1>2, <2>2, <2>3, <2>4
       DEF InvalidateExecutes, DeletesSession, Ends, Continues, SessionsTypeOK
<1>. QED
  BY <1>1, <1>2 DEF InvalidateToken

LEMMA TickTypes ==
  ASSUME SessionsTypeOK, Tick
  PROVE  SessionsTypeOK'
BY DEF Tick, LiveSession, SessionsTypeOK

LEMMA TypesKept ==
  ASSUME SessionsTypeOK, [Next]_vars
  PROVE  SessionsTypeOK'
<1>1. ASSUME NEW s \in Slots, ExecFails(s)
      PROVE  SessionsTypeOK'
  BY <1>1 DEF ExecFails, Ends, Continues, SessionsTypeOK, keys
<1>2. CASE UNCHANGED vars
  BY <1>2 DEF vars, keys, history, SessionsTypeOK
<1>. QED
  BY <1>1, <1>2, LoginTypes, RefreshTypes, InvalidateTypes, TickTypes
     DEF Next, Request

\* Redis keeps what the service means to keep: every key is well-formed and
\* has an end, whatever the order of the round trips.
THEOREM KeysAreWellFormed == Spec => []SessionsTypeOK
<1>1. Init => SessionsTypeOK
  BY TypesStart
<1>2. SessionsTypeOK /\ [Next]_vars => SessionsTypeOK'
  BY TypesKept
<1>. QED
  BY <1>1, <1>2, PTL DEF Spec

-----------------------------------------------------------------------------
(***************************************************************************)
(* Revocation.                                                             *)
(***************************************************************************)

\* A key set from an op's life outlives the token of the op.
LEMMA ExecListsOld ==
  ASSUME SessionsTypeOK, NEW a \in AccessToken, NEW ttl \in Int,
         ttl >= a.exp - now, now < a.exp
  PROVE  \E b \in SetEx(blackAccess, a, ttl) : b.token = a /\ b.until >= a.exp
<1> DEFINE b == [token |-> a, until |-> now + ttl]
<1>1. ttl > 0 /\ now + ttl >= a.exp
  BY DEF SessionsTypeOK, AccessToken
<1>2. b \in SetEx(blackAccess, a, ttl)
  BY <1>1, SetExAccess
<1>. QED
  BY <1>1, <1>2

\* A step that revokes what a request carries lists it.
LEMMA RevokesKeeps ==
  ASSUME SessionsTypeOK, RevokedIsListed, NEW a \in AccessToken, NEW ttl \in Int,
         ttl >= a.exp - now, revoked' = revoked \cup {a},
         blackAccess' = SetEx(blackAccess, a, ttl), now' = now
  PROVE  RevokedIsListed'
<1> SUFFICES ASSUME NEW x \in revoked', now < x.exp
             PROVE  \E b \in blackAccess' : b.token = x /\ b.until >= x.exp
  BY DEF RevokedIsListed
<1>1. CASE x = a
  BY <1>1, ExecListsOld
<1>2. CASE x # a
  <2>1. PICK b \in blackAccess : b.token = x /\ b.until >= x.exp
    BY <1>2 DEF RevokedIsListed
  <2>. QED
    BY <2>1, SetExAccess
<1>. QED
  BY <1>1, <1>2

\* A request that starts or goes on with a life computed now carries enough.
LEMMA CarriesEnough ==
  ASSUME SessionsTypeOK, LifeIsEnough, NEW s \in Slots, NEW op,
         ops' = [ops EXCEPT ![s] = op], now' = now,
         op.pc \in {"exec", "drop"} => op.ttl >= op.old.exp - now
  PROVE  LifeIsEnough'
BY DEF LifeIsEnough, SessionsTypeOK

LEMMA NothingRevoked ==
  ASSUME RevokedIsListed, UNCHANGED <<revoked, blackAccess, now>>
  PROVE  RevokedIsListed'
BY DEF RevokedIsListed

\* What is left of a token computed now is what is left of it now.
LEMMA LifeNow ==
  ASSUME SessionsTypeOK, NEW a \in AccessToken
  PROVE  RemainingLife(a) >= a.exp - now
BY DEF RemainingLife, SessionsTypeOK, AccessToken

LEMMA RequestRevokes ==
  ASSUME RevocationInv, Request
  PROVE  RevokedIsListed' /\ LifeIsEnough'
<1> USE DEF RevocationInv, keys
<1>1. ASSUME NEW s \in Slots, NEW u \in Users, NEW r \in RefreshTokens,
             CreateTokenPair(s, u, r)
      PROVE  RevokedIsListed' /\ LifeIsEnough'
  BY <1>1, CarriesEnough, NothingRevoked DEF CreateTokenPair, Starts
<1>2. ASSUME NEW s \in Slots, StoreTokenMetadata(s)
      PROVE  RevokedIsListed' /\ LifeIsEnough'
  BY <1>2, CarriesEnough, NothingRevoked
     DEF StoreTokenMetadata, Ends, Continues, Idle
<1>3. ASSUME NEW s \in Slots, NEW r \in RefreshTokens, RefreshReadsKey(s, r)
      PROVE  RevokedIsListed' /\ LifeIsEnough'
  BY <1>3, CarriesEnough, NothingRevoked DEF RefreshReadsKey, Starts
<1>4. ASSUME NEW s \in Slots, RefreshReadsSession(s)
      PROVE  RevokedIsListed' /\ LifeIsEnough'
  <2> DEFINE old == session[ops[s].user].access
  <2>1. old \in AccessToken
    BY <1>4, OpShapes DEF RefreshReadsSession, LookOp, SessionsTypeOK, Session
  <2>2. RemainingLife(old) >= old.exp - now
    BY <2>1, LifeNow
  <2>. QED
    BY <1>4, <2>2, CarriesEnough, NothingRevoked
       DEF RefreshReadsSession, Continues
<1>5. ASSUME NEW s \in Slots, RefreshFindsNoSession(s)
      PROVE  RevokedIsListed' /\ LifeIsEnough'
  BY <1>5, CarriesEnough, NothingRevoked
     DEF RefreshFindsNoSession, Ends, Continues, Idle
<1>6. ASSUME NEW s \in Slots, NEW answered \in BOOLEAN, RefreshExecutes(s, answered)
      PROVE  RevokedIsListed' /\ LifeIsEnough'
  <2>1. ops[s] \in ExecOp /\ ops[s].pc = "exec"
    BY <1>6, OpShapes DEF RefreshExecutes
  <2>2. ops[s].old \in AccessToken /\ ops[s].ttl \in Int
    BY <2>1 DEF ExecOp
  <2>3. ops[s].ttl >= ops[s].old.exp - now
    BY <2>1 DEF LifeIsEnough
  <2>4. RevokedIsListed'
    BY <1>6, <2>2, <2>3, RevokesKeeps DEF RefreshExecutes
  <2>5. LifeIsEnough'
    BY <1>6, CarriesEnough DEF RefreshExecutes, Ends, Continues, Idle
  <2>. QED
    BY <2>4, <2>5
<1>7. ASSUME NEW s \in Slots, NEW u \in Users, NEW r \in RefreshTokens,
             NEW force \in BOOLEAN, InvalidateReads(s, u, r, force)
      PROVE  RevokedIsListed' /\ LifeIsEnough'
  <2>1. held[r] \in AccessToken
    BY <1>7 DEF InvalidateReads, SessionsTypeOK
  <2>2. RemainingLife(held[r]) >= held[r].exp - now
    BY <2>1, LifeNow
  <2>. QED
    BY <1>7, <2>2, CarriesEnough, NothingRevoked DEF InvalidateReads, Starts
<1>8. ASSUME NEW s \in Slots, InvalidateExecutes(s)
      PROVE  RevokedIsListed' /\ LifeIsEnough'
  <2>1. ops[s] \in DropOp /\ ops[s].pc = "drop"
    BY <1>8, OpShapes DEF InvalidateExecutes
  <2>2. ops[s].old \in AccessToken /\ ops[s].ttl \in Int
    BY <2>1 DEF DropOp
  <2>3. ops[s].ttl >= ops[s].old.exp - now
    BY <2>1 DEF LifeIsEnough
  <2>4. RevokedIsListed'
    BY <1>8, <2>2, <2>3, RevokesKeeps DEF InvalidateExecutes
  <2>5. LifeIsEnough'
    BY <1>8, CarriesEnough DEF InvalidateExecutes, Ends, Continues, Idle
  <2>. QED
    BY <2>4, <2>5
<1>9. ASSUME NEW s \in Slots, ExecFails(s)
      PROVE  RevokedIsListed' /\ LifeIsEnough'
  BY <1>9, CarriesEnough, NothingRevoked DEF ExecFails, Ends, Continues, Idle
<1>. QED
  BY <1>1, <1>2, <1>3, <1>4, <1>5, <1>6, <1>7, <1>8, <1>9
     DEF Request, Login, RefreshAccessToken, InvalidateToken

\* Time shortens the life of tokens and keys alike.
LEMMA TickRevokes ==
  ASSUME RevocationInv, Tick
  PROVE  RevokedIsListed' /\ LifeIsEnough'
<1> USE DEF RevocationInv, Tick
<1>1. RevokedIsListed'
  <2> SUFFICES ASSUME NEW a \in revoked', now + 1 < a.exp
               PROVE  \E b \in blackAccess' : b.token = a /\ b.until >= a.exp
    BY DEF RevokedIsListed
  <2>1. a \in revoked /\ a.exp \in Nat /\ now \in Nat
    BY DEF SessionsTypeOK, AccessToken
  <2>2. PICK b \in blackAccess : b.token = a /\ b.until >= a.exp
    BY <2>1 DEF RevokedIsListed
  <2>3. b.until \in Nat
    BY DEF SessionsTypeOK, BlackAccess
  <2>. QED
    BY <2>1, <2>2, <2>3
<1>2. LifeIsEnough'
  <2> SUFFICES ASSUME NEW s \in Slots, ops[s].pc \in {"exec", "drop"}
               PROVE  ops[s].ttl >= ops[s].old.exp - (now + 1)
    BY DEF LifeIsEnough
  <2>1. ops[s].ttl \in Int /\ ops[s].old.exp \in Nat /\ now \in Nat
    BY OpShapes DEF ExecOp, DropOp, AccessToken, SessionsTypeOK
  <2>. QED
    BY <2>1 DEF LifeIsEnough
<1>. QED
  BY <1>1, <1>2

LEMMA RevocationKept ==
  ASSUME RevocationInv, [Next]_vars
  PROVE  RevocationInv'
<1>1. CASE UNCHANGED vars
  BY <1>1, TypesKept
     DEF vars, keys, history, RevocationInv, RevokedIsListed, LifeIsEnough
<1>. QED
  BY <1>1, TypesKept, RequestRevokes, TickRevokes DEF RevocationInv, Next

\* A listed token is refused while its key is there, and it is.
LEMMA ListedIsRejected == RevokedIsListed => RevokedIsRejected
BY DEF RevokedIsListed, RevokedIsRejected, Accepts, IsBlacklisted

\* An access token that a refresh or a logout has replaced is never accepted
\* again, for any lives of the tokens and any number of requests in flight.
THEOREM RevokedStaysRejected == Spec => []RevokedIsRejected
<1>1. Init => RevocationInv
  BY TypesStart
     DEF Init, RevocationInv, RevokedIsListed, LifeIsEnough, Idle
<1>2. RevocationInv /\ [Next]_vars => RevocationInv'
  BY RevocationKept
<1>3. RevocationInv => RevokedIsRejected
  BY ListedIsRejected DEF RevocationInv
<1>. QED
  BY <1>1, <1>2, <1>3, PTL DEF Spec

-----------------------------------------------------------------------------
(***************************************************************************)
(* Sessions and their refresh keys.                                        *)
(***************************************************************************)

\* Nobody takes a refresh token from its holder, and a step gives a token
\* only to the request it belongs to.
HeldGrows(s) ==
  /\ \A r \in RefreshTokens : held[r] # None =>
       held'[r] # None /\ held'[r].user = held[r].user
  /\ \A r \in RefreshTokens : held'[r] # held[r] =>
       ops[s] # Idle /\ r = ops[s].refresh

\* A request that takes the place of what was in a slot keeps the invariants
\* of requests when its token is its own.
LEMMA OpsStep ==
  ASSUME SessionsTypeOK, SessionInv, NEW s \in Slots, NEW op,
         ops' = [ops EXCEPT ![s] = op], HeldGrows(s),
         op = Idle \/ op \in Op,
         op.pc \in {"look", "exec", "drop"} =>
           /\ held'[op.refresh] # None
           /\ held'[op.refresh].user = op.user,
         op.pc \in {"store", "exec"} => op.new.user = op.user,
         op.pc = "store" =>
           /\ held'[op.refresh] = None
           /\ \A t \in Slots \ {s} : ops[t] # Idle => ops[t].refresh # op.refresh
  PROVE  OpsAreHeld' /\ OpsSignForTheirUser' /\ LoginsAreNew'
<1>1. ops'[s] = op /\ \A t \in Slots \ {s} : ops'[t] = ops[t]
  BY DEF SessionsTypeOK
<1>2. \A t \in Slots : ops[t] # Idle => ops[t].refresh \in RefreshTokens
  BY OpShapes DEF StoreOp, LookOp, ExecOp, DropOp
<1>3. /\ op # Idle => op.refresh \in RefreshTokens
      /\ op # Idle => op.pc \in {"store", "look", "exec", "drop"}
      /\ op = Idle => op.pc = "idle"
  BY DEF Op, Idle
<1>4. \A t \in Slots : ops[t].pc # "idle" => ops[t] # Idle
  BY DEF Idle
<1>5. \A t \in Slots \ {s} : ops[t].pc \in {"look", "exec", "drop"} =>
        /\ held'[ops[t].refresh] # None
        /\ held'[ops[t].refresh].user = ops[t].user
  <2> SUFFICES ASSUME NEW t \in Slots \ {s}, ops[t].pc \in {"look", "exec", "drop"}
               PROVE  /\ held'[ops[t].refresh] # None
                      /\ held'[ops[t].refresh].user = ops[t].user
    OBVIOUS
  <2>1. ops[t].refresh \in RefreshTokens
    BY <1>2, <1>4
  <2>2. held[ops[t].refresh] # None /\ held[ops[t].refresh].user = ops[t].user
    BY DEF SessionInv, OpsAreHeld
  <2>. QED
    BY <2>1, <2>2 DEF HeldGrows
<1>6. \A t \in Slots \ {s} : ops[t].pc = "store" => held'[ops[t].refresh] = None
  <2> SUFFICES ASSUME NEW t \in Slots \ {s}, ops[t].pc = "store"
               PROVE  held'[ops[t].refresh] = None
    OBVIOUS
  <2>1. ops[t].refresh \in RefreshTokens
    BY <1>2, <1>4
  <2>2. /\ held[ops[t].refresh] = None
        /\ ops[s] # Idle => ops[s].refresh # ops[t].refresh
    BY DEF SessionInv, LoginsAreNew
  <2>. QED
    BY <2>1, <2>2 DEF HeldGrows
<1>7. OpsAreHeld'
  BY <1>1, <1>5 DEF OpsAreHeld
<1>8. OpsSignForTheirUser'
  BY <1>1 DEF OpsSignForTheirUser, SessionInv
<1>9. LoginsAreNew'
  <2> SUFFICES ASSUME NEW t \in Slots, ops'[t].pc = "store"
               PROVE  /\ held'[ops'[t].refresh] = None
                      /\ \A x \in Slots \ {t} : ops'[x] # Idle =>
                           ops'[x].refresh # ops'[t].refresh
    BY DEF LoginsAreNew
  <2>1. CASE t = s
    BY <1>1, <2>1
  <2>2. CASE t # s
    <3>1. ops'[t] = ops[t] /\ held'[ops[t].refresh] = None
      BY <1>1, <1>6, <2>2
    <3>2. \A x \in Slots \ {t, s} : ops'[x] # Idle =>
            ops'[x].refresh # ops'[t].refresh
      BY <1>1, <3>1 DEF SessionInv, LoginsAreNew
    <3>3. op # Idle => op.refresh # ops[t].refresh
      BY <1>3, <1>4, <2>2, <3>1
    <3>. QED
      BY <1>1, <2>2, <3>1, <3>2, <3>3
  <2>. QED
    BY <2>1, <2>2
<1>. QED
  BY <1>7, <1>8, <1>9

\* Steps that write no key and give nobody a token.
LEMMA KeysStay ==
  ASSUME SessionInv, UNCHANGED <<session, refreshKey, held>>
  PROVE  KeysAreHeld' /\ NamedSessionsEnd' /\ SessionHasItsRefreshKey'
BY DEF SessionInv, KeysAreHeld, NamedSessionsEnd, SessionHasItsRefreshKey

LEMMA HeldStays ==
  ASSUME NEW s \in Slots, UNCHANGED held
  PROVE  HeldGrows(s)
BY DEF HeldGrows

\* A request that ends leaves the others as they were.
LEMMA EndsKeeps ==
  ASSUME SessionsTypeOK, SessionInv, NEW s \in Slots, Ends(s), HeldGrows(s)
  PROVE  OpsAreHeld' /\ OpsSignForTheirUser' /\ LoginsAreNew'
BY OpsStep, Idle.pc = "idle" DEF Ends, Continues, Idle

LEMMA LoginKeeps ==
  ASSUME SessionsTypeOK, SessionInv, NEW s \in Slots, Login(s)
  PROVE  SessionInv'
<1>1. ASSUME NEW u \in Users, NEW r \in RefreshTokens, CreateTokenPair(s, u, r)
      PROVE  SessionInv'
  <2> DEFINE op == [pc |-> "store", user |-> u, refresh |-> r, new |-> Sign(u)]
  <2>1. op \in Op
    BY SignedTokens DEF Op
  <2>2. ops' = [ops EXCEPT ![s] = op] /\ UNCHANGED <<session, refreshKey, held>>
    BY <1>1 DEF CreateTokenPair, Starts, keys
  <2>3. /\ held'[r] = None /\ Sign(u).user = u
        /\ \A t \in Slots \ {s} : ops[t] # Idle => ops[t].refresh # r
    BY <1>1, <2>2, SignedTokens DEF CreateTokenPair
  <2>4. OpsAreHeld' /\ OpsSignForTheirUser' /\ LoginsAreNew'
    BY <2>1, <2>2, <2>3, HeldStays, OpsStep
  <2>. QED
    BY <2>2, <2>4, KeysStay DEF SessionInv
<1>2. CASE StoreTokenMetadata(s)
  <2> DEFINE op == ops[s]
             r == op.refresh
  <2>1. op \in StoreOp /\ op.pc = "store" /\ op # Idle
    BY <1>2, OpShapes DEF StoreTokenMetadata, Idle
  <2>2. /\ op.user \in Users /\ r \in RefreshTokens
        /\ op.new \in AccessToken /\ op.new.user = op.user
    BY <2>1 DEF StoreOp, SessionInv, OpsSignForTheirUser
  <2>3. held[r] = None /\ refreshKey[r] = None
    BY <2>1, <2>2 DEF SessionInv, LoginsAreNew, KeysAreHeld
  <2>4. /\ held'[r] = op.new
        /\ \A x \in RefreshTokens \ {r} : held'[x] = held[x]
    BY <1>2, <2>2 DEF StoreTokenMetadata, SessionsTypeOK
  <2>5. /\ refreshKey'[r] = [user |-> op.user, expires |-> now + RefreshLife]
        /\ \A x \in RefreshTokens \ {r} : refreshKey'[x] = refreshKey[x]
    BY <1>2, <2>2 DEF StoreTokenMetadata, SessionsTypeOK
  <2>6. /\ session'[op.user] = StoredPair(op)
        /\ \A u \in Users \ {op.user} : session'[u] = session[u]
    BY <1>2, <2>2 DEF StoreTokenMetadata, SessionsTypeOK
  <2>7. HeldGrows(s)
    BY <2>1, <2>3, <2>4 DEF HeldGrows
  <2>8. OpsAreHeld' /\ OpsSignForTheirUser' /\ LoginsAreNew'
    BY <1>2, <2>7, EndsKeeps DEF StoreTokenMetadata
  <2>9. KeysAreHeld'
    BY <2>2, <2>4, <2>5, NoneIsNoValue DEF SessionInv, KeysAreHeld
  <2>10. SessionHasItsRefreshKey'
    <3> SUFFICES ASSUME NEW u \in Users, session'[u] # None
                 PROVE  IF session'[u].refresh = None THEN session'[u].expires = None
                        ELSE refreshKey'[session'[u].refresh]
                               = [user |-> u, expires |-> session'[u].expires]
      BY DEF SessionHasItsRefreshKey
    <3>1. CASE u = op.user
      BY <2>2, <2>5, <2>6, <3>1, NoneIsNoValue DEF StoredPair
    <3>2. CASE u # op.user
      <4>1. session'[u] = session[u] /\ session[u] \in Session /\ session[u] # None
        BY <2>6, <3>2 DEF SessionsTypeOK
      <4>2. IF session[u].refresh = None THEN session[u].expires = None
            ELSE refreshKey[session[u].refresh]
                   = [user |-> u, expires |-> session[u].expires]
        BY <4>1 DEF SessionInv, SessionHasItsRefreshKey
      <4>3. CASE session[u].refresh = None
        BY <4>1, <4>2, <4>3
      <4>4. CASE session[u].refresh # None
        <5>1. session[u].refresh \in RefreshTokens
          BY <4>1, <4>4 DEF Session
        <5>2. refreshKey[session[u].refresh] # None
          <6>1. session[u].expires \in Nat
            BY <4>1, <4>4 DEF SessionInv, NamedSessionsEnd, Session, SessionsTypeOK
          <6>2. [user |-> u, expires |-> session[u].expires] \in RefreshKey
            BY <6>1 DEF RefreshKey
          <6>. QED
            BY <4>2, <4>4, <6>2, NoneIsNoValue
        <5>. QED
          BY <2>3, <2>5, <4>1, <4>2, <4>4, <5>1, <5>2
      <4>. QED
        BY <4>3, <4>4
    <3>. QED
      BY <3>1, <3>2
  <2>11. NamedSessionsEnd'
    BY <2>6, LivesArePositive
       DEF StoredPair, SessionInv, NamedSessionsEnd, SessionsTypeOK
  <2>. QED
    BY <2>8, <2>9, <2>10, <2>11 DEF SessionInv
<1>. QED
  BY <1>1, <1>2 DEF Login

LEMMA RefreshKeeps ==
  ASSUME SessionsTypeOK, SessionInv, NEW s \in Slots, RefreshAccessToken(s)
  PROVE  SessionInv'
<1>1. ASSUME NEW r \in RefreshTokens, RefreshReadsKey(s, r)
      PROVE  SessionInv'
  <2> DEFINE op == [pc |-> "look", user |-> refreshKey[r].user, refresh |-> r]
  <2>1. refreshKey[r] # None /\ refreshKey[r].user \in Users
    BY <1>1 DEF RefreshReadsKey, MayRefresh, SessionsTypeOK, RefreshKey
  <2>2. op \in Op
    BY <2>1 DEF Op
  <2>3. ops' = [ops EXCEPT ![s] = op] /\ UNCHANGED <<session, refreshKey, held>>
    BY <1>1 DEF RefreshReadsKey, Starts, keys
  <2>4. held'[r] # None /\ held'[r].user = refreshKey[r].user
    BY <2>1, <2>3 DEF SessionInv, KeysAreHeld
  <2>5. OpsAreHeld' /\ OpsSignForTheirUser' /\ LoginsAreNew'
    BY <2>2, <2>3, <2>4, HeldStays, OpsStep
  <2>. QED
    BY <2>3, <2>5, KeysStay DEF SessionInv
<1>2. CASE RefreshReadsSession(s)
  <2> DEFINE u == ops[s].user
             old == session[u].access
             op == [pc |-> "exec", user |-> u, refresh |-> ops[s].refresh,
                    old |-> old, new |-> Sign(u), ttl |-> RemainingLife(old)]
  <2>1. ops[s] \in LookOp /\ ops[s].pc = "look"
    BY <1>2, OpShapes DEF RefreshReadsSession
  <2>2. u \in Users /\ ops[s].refresh \in RefreshTokens
    BY <2>1 DEF LookOp
  <2>3. old \in AccessToken
    BY <1>2, <2>2 DEF RefreshReadsSession, SessionsTypeOK, Session
  <2>4. op \in Op
    BY <2>2, <2>3, SignedTokens DEF Op, RemainingLife, AccessToken, SessionsTypeOK
  <2>5. ops' = [ops EXCEPT ![s] = op] /\ UNCHANGED <<session, refreshKey, held>>
    BY <1>2 DEF RefreshReadsSession, Continues, keys
  <2>6. held'[op.refresh] # None /\ held'[op.refresh].user = u
    BY <2>1, <2>5 DEF SessionInv, OpsAreHeld
  <2>7. op.new.user = u
    BY <2>2, SignedTokens
  <2>8. OpsAreHeld' /\ OpsSignForTheirUser' /\ LoginsAreNew'
    BY <2>4, <2>5, <2>6, <2>7, HeldStays, OpsStep
  <2>. QED
    BY <2>5, <2>8, KeysStay DEF SessionInv
<1>3. CASE RefreshFindsNoSession(s)
  <2>1. Ends(s) /\ UNCHANGED <<session, refreshKey, held>>
    BY <1>3 DEF RefreshFindsNoSession, keys
  <2>. QED
    BY <2>1, EndsKeeps, HeldStays, KeysStay DEF SessionInv
<1>4. ASSUME NEW answered \in BOOLEAN, RefreshExecutes(s, answered)
      PROVE  SessionInv'
  <2> DEFINE op == ops[s]
             u == op.user
             r == op.refresh
  <2>1. op \in ExecOp /\ op.pc = "exec" /\ op # Idle
    BY <1>4, OpShapes DEF RefreshExecutes, Idle
  <2>2. /\ u \in Users /\ r \in RefreshTokens
        /\ op.new \in AccessToken /\ op.new.user = u
        /\ held[r] # None /\ held[r].user = u
    BY <2>1 DEF ExecOp, SessionInv, OpsSignForTheirUser, OpsAreHeld
  <2>3. /\ Ends(s) /\ refreshKey' = refreshKey
        /\ session' = [session EXCEPT ![u] = WithAccess(op)]
        /\ held' = [held EXCEPT ![r] = op.new] \/ held' = held
    BY <1>4 DEF RefreshExecutes
  <2>4. op.new # None
    BY <2>2, NoneIsNoValue
  <2>5. HeldGrows(s)
    BY <2>1, <2>2, <2>3, <2>4 DEF HeldGrows, SessionsTypeOK
  <2>6. OpsAreHeld' /\ OpsSignForTheirUser' /\ LoginsAreNew'
    BY <2>3, <2>5, EndsKeeps
  <2>7. KeysAreHeld'
    BY <2>3, <2>5 DEF SessionInv, KeysAreHeld, HeldGrows
  <2>8. /\ \A v \in Users \ {u} : session'[v] = session[v]
        /\ session[u] = None => session'[u].refresh = None /\ session'[u].expires = None
        /\ session[u] # None => /\ session'[u].refresh = session[u].refresh
                                /\ session'[u].expires = session[u].expires
    <3>1. session'[u] = WithAccess(op) /\ \A v \in Users \ {u} : session'[v] = session[v]
      BY <2>2, <2>3 DEF SessionsTypeOK
    <3>2. session[u] \in Session \cup {None}
      BY <2>2 DEF SessionsTypeOK
    <3>. QED
      BY <3>1, <3>2 DEF WithAccess, Session
  <2>9. NamedSessionsEnd' /\ SessionHasItsRefreshKey'
    BY <2>2, <2>3, <2>8 DEF SessionInv, NamedSessionsEnd, SessionHasItsRefreshKey
  <2>. QED
    BY <2>6, <2>7, <2>9 DEF SessionInv
<1>. QED
  BY <1>1, <1>2, <1>3, <1>4 DEF RefreshAccessToken

LEMMA InvalidateKeeps ==
  ASSUME SessionsTypeOK, SessionInv, NEW s \in Slots, InvalidateToken(s)
  PROVE  SessionInv'
<1>1. ASSUME NEW u \in Users, NEW r \in RefreshTokens, NEW force \in BOOLEAN,
             InvalidateReads(s, u, r, force)
      PROVE  SessionInv'
  <2> DEFINE op == [pc |-> "drop", user |-> u, refresh |-> r, old |-> held[r],
                    ttl |-> RemainingLife(held[r]), force |-> force,
                    refreshTtl |-> Ttl(r)]
  <2>1. held[r] \in AccessToken
    BY <1>1 DEF InvalidateReads, SessionsTypeOK
  <2>2. Ttl(r) \in Int
    BY DEF Ttl, SessionsTypeOK, RefreshKey
  <2>3. op \in Op
    BY <2>1, <2>2 DEF Op, RemainingLife, AccessToken, SessionsTypeOK
  <2>4. ops' = [ops EXCEPT ![s] = op] /\ UNCHANGED <<session, refreshKey, held>>
    BY <1>1 DEF InvalidateReads, Starts, keys
  <2>5. held'[r] # None /\ held'[r].user = u
    BY <1>1, <2>4 DEF InvalidateReads
  <2>6. OpsAreHeld' /\ OpsSignForTheirUser' /\ LoginsAreNew'
    BY <2>3, <2>4, <2>5, HeldStays, OpsStep
  <2>. QED
    BY <2>4, <2>6, KeysStay DEF SessionInv
<1>2. CASE InvalidateExecutes(s)
  <2> DEFINE op == ops[s]
             u == op.user
             r == op.refresh
  <2>1. op \in DropOp /\ op.pc = "drop"
    BY <1>2, OpShapes DEF InvalidateExecutes
  <2>2. u \in Users /\ r \in RefreshTokens /\ held[r] # None /\ held[r].user = u
    BY <2>1 DEF DropOp, SessionInv, OpsAreHeld
  <2>3. Ends(s) /\ held' = held
    BY <1>2 DEF InvalidateExecutes
  <2>4. session'[u] = None /\ \A v \in Users \ {u} : session'[v] = session[v]
    BY <1>2, <2>2 DEF InvalidateExecutes, DeletesSession, SessionsTypeOK
  <2>5. /\ refreshKey'[r] = None
        /\ \A x \in RefreshTokens \ {r} : refreshKey'[x] = refreshKey[x]
    BY <1>2, <2>2 DEF InvalidateExecutes, SessionsTypeOK
  <2>6. OpsAreHeld' /\ OpsSignForTheirUser' /\ LoginsAreNew'
    BY <2>3, EndsKeeps, HeldStays
  <2>7. KeysAreHeld'
    BY <2>3, <2>5 DEF SessionInv, KeysAreHeld
  <2>8. NamedSessionsEnd'
    BY <2>4 DEF SessionInv, NamedSessionsEnd
  <2>9. SessionHasItsRefreshKey'
    <3> SUFFICES ASSUME NEW v \in Users, session'[v] # None
                 PROVE  IF session'[v].refresh = None THEN session'[v].expires = None
                        ELSE refreshKey'[session'[v].refresh]
                               = [user |-> v, expires |-> session'[v].expires]
      BY DEF SessionHasItsRefreshKey
    <3>1. v # u /\ session'[v] = session[v] /\ session[v] \in Session
      BY <2>4 DEF SessionsTypeOK
    <3>2. IF session[v].refresh = None THEN session[v].expires = None
          ELSE refreshKey[session[v].refresh]
                 = [user |-> v, expires |-> session[v].expires]
      BY <3>1 DEF SessionInv, SessionHasItsRefreshKey
    <3>3. CASE session[v].refresh = None
      BY <3>1, <3>2, <3>3
    <3>4. CASE session[v].refresh # None
      <4>1. session[v].refresh \in RefreshTokens
        BY <3>1, <3>4 DEF Session
      <4>2. session[v].expires \in Nat
        BY <3>1, <3>4 DEF SessionInv, NamedSessionsEnd
      <4>3. refreshKey[session[v].refresh] # None
        BY <3>2, <3>4, <4>2, NoneIsNoValue DEF RefreshKey
      <4>4. refreshKey[session[v].refresh].user = v
        BY <3>2, <3>4
      <4>5. session[v].refresh # r
        BY <2>2, <3>1, <4>1, <4>3, <4>4 DEF SessionInv, KeysAreHeld
      <4>. QED
        BY <2>5, <3>1, <3>2, <3>4, <4>1, <4>5
    <3>. QED
      BY <3>3, <3>4
  <2>. QED
    BY <2>6, <2>7, <2>8, <2>9 DEF SessionInv
<1>. QED
  BY <1>1, <1>2 DEF InvalidateToken

\* A session and the key it names have the same end and go together.
LEMMA TickKeeps ==
  ASSUME SessionsTypeOK, SessionInv, Tick
  PROVE  SessionInv'
<1> USE DEF SessionInv
<1>1. UNCHANGED <<held, ops>>
  BY DEF Tick
<1>2. OpsAreHeld' /\ OpsSignForTheirUser' /\ LoginsAreNew'
  BY <1>1 DEF OpsAreHeld, OpsSignForTheirUser, LoginsAreNew
<1>3. \A r \in RefreshTokens :
        refreshKey'[r] = IF refreshKey[r] # None /\ now + 1 < refreshKey[r].expires
                         THEN refreshKey[r] ELSE None
  BY DEF Tick
<1>4. \A u \in Users :
        session'[u] = IF LiveSession(session[u]) THEN session[u] ELSE None
  BY DEF Tick
<1>5. KeysAreHeld'
  BY <1>1, <1>3 DEF KeysAreHeld
<1>6. NamedSessionsEnd'
  BY <1>4 DEF NamedSessionsEnd, LiveSession
<1>7. SessionHasItsRefreshKey'
  <2> SUFFICES ASSUME NEW u \in Users, session'[u] # None
               PROVE  IF session'[u].refresh = None THEN session'[u].expires = None
                      ELSE refreshKey'[session'[u].refresh]
                             = [user |-> u, expires |-> session'[u].expires]
    BY DEF SessionHasItsRefreshKey
  <2>1. session'[u] = session[u] /\ LiveSession(session[u]) /\ session[u] \in Session
    BY <1>4 DEF SessionsTypeOK
  <2>2. IF session[u].refresh = None THEN session[u].expires = None
        ELSE refreshKey[session[u].refresh]
               = [user |-> u, expires |-> session[u].expires]
    BY <2>1 DEF SessionHasItsRefreshKey
  <2>3. CASE session[u].refresh = None
    BY <2>1, <2>2, <2>3
  <2>4. CASE session[u].refresh # None
    <3>1. session[u].refresh \in RefreshTokens /\ session[u].expires \in Nat
      BY <2>1, <2>4 DEF Session, NamedSessionsEnd
    <3>2. now + 1 < session[u].expires
      BY <2>1, <3>1, NoneIsNoValue DEF LiveSession
    <3>3. refreshKey[session[u].refresh] # None
      BY <2>2, <2>4, <3>1, NoneIsNoValue DEF RefreshKey
    <3>4. refreshKey[session[u].refresh].expires = session[u].expires
      BY <2>2, <2>4
    <3>. QED
      BY <1>3, <2>1, <2>2, <2>4, <3>1, <3>2, <3>3, <3>4
  <2>. QED
    BY <2>3, <2>4
<1>. QED
  BY <1>2, <1>5, <1>6, <1>7

LEMMA SessionsKept ==
  ASSUME SessionsTypeOK, SessionInv, [Next]_vars
  PROVE  SessionInv'
<1>1. ASSUME NEW s \in Slots, ExecFails(s)
      PROVE  SessionInv'
  <2>1. Ends(s) /\ UNCHANGED <<session, refreshKey, held>>
    BY <1>1 DEF ExecFails, keys
  <2>. QED
    BY <2>1, EndsKeeps, HeldStays, KeysStay DEF SessionInv
<1>2. CASE UNCHANGED vars
  BY <1>2 DEF vars, keys, SessionInv, KeysAreHeld, OpsAreHeld,
              OpsSignForTheirUser, LoginsAreNew, NamedSessionsEnd,
              SessionHasItsRefreshKey
<1>. QED
  BY <1>1, <1>2, LoginKeeps, RefreshKeeps, InvalidateKeeps, TickKeeps
     DEF Next, Request

LEMMA SessionsStart == Init => SessionInv
BY DEF Init, SessionInv, KeysAreHeld, OpsAreHeld, OpsSignForTheirUser,
       LoginsAreNew, NamedSessionsEnd, SessionHasItsRefreshKey, Idle

\* While a session names a refresh token the key of that token is there, is
\* its user's and ends with it, however logins, refreshes, logouts and lost
\* writes of the user interleave.
THEOREM SessionsCanBeRefreshed == Spec => []SessionHasItsRefreshKey
<1>1. Init => SessionInv
  BY SessionsStart
<1>2. SessionsTypeOK /\ SessionInv /\ [Next]_vars => SessionInv'
  BY SessionsKept
<1>3. SessionInv => SessionHasItsRefreshKey
  BY DEF SessionInv
<1>. QED
  BY <1>1, <1>2, <1>3, KeysAreWellFormed, PTL DEF Spec

-----------------------------------------------------------------------------
(***************************************************************************)
(* The access tokens of sessions.                                          *)
(*                                                                         *)
(* SessionTokenIsUsable rests on tokens being signed once: while one is on *)
(* its way to its first write nothing else has it, so what a write revokes *)
(* is never what another has just put into a session.  A second signature  *)
(* in the same second is the exception; "issued" remembers who was first.  *)
(***************************************************************************)
InUse(a) ==
  \/ \E u \in Users : session[u] # None /\ session[u].access = a
  \/ \E r \in RefreshTokens : held[r] = a
  \/ \E s \in Slots : ops[s].pc \in {"exec", "drop"} /\ ops[s].old = a
  \/ IsBlacklisted(blackAccess, a)
Carries(s, a) == ops[s].pc \in {"store", "exec"} /\ ops[s].new = a

IssuedFirst ==
  \A a \in AccessToken :
    now < a.exp /\ (InUse(a) \/ \E s \in Slots : Carries(s, a)) => a \in issued
CarriedOnce ==
  \A s \in Slots : \A a \in AccessToken \ collided : Carries(s, a) /\ now < a.exp =>
    ~InUse(a) /\ \A t \in Slots \ {s} : ~Carries(t, a)
SessionsAreOwn == \A u \in Users : session[u] # None => session[u].access.user = u
RevokedAreOwn ==
  \A s \in Slots : ops[s].pc \in {"exec", "drop"} => ops[s].old.user = ops[s].user

UsableInv ==
  /\ IssuedFirst /\ CarriedOnce /\ SessionsAreOwn /\ RevokedAreOwn
  /\ SessionTokenIsUsable

\* A step that signs nothing: what comes into use was carried by its request.
LEMMA MovingKeeps ==
  ASSUME IssuedFirst, CarriedOnce, NEW s \in Slots, UNCHANGED <<now, issued, collided>>,
         \A t \in Slots : \A a \in AccessToken : Carries(t, a)' => Carries(t, a),
         \A a \in AccessToken : InUse(a)' => InUse(a) \/ (Carries(s, a) /\ ~Carries(s, a)')
  PROVE  IssuedFirst' /\ CarriedOnce'
<1>1. IssuedFirst'
  BY DEF IssuedFirst
<1>2. CarriedOnce'
  <2>. SUFFICES ASSUME NEW t \in Slots, NEW a \in AccessToken \ collided, Carries(t, a)',
                       now < a.exp
                PROVE  ~InUse(a)' /\ \A r \in Slots \ {t} : ~Carries(r, a)'
    BY DEF CarriedOnce
  <2>1. Carries(t, a) /\ ~InUse(a) /\ \A r \in Slots \ {t} : ~Carries(r, a)
    BY DEF CarriedOnce
  <2>. QED
    BY <2>1
<1>. QED
  BY <1>1, <1>2

\* A step that signs a token: it is new, or it has been signed twice.
LEMMA SigningKeeps ==
  ASSUME SessionsTypeOK, IssuedFirst, CarriedOnce, NEW s \in Slots, NEW u \in Users,
         Signed(Sign(u)), now' = now,
         \A t \in Slots : \A a \in AccessToken :
           Carries(t, a)' => Carries(t, a) \/ (t = s /\ a = Sign(u)),
         \A a \in AccessToken : InUse(a)' => InUse(a)
  PROVE  IssuedFirst' /\ CarriedOnce'
<1>1. IssuedFirst'
  BY DEF IssuedFirst, Signed
<1>2. CarriedOnce'
  <2>. SUFFICES ASSUME NEW t \in Slots, NEW a \in AccessToken, a \notin collided',
                       Carries(t, a)', now < a.exp
                PROVE  ~InUse(a)' /\ \A r \in Slots \ {t} : ~Carries(r, a)'
    BY DEF CarriedOnce
  <2>1. a \notin collided /\ (a = Sign(u) => a \notin issued)
    BY DEF Signed
  <2>2. CASE a = Sign(u)
    BY <2>1, <2>2 DEF IssuedFirst
  <2>3. CASE a # Sign(u)
    BY <2>1, <2>3 DEF CarriedOnce
  <2>. QED
    BY <2>2, <2>3
<1>. QED
  BY <1>1, <1>2

\* A session that keeps its token keeps a usable one, unless the step lists it.
LEMMA UsableStays ==
  ASSUME SessionTokenIsUsable, now' = now, collided \subseteq collided', NEW u \in Users,
         session[u] # None, session'[u].access = session[u].access,
         IsBlacklisted(blackAccess', session[u].access)
           => IsBlacklisted(blackAccess, session[u].access)
  PROVE  \/ ~IsBlacklisted(blackAccess', session'[u].access)
         \/ now' >= session'[u].access.exp
         \/ session'[u].access \in collided'
BY DEF SessionTokenIsUsable

\* What a write lists is the token it was given.
LEMMA ListsOnly ==
  ASSUME NEW blacklist, NEW a, NEW ttl, NEW x, IsBlacklisted(SetEx(blacklist, a, ttl), x)
  PROVE  x = a \/ IsBlacklisted(blacklist, x)
BY DEF SetEx, IsBlacklisted

\* A step that leaves the sessions and the blacklist alone.
LEMMA SessionsLeft ==
  ASSUME UsableInv, UNCHANGED <<session, blackAccess, now>>, collided \subseteq collided'
  PROVE  SessionsAreOwn' /\ SessionTokenIsUsable'
BY DEF UsableInv, SessionsAreOwn, SessionTokenIsUsable

\* A request that takes the place of what was in a slot.
LEMMA SlotStep ==
  ASSUME SessionsTypeOK, RevokedAreOwn, NEW s \in Slots, NEW op, Continues(s, op),
         op.pc \in {"exec", "drop"} => op.old.user = op.user
  PROVE  /\ ops'[s] = op /\ \A t \in Slots \ {s} : ops'[t] = ops[t]
         /\ RevokedAreOwn'
<1>1. ops'[s] = op /\ \A t \in Slots \ {s} : ops'[t] = ops[t]
  BY DEF SessionsTypeOK, Continues
<1>. QED
  BY <1>1 DEF RevokedAreOwn

LEMMA LoginUsable ==
  ASSUME SessionsTypeOK, SessionInv, UsableInv, NEW s \in Slots, Login(s)
  PROVE  UsableInv'
<1>. USE DEF UsableInv
<1>1. ASSUME NEW u \in Users, NEW r \in RefreshTokens, CreateTokenPair(s, u, r)
      PROVE  UsableInv'
  <2>. DEFINE op == [pc |-> "store", user |-> u, refresh |-> r, new |-> Sign(u)]
  <2>1. /\ ops[s] = Idle /\ Continues(s, op) /\ Signed(Sign(u))
        /\ UNCHANGED <<session, blackAccess, held, now>>
    BY <1>1 DEF CreateTokenPair, Starts, Continues, keys
  <2>2. op.pc = "store" /\ op.new = Sign(u)
    OBVIOUS
  <2>. HIDE DEF op
  <2>3. /\ ops'[s] = op /\ \A t \in Slots \ {s} : ops'[t] = ops[t]
        /\ RevokedAreOwn'
    BY <2>1, <2>2, SlotStep
  <2>4. \A t \in Slots : \A a \in AccessToken :
          Carries(t, a)' => Carries(t, a) \/ (t = s /\ a = Sign(u))
    BY <2>2, <2>3 DEF Carries
  <2>5. \A a \in AccessToken : InUse(a)' => InUse(a)
    BY <2>1, <2>2, <2>3 DEF InUse
  <2>6. collided \subseteq collided'
    BY <2>1 DEF Signed
  <2>. QED
    BY <2>1, <2>3, <2>4, <2>5, <2>6, SigningKeeps, SessionsLeft
<1>2. CASE StoreTokenMetadata(s)
  <2>. DEFINE op == ops[s]
  <2>1. /\ op.pc = "store" /\ op.user \in Users /\ op.refresh \in RefreshTokens
        /\ op.new \in AccessToken /\ op.new.user = op.user
    BY <1>2, OpShapes DEF StoreTokenMetadata, StoreOp, SessionInv, OpsSignForTheirUser
  <2>2. /\ Continues(s, Idle) /\ UNCHANGED <<blackAccess, now, issued, collided>>
        /\ held' = [held EXCEPT ![op.refresh] = op.new]
        /\ session' = [session EXCEPT ![op.user] = StoredPair(op)]
    BY <1>2 DEF StoreTokenMetadata, Ends
  <2>3. /\ ops'[s] = Idle /\ \A t \in Slots \ {s} : ops'[t] = ops[t]
        /\ RevokedAreOwn'
    BY <2>2, SlotStep, Idle.pc = "idle" DEF Idle
  <2>4. Idle.pc = "idle"
    BY DEF Idle
  <2>5. /\ session'[op.user].access = op.new
        /\ \A u \in Users \ {op.user} : session'[u] = session[u]
    BY <2>1, <2>2 DEF SessionsTypeOK, StoredPair
  <2>6. Carries(s, op.new)
    BY <2>1 DEF Carries
  <2>7. \A t \in Slots : \A a \in AccessToken : Carries(t, a)' => Carries(t, a)
    BY <2>3, <2>4 DEF Carries
  <2>8. \A a \in AccessToken : InUse(a)' => InUse(a) \/ a = op.new
    <3>1. \A r \in RefreshTokens : held'[r] = held[r] \/ held'[r] = op.new
      BY <2>1, <2>2 DEF SessionsTypeOK
    <3>. QED
      BY <2>2, <2>3, <2>4, <2>5, <3>1 DEF InUse
  <2>9. \A a \in AccessToken : ~Carries(s, a)'
    BY <2>3, <2>4 DEF Carries
  <2>10. IssuedFirst' /\ CarriedOnce'
    BY <2>2, <2>6, <2>7, <2>8, <2>9, MovingKeeps
  <2>11. SessionsAreOwn'
    BY <2>1, <2>5 DEF SessionsAreOwn
  <2>12. SessionTokenIsUsable'
    <3>. SUFFICES ASSUME NEW u \in Users, session'[u] # None
                  PROVE  \/ ~IsBlacklisted(blackAccess', session'[u].access)
                         \/ now' >= session'[u].access.exp
                         \/ session'[u].access \in collided'
      BY DEF SessionTokenIsUsable
    <3>1. CASE u = op.user
      <4>1. op.new \in collided \/ ~(now < op.new.exp) \/ ~InUse(op.new)
        BY <2>1, <2>6 DEF CarriedOnce
      <4>2. now \in Nat /\ op.new.exp \in Nat
        BY <2>1 DEF SessionsTypeOK, AccessToken
      <4>. QED
        BY <2>2, <2>5, <3>1, <4>1, <4>2 DEF InUse
    <3>2. CASE u # op.user
      BY <2>2, <2>5, <3>2, UsableStays
    <3>. QED
      BY <3>1, <3>2
  <2>. QED
    BY <2>3, <2>10, <2>11, <2>12
<1>. QED
  BY <1>1, <1>2 DEF Login

LEMMA RefreshUsable ==
  ASSUME SessionsTypeOK, SessionInv, UsableInv, NEW s \in Slots, RefreshAccessToken(s)
  PROVE  UsableInv'
<1>. USE DEF UsableInv
<1>a. Idle.pc = "idle"
  BY DEF Idle
<1>1. ASSUME NEW op, op.pc \in {"look", "idle"}, Continues(s, op),
             UNCHANGED <<keys, held, now, issued, collided>>
      PROVE  UsableInv'
  <2>1. /\ ops'[s] = op /\ \A t \in Slots \ {s} : ops'[t] = ops[t]
        /\ RevokedAreOwn'
    BY <1>1, SlotStep
  <2>2. /\ \A t \in Slots : \A a \in AccessToken : Carries(t, a)' => Carries(t, a)
        /\ \A a \in AccessToken : InUse(a)' => InUse(a)
    BY <1>1, <2>1 DEF Carries, InUse, keys
  <2>. QED
    BY <1>1, <2>1, <2>2, MovingKeeps, SessionsLeft DEF keys
<1>2. ASSUME NEW r \in RefreshTokens, RefreshReadsKey(s, r) PROVE UsableInv'
  <2>. DEFINE op == [pc |-> "look", user |-> refreshKey[r].user, refresh |-> r]
  <2>1. Continues(s, op) /\ UNCHANGED <<keys, held, now, issued, collided>>
    BY <1>2 DEF RefreshReadsKey, Starts, Continues
  <2>2. op.pc = "look"
    OBVIOUS
  <2>. HIDE DEF op
  <2>. QED
    BY <1>1, <2>1, <2>2
<1>3. CASE RefreshFindsNoSession(s)
  BY <1>1, <1>3, <1>a DEF RefreshFindsNoSession, Ends
<1>4. CASE RefreshReadsSession(s)
  <2>. DEFINE u == ops[s].user
              old == session[u].access
              op == [pc |-> "exec", user |-> u, refresh |-> ops[s].refresh,
                     old |-> old, new |-> Sign(u), ttl |-> RemainingLife(old)]
  <2>1. u \in Users /\ session[u] # None /\ old.user = u
    BY <1>4, OpShapes DEF RefreshReadsSession, LookOp, SessionsAreOwn
  <2>2. /\ Continues(s, op) /\ Signed(Sign(u))
        /\ UNCHANGED <<session, blackAccess, held, now>>
    BY <1>4 DEF RefreshReadsSession, keys
  <2>3. op.pc = "exec" /\ op.new = Sign(u) /\ op.old = old /\ op.user = u
    OBVIOUS
  <2>. HIDE DEF op
  <2>4. /\ ops'[s] = op /\ \A t \in Slots \ {s} : ops'[t] = ops[t]
        /\ RevokedAreOwn'
    BY <2>1, <2>2, <2>3, SlotStep
  <2>5. \A t \in Slots : \A a \in AccessToken :
          Carries(t, a)' => Carries(t, a) \/ (t = s /\ a = Sign(u))
    BY <2>3, <2>4 DEF Carries
  <2>6. \A a \in AccessToken : InUse(a)' => InUse(a)
    BY <2>1, <2>2, <2>3, <2>4 DEF InUse
  <2>7. collided \subseteq collided'
    BY <2>2 DEF Signed
  <2>. QED
    BY <2>1, <2>2, <2>4, <2>5, <2>6, <2>7, SigningKeeps, SessionsLeft
<1>5. ASSUME NEW answered \in BOOLEAN, RefreshExecutes(s, answered) PROVE UsableInv'
  <2>. DEFINE op == ops[s]
  <2>1. /\ op.pc = "exec" /\ op.user \in Users /\ op.refresh \in RefreshTokens
        /\ op.new \in AccessToken /\ op.new.user = op.user
        /\ op.old \in AccessToken /\ op.old.user = op.user
    BY <1>5, OpShapes
       DEF RefreshExecutes, ExecOp, SessionInv, OpsSignForTheirUser, RevokedAreOwn
  <2>2. /\ Continues(s, Idle) /\ UNCHANGED <<now, issued, collided>>
        /\ held' = held \/ held' = [held EXCEPT ![op.refresh] = op.new]
        /\ session' = [session EXCEPT ![op.user] = WithAccess(op)]
        /\ blackAccess' = SetEx(blackAccess, op.old, op.ttl)
    BY <1>5 DEF RefreshExecutes, Ends
  <2>3. /\ ops'[s] = Idle /\ \A t \in Slots \ {s} : ops'[t] = ops[t]
        /\ RevokedAreOwn'
    BY <1>a, <2>2, SlotStep
  <2>4. WithAccess(op).access = op.new
    BY <2>1 DEF WithAccess, SessionsTypeOK, Session
  <2>5. /\ session'[op.user].access = op.new
        /\ \A u \in Users \ {op.user} : session'[u] = session[u]
    BY <2>1, <2>2, <2>4 DEF SessionsTypeOK
  <2>6. Carries(s, op.new) /\ InUse(op.old)
    BY <2>1 DEF Carries, InUse
  <2>7. \A t \in Slots : \A a \in AccessToken : Carries(t, a)' => Carries(t, a)
    BY <1>a, <2>3 DEF Carries
  <2>8. \A x : IsBlacklisted(blackAccess', x) => x = op.old \/ IsBlacklisted(blackAccess, x)
    BY <2>2, ListsOnly
  <2>9. \A a \in AccessToken : InUse(a)' => InUse(a) \/ a = op.new
    <3>1. \A r \in RefreshTokens : held'[r] = held[r] \/ held'[r] = op.new
      BY <2>1, <2>2 DEF SessionsTypeOK
    <3>. QED
      BY <1>a, <2>3, <2>5, <2>6, <2>8, <3>1 DEF InUse
  <2>10. \A a \in AccessToken : ~Carries(s, a)'
    BY <1>a, <2>3 DEF Carries
  <2>11. IssuedFirst' /\ CarriedOnce'
    BY <2>2, <2>6, <2>7, <2>9, <2>10, MovingKeeps
  <2>12. SessionsAreOwn'
    BY <2>1, <2>5 DEF SessionsAreOwn
  <2>13. SessionTokenIsUsable'
    <3>. SUFFICES ASSUME NEW u \in Users, session'[u] # None
                  PROVE  \/ ~IsBlacklisted(blackAccess', session'[u].access)
                         \/ now' >= session'[u].access.exp
                         \/ session'[u].access \in collided'
      BY DEF SessionTokenIsUsable
    <3>1. CASE u = op.user
      <4>1. op.new \in collided \/ ~(now < op.new.exp) \/ ~InUse(op.new)
        BY <2>1, <2>6 DEF CarriedOnce
      <4>2. now \in Nat /\ op.new.exp \in Nat
        BY <2>1 DEF SessionsTypeOK, AccessToken
      <4>3. ~InUse(op.new) => ~IsBlacklisted(blackAccess', op.new)
        BY <2>6, <2>8 DEF InUse
      <4>. QED
        BY <2>2, <2>5, <3>1, <4>1, <4>2, <4>3
    <3>2. CASE u # op.user
      <4>1. session'[u] = session[u] /\ session[u] # None /\ session[u].access.user = u
        BY <2>5, <3>2 DEF SessionsAreOwn
      <4>2. session[u].access # op.old
        BY <2>1, <3>2, <4>1
      <4>. QED
        BY <2>2, <2>8, <4>1, <4>2, UsableStays
    <3>. QED
      BY <3>1, <3>2
  <2>. QED
    BY <2>3, <2>11, <2>12, <2>13
<1>. QED
  BY <1>2, <1>3, <1>4, <1>5 DEF RefreshAccessToken

LEMMA InvalidateUsable ==
  ASSUME SessionsTypeOK, UsableInv, NEW s \in Slots, InvalidateToken(s)
  PROVE  UsableInv'
<1>. USE DEF UsableInv
<1>a. Idle.pc = "idle"
  BY DEF Idle
<1>1. ASSUME NEW u \in Users, NEW r \in RefreshTokens, NEW force \in BOOLEAN,
             InvalidateReads(s, u, r, force)
      PROVE  UsableInv'
  <2>. DEFINE op == [pc |-> "drop", user |-> u, refresh |-> r, old |-> held[r],
                     ttl |-> RemainingLife(held[r]), force |-> force,
                     refreshTtl |-> Ttl(r)]
  <2>1. /\ Continues(s, op) /\ held[r].user = u
        /\ UNCHANGED <<session, blackAccess, held, now, issued, collided>>
    BY <1>1 DEF InvalidateReads, Starts, Continues, keys
  <2>2. op.pc = "drop" /\ op.old = held[r] /\ op.user = u
    OBVIOUS
  <2>. HIDE DEF op
  <2>3. /\ ops'[s] = op /\ \A t \in Slots \ {s} : ops'[t] = ops[t]
        /\ RevokedAreOwn'
    BY <2>1, <2>2, SlotStep
  <2>4. /\ \A t \in Slots : \A a \in AccessToken : Carries(t, a)' => Carries(t, a)
        /\ \A a \in AccessToken : InUse(a)' => InUse(a)
    BY <2>1, <2>2, <2>3 DEF Carries, InUse
  <2>. QED
    BY <2>1, <2>3, <2>4, MovingKeeps, SessionsLeft
<1>2. CASE InvalidateExecutes(s)
  <2>. DEFINE op == ops[s]
  <2>1. /\ op.pc = "drop" /\ op.user \in Users /\ op.old \in AccessToken
        /\ op.old.user = op.user
    BY <1>2, OpShapes DEF InvalidateExecutes, DropOp, RevokedAreOwn
  <2>2. /\ Continues(s, Idle) /\ UNCHANGED <<held, now, issued, collided>>
        /\ session' = [session EXCEPT ![op.user] = None]
        /\ blackAccess' = SetEx(blackAccess, op.old, op.ttl)
    BY <1>2 DEF InvalidateExecutes, DeletesSession, Ends
  <2>3. /\ ops'[s] = Idle /\ \A t \in Slots \ {s} : ops'[t] = ops[t]
        /\ RevokedAreOwn'
    BY <1>a, <2>2, SlotStep
  <2>4. /\ session'[op.user] = None
        /\ \A u \in Users \ {op.user} : session'[u] = session[u]
    BY <2>1, <2>2 DEF SessionsTypeOK
  <2>5. \A x : IsBlacklisted(blackAccess', x) => x = op.old \/ IsBlacklisted(blackAccess, x)
    BY <2>2, ListsOnly
  <2>6. InUse(op.old)
    BY <2>1 DEF InUse
  <2>7. \A t \in Slots : \A a \in AccessToken : Carries(t, a)' => Carries(t, a)
    BY <1>a, <2>3 DEF Carries
  <2>8. \A a \in AccessToken : InUse(a)' => InUse(a)
    BY <1>a, <2>2, <2>3, <2>4, <2>5, <2>6 DEF InUse
  <2>9. IssuedFirst' /\ CarriedOnce'
    BY <2>2, <2>7, <2>8, MovingKeeps
  <2>10. SessionsAreOwn'
    BY <2>4 DEF SessionsAreOwn
  <2>11. SessionTokenIsUsable'
    <3>. SUFFICES ASSUME NEW u \in Users, session'[u] # None
                  PROVE  \/ ~IsBlacklisted(blackAccess', session'[u].access)
                         \/ now' >= session'[u].access.exp
                         \/ session'[u].access \in collided'
      BY DEF SessionTokenIsUsable
    <3>1. session'[u] = session[u] /\ session[u] # None /\ session[u].access.user = u
          /\ u # op.user
      BY <2>4 DEF SessionsAreOwn
    <3>2. session[u].access # op.old
      BY <2>1, <3>1
    <3>. QED
      BY <2>2, <2>5, <3>1, <3>2, UsableStays
  <2>. QED
    BY <2>3, <2>9, <2>10, <2>11
<1>. QED
  BY <1>1, <1>2 DEF InvalidateToken

\* Every token that is dropped from the memory of signatures has expired.
LEMMA TickUsable ==
  ASSUME SessionsTypeOK, UsableInv, Tick
  PROVE  UsableInv'
<1>. USE DEF UsableInv
<1>1. /\ UNCHANGED <<held, ops>> /\ now' = now + 1 /\ now \in Nat
      /\ \A u \in Users : session'[u] # None => session'[u] = session[u]
      /\ blackAccess' \subseteq blackAccess
      /\ issued' = {a \in issued : now + 1 < a.exp}
      /\ collided' = {a \in collided : now + 1 < a.exp}
  BY DEF Tick, SessionsTypeOK
<1>2. \A a \in AccessToken : a.exp \in Nat /\ (now' < a.exp => now < a.exp)
  BY <1>1 DEF AccessToken
<1>3. \A a : InUse(a)' => InUse(a)
  BY <1>1 DEF InUse, IsBlacklisted
<1>4. IssuedFirst'
  BY <1>1, <1>2, <1>3 DEF IssuedFirst, Carries
<1>5. CarriedOnce'
  BY <1>1, <1>2, <1>3 DEF CarriedOnce, Carries
<1>6. SessionsAreOwn' /\ RevokedAreOwn'
  BY <1>1 DEF SessionsAreOwn, RevokedAreOwn
<1>7. SessionTokenIsUsable'
  <2>. SUFFICES ASSUME NEW u \in Users, session'[u] # None, now' < session'[u].access.exp,
                       IsBlacklisted(blackAccess', session'[u].access)
                PROVE  session'[u].access \in collided'
    BY <1>1, <1>2 DEF SessionTokenIsUsable, SessionsTypeOK, Session
  <2>1. session'[u] = session[u] /\ session[u].access \in AccessToken
    BY <1>1 DEF SessionsTypeOK, Session
  <2>2. session[u].access \in collided
    BY <1>1, <1>2, <2>1 DEF SessionTokenIsUsable, IsBlacklisted
  <2>. QED
    BY <1>1, <2>1, <2>2
<1>. QED
  BY <1>4, <1>5, <1>6, <1>7

LEMMA UsableKept ==
  ASSUME SessionsTypeOK, SessionInv, UsableInv, [Next]_vars
  PROVE  UsableInv'
<1>1. ASSUME NEW s \in Slots, ExecFails(s) PROVE UsableInv'
  <2>. USE DEF UsableInv
  <2>1. Idle.pc = "idle"
    BY DEF Idle
  <2>2. Continues(s, Idle) /\ UNCHANGED <<keys, held, now, issued, collided>>
    BY <1>1 DEF ExecFails, Ends
  <2>3. /\ ops'[s] = Idle /\ \A t \in Slots \ {s} : ops'[t] = ops[t]
        /\ RevokedAreOwn'
    BY <2>1, <2>2, SlotStep
  <2>4. /\ \A t \in Slots : \A a \in AccessToken : Carries(t, a)' => Carries(t, a)
        /\ \A a \in AccessToken : InUse(a)' => InUse(a)
    BY <2>1, <2>2, <2>3 DEF Carries, InUse, keys
  <2>. QED
    BY <2>2, <2>3, <2>4, MovingKeeps, SessionsLeft DEF keys
<1>2. CASE UNCHANGED vars
  BY <1>2 DEF vars, keys, history, UsableInv, IssuedFirst, CarriedOnce, SessionsAreOwn,
     RevokedAreOwn, SessionTokenIsUsable, InUse, Carries
<1>. QED
  BY <1>1, <1>2, LoginUsable, RefreshUsable, InvalidateUsable, TickUsable DEF Next, Request

LEMMA UsableStarts == Init => UsableInv
BY NoneIsNoValue DEF Init, UsableInv, IssuedFirst, CarriedOnce, SessionsAreOwn,
   RevokedAreOwn, SessionTokenIsUsable, InUse, Carries, Idle, IsBlacklisted

\* The access token a session would hand to the next refresh is not revoked
\* before its time, however logins, refreshes and logouts interleave: only one
\* that was signed twice in a second can be.
THEOREM SessionTokensAreUsable == Spec => []SessionTokenIsUsable
<1>1. Init => SessionInv /\ UsableInv
  BY SessionsStart, UsableStarts
<1>2. SessionsTypeOK /\ SessionInv /\ UsableInv /\ [Next]_vars => SessionInv' /\ UsableInv'
  BY SessionsKept, UsableKept
<1>3. UsableInv => SessionTokenIsUsable
  BY DEF UsableInv
<1>. QED
  BY <1>1, <1>2, <1>3, KeysAreWellFormed, PTL DEF Spec

=============================================================================
