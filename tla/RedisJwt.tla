------------------------------ MODULE RedisJwt ------------------------------
(***************************************************************************)
(* Token sessions in Redis (src/module/core/jwt/redis-jwt.service.ts), with *)
(* refresh tokens and the blacklist enabled, as they are by default.       *)
(*                                                                         *)
(* A user has one "identifier" hash with the last pair of tokens; every    *)
(* refresh token has a key of its own that names the user.  Logging in     *)
(* again replaces the hash and leaves the older refresh keys.  Refreshing  *)
(* reads the key, then the hash, and writes in a third round trip; logging *)
(* out reads and writes in two: a request between two round trips is a     *)
(* record in "ops".  Each MULTI is one step, or fails as a whole.          *)
(*                                                                         *)
(* An access token is a signature over the user and the second it was      *)
(* signed in and nothing else: two signed for one user in one second are   *)
(* the same token, so a token is the record [user, exp].  Redis drops a    *)
(* key when its time is up: Tick does.                                     *)
(*                                                                         *)
(* Logins use the service today; no endpoint calls refreshAccessToken or   *)
(* invalidateToken yet.  The module models what the service offers to      *)
(* whoever does, behind the refresh guard that is there for it.            *)
(***************************************************************************)
EXTENDS Integers, FiniteSets

CONSTANTS
  Users,         \* identifiers
  RefreshTokens, \* random: each is handed out once
  Slots,         \* one for each request in flight
  None,          \* "no value": a missing key, a key without an expiry
  AccessLife,    \* accessTokenExpiresIn, in seconds
  RefreshLife,   \* refreshTokenExpiresIn, in seconds
  MaxTime        \* bound: the clock stops here

ASSUME LivesArePositive ==
  AccessLife \in Nat \ {0} /\ RefreshLife \in Nat \ {0} /\ MaxTime \in Nat

AccessToken == [user : Users, exp : Nat]
Session == [access : AccessToken, refresh : RefreshTokens \cup {None},
            expires : Nat \cup {None}]
RefreshKey == [user : Users, expires : Nat]
BlackAccess == [token : AccessToken, until : Nat]
BlackRefresh == [token : RefreshTokens, until : Nat]

ASSUME NoneIsNoValue ==
  /\ None \notin Session /\ None \notin RefreshKey /\ None \notin AccessToken
  /\ None \notin RefreshTokens /\ None \notin Nat

VARIABLES
  session,      \* identifier:<user> -> the hash, or None
  refreshKey,   \* refresh:<token> -> whose it is and until when, or None
  blackAccess,  \* the keys blacklist:access:<token>
  blackRefresh, \* the keys blacklist:<token>
  held,         \* refresh token -> the access token its holder has, or None
  ops,          \* the requests in flight
  now,          \* the clock, in seconds
  issued,       \* history: access tokens signed and not expired
  collided,     \* history: those signed more than once
  given,        \* history: those that have reached a client
  revoked       \* history: those a refresh or a logout has replaced

keys == <<session, refreshKey, blackAccess, blackRefresh>>
history == <<issued, collided, given, revoked>>
vars == <<keys, held, ops, now, history>>

Idle == [pc |-> "idle"]
Op == [pc : {"store"}, user : Users, refresh : RefreshTokens,
       new : AccessToken]
        \cup [pc : {"look"}, user : Users, refresh : RefreshTokens]
        \cup [pc : {"exec"}, user : Users, refresh : RefreshTokens,
              old : AccessToken, new : AccessToken, ttl : Int]
        \cup [pc : {"drop"}, user : Users, refresh : RefreshTokens,
              old : AccessToken, ttl : Int, force : BOOLEAN, refreshTtl : Int]

-----------------------------------------------------------------------------
Sign(u) == [user |-> u, exp |-> now + AccessLife]

\* exp - currentTimestamp: a key is only set when this is positive.
RemainingLifeTooShort(a) == a.exp - now - 1
RemainingLife(a) == a.exp - now

SetForever(blacklist, t, ttl) == blacklist \cup {[token |-> t, until |-> None]}
SetEx(blacklist, t, ttl) ==
  IF ttl > 0 THEN blacklist \cup {[token |-> t, until |-> now + ttl]}
  ELSE blacklist

\* isAccessTokenBlacklisted, isRefreshTokenBlacklisted: the key exists.
IsBlacklisted(blacklist, t) == \E b \in blacklist : b.token = t

\* The jwt-blacklist-check guard and the strategy behind it.
Accepts(a) == now < a.exp /\ ~IsBlacklisted(blackAccess, a)

\* UserRefreshTokenGuard: the token is not blacklisted and its key exists.
MayRefresh(r) == refreshKey[r] # None /\ ~IsBlacklisted(blackRefresh, r)

StoredPair(op) ==
  [access |-> op.new, refresh |-> op.refresh, expires |-> now + RefreshLife]

\* HSET of one field: it makes the hash anew when the key is gone.
WithOldAccess(op) ==
  IF session[op.user] = None
  THEN [access |-> op.new, refresh |-> None, expires |-> None]
  ELSE session[op.user]
WithAccess(op) ==
  IF session[op.user] = None
  THEN [access |-> op.new, refresh |-> None, expires |-> None]
  ELSE [session[op.user] EXCEPT !.access = op.new]

Starts(s, op) ==
  /\ ops[s] = Idle
  /\ ops' = [ops EXCEPT ![s] = op]
Continues(s, op) == ops' = [ops EXCEPT ![s] = op]
Ends(s) == Continues(s, Idle)

Signed(a) ==
  /\ issued' = issued \cup {a}
  /\ collided' = IF a \in issued THEN collided \cup {a} ELSE collided

-----------------------------------------------------------------------------
(***************************************************************************)
(* AuthService.login: createTokenPair, then storeTokenMetadata.            *)
(***************************************************************************)
CreateTokenPair(s, u, r) ==
  /\ held[r] = None
  /\ \A t \in Slots : ops[t] # Idle => ops[t].refresh # r
  /\ Starts(s, [pc |-> "store", user |-> u, refresh |-> r, new |-> Sign(u)])
  /\ Signed(Sign(u))
  /\ UNCHANGED <<keys, held, now, given, revoked>>

StoreTokenMetadata(s) ==
  LET op == ops[s] IN
  /\ op.pc = "store"
  /\ session' = [session EXCEPT ![op.user] = StoredPair(op)]
  /\ refreshKey' = [refreshKey EXCEPT ![op.refresh] =
                      [user |-> op.user, expires |-> now + RefreshLife]]
  /\ held' = [held EXCEPT ![op.refresh] = op.new]
  /\ given' = given \cup {op.new}
  /\ Ends(s)
  /\ UNCHANGED <<blackAccess, blackRefresh, now, issued, collided, revoked>>

(***************************************************************************)
(* refreshAccessToken.                                                     *)
(***************************************************************************)
RefreshReadsKey(s, r) ==
  /\ MayRefresh(r)
  /\ Starts(s, [pc |-> "look", user |-> refreshKey[r].user, refresh |-> r])
  /\ UNCHANGED <<keys, held, now, issued, collided, given, revoked>>

RefreshReadsSession(s) ==
  LET op == ops[s]
      old == session[op.user].access
      new == Sign(op.user) IN
  /\ op.pc = "look"
  /\ session[op.user] # None
  /\ Continues(s, [pc |-> "exec", user |-> op.user, refresh |-> op.refresh,
                   old |-> old, new |-> new, ttl |-> RemainingLife(old)])
  /\ Signed(new)
  /\ UNCHANGED <<keys, held, now, given, revoked>>

RefreshFindsNoSession(s) ==
  /\ ops[s].pc = "look" /\ session[ops[s].user] = None
  /\ Ends(s)
  /\ UNCHANGED <<keys, held, now, issued, collided, given, revoked>>

\* answered: the new token reaches the client; it may be lost on the way.
RefreshExecutes(s, answered) ==
  LET op == ops[s] IN
  /\ op.pc = "exec"
  /\ session' = [session EXCEPT ![op.user] = WithAccess(op)]
  /\ blackAccess' = SetEx(blackAccess, op.old, op.ttl)
  /\ held' = IF answered THEN [held EXCEPT ![op.refresh] = op.new] ELSE held
  /\ given' = IF answered THEN given \cup {op.new} ELSE given
  /\ revoked' = revoked \cup {op.old}
  /\ Ends(s)
  /\ UNCHANGED <<refreshKey, blackRefresh, now, issued, collided>>

(***************************************************************************)
(* invalidateToken, with the pair a client holds.                          *)
(***************************************************************************)
Ttl(r) == IF refreshKey[r] = None THEN 0 - 2 ELSE refreshKey[r].expires - now

InvalidateReads(s, u, r, force) ==
  /\ held[r] # None /\ held[r].user = u
  /\ session[u] # None
  /\ Starts(s, [pc |-> "drop", user |-> u, refresh |-> r, old |-> held[r],
                ttl |-> RemainingLife(held[r]), force |-> force,
                refreshTtl |-> Ttl(r)])
  /\ UNCHANGED <<keys, held, now, issued, collided, given, revoked>>

DeletesOnlyRefreshKey(op) == session
DeletesSession(op) == [session EXCEPT ![op.user] = None]

InvalidateExecutes(s) ==
  LET op == ops[s] IN
  /\ op.pc = "drop"
  /\ blackAccess' = SetEx(blackAccess, op.old, op.ttl)
  /\ blackRefresh' = IF op.force
                     THEN SetEx(blackRefresh, op.refresh, op.refreshTtl)
                     ELSE blackRefresh
  /\ session' = DeletesSession(op)
  /\ refreshKey' = [refreshKey EXCEPT ![op.refresh] = None]
  /\ revoked' = revoked \cup {op.old}
  /\ Ends(s)
  /\ UNCHANGED <<held, now, issued, collided, given>>

\* INFRASTRUCTURE_ERROR: the MULTI did not run and the request is refused.
ExecFails(s) ==
  /\ ops[s].pc \in {"store", "exec", "drop"}
  /\ Ends(s)
  /\ UNCHANGED <<keys, held, now, issued, collided, given, revoked>>

-----------------------------------------------------------------------------
(***************************************************************************)
(* A second passes; Redis drops what is due.                               *)
(***************************************************************************)
LiveSession(x) == x # None /\ (x.expires = None \/ now + 1 < x.expires)

Tick ==
  /\ now < MaxTime
  /\ now' = now + 1
  /\ session' = [u \in Users |-> IF LiveSession(session[u]) THEN session[u]
                                 ELSE None]
  /\ refreshKey' = [r \in RefreshTokens |->
       IF refreshKey[r] # None /\ now + 1 < refreshKey[r].expires
       THEN refreshKey[r] ELSE None]
  /\ blackAccess' = {b \in blackAccess : now + 1 < b.until}
  /\ blackRefresh' = {b \in blackRefresh : now + 1 < b.until}
  /\ issued' = {a \in issued : now + 1 < a.exp}
  /\ collided' = {a \in collided : now + 1 < a.exp}
  /\ given' = {a \in given : now + 1 < a.exp}
  /\ revoked' = {a \in revoked : now + 1 < a.exp}
  /\ UNCHANGED <<held, ops>>

Init ==
  /\ session = [u \in Users |-> None]
  /\ refreshKey = [r \in RefreshTokens |-> None]
  /\ blackAccess = {} /\ blackRefresh = {}
  /\ held = [r \in RefreshTokens |-> None]
  /\ ops = [s \in Slots |-> Idle]
  /\ now = 0
  /\ issued = {} /\ collided = {} /\ given = {} /\ revoked = {}

Login(s) ==
  \/ \E u \in Users, r \in RefreshTokens : CreateTokenPair(s, u, r)
  \/ StoreTokenMetadata(s)
RefreshAccessToken(s) ==
  \/ \E r \in RefreshTokens : RefreshReadsKey(s, r)
  \/ RefreshReadsSession(s) \/ RefreshFindsNoSession(s)
  \/ \E answered \in BOOLEAN : RefreshExecutes(s, answered)
InvalidateToken(s) ==
  \/ \E u \in Users, r \in RefreshTokens, force \in BOOLEAN :
       InvalidateReads(s, u, r, force)
  \/ InvalidateExecutes(s)

Request ==
  \E s \in Slots :
    Login(s) \/ RefreshAccessToken(s) \/ InvalidateToken(s) \/ ExecFails(s)
Next == Request \/ Tick

Spec == Init /\ [][Next]_vars

-----------------------------------------------------------------------------
SessionsTypeOK ==
  /\ session \in [Users -> Session \cup {None}]
  /\ refreshKey \in [RefreshTokens -> RefreshKey \cup {None}]
  /\ blackAccess \subseteq BlackAccess /\ blackRefresh \subseteq BlackRefresh
  /\ held \in [RefreshTokens -> AccessToken \cup {None}]
  /\ ops \in [Slots -> Op \cup {Idle}]
  /\ now \in Nat
  /\ issued \subseteq AccessToken /\ collided \subseteq AccessToken
  /\ given \subseteq AccessToken /\ revoked \subseteq AccessToken

\* An access token that a refresh or a logout has replaced is refused from
\* then on: its blacklist key, whose life is computed one round trip before
\* it is set, outlives the token however the requests interleave.
RevokedIsRejected == \A a \in revoked : ~Accepts(a)

\* A session that names a refresh token can be refreshed with it: the key of
\* the token is there, names the user and goes when the session goes, also
\* when logins, refreshes and logouts of the user interleave.  One that names
\* none, made anew by a late refresh after a logout or an expiry, is the only
\* kind that lives on for ever.
SessionHasItsRefreshKey ==
  \A u \in Users : session[u] # None =>
    IF session[u].refresh = None THEN session[u].expires = None
    ELSE refreshKey[session[u].refresh]
           = [user |-> u, expires |-> session[u].expires]

\* The access token a session hands to the next refresh is not itself
\* revoked before its time, unless a second one was signed for the user in
\* the same second.
SessionTokenIsUsable ==
  \A u \in Users : session[u] # None =>
    \/ ~IsBlacklisted(blackAccess, session[u].access)
    \/ now >= session[u].access.exp
    \/ session[u].access \in collided

=============================================================================
