----------------------------- MODULE MCAccounts -----------------------------
(***************************************************************************)
(* Small instances of Accounts for TLC, in slices: the token sessions of   *)
(* one settled user, with requests one at a time and overlapping; and      *)
(* registrations with all they set off, while no second passes and nobody  *)
(* who has tokens logs in again.                                           *)
(***************************************************************************)
EXTENDS Accounts, TLC

CONSTANTS
  Settled,   \* the user of the session slices; the others only register
  Overlap,   \* the clock stops here when requests overlap
  Concurrent \* requests in flight at once in the registration slice

VARIABLE slice

Slices == {"sessions", "overlapping sessions", "registrations"}

SettledAccounts ==
  /\ Init
  /\ accounts = [u \in Users |-> IF u = Settled
                   THEN [device |-> CHOOSE d \in Devices : TRUE,
                         wears |-> Default] ELSE None]
  /\ owned = [u \in Users |-> IF u = Settled THEN Characters ELSE {}]
  /\ subscribed = [u \in Users |->
                     [t \in Types |-> IF u = Settled THEN TRUE ELSE None]]
  /\ welcomed = {Settled} /\ chats = [u \in Users |-> 0]
  /\ tasks = [s \in Slots |-> Idle] /\ work = {}
  /\ unlocks = [u \in Users |-> [c \in Characters |-> 0]]
  /\ raced = {} /\ crashed = FALSE

InSlice ==
  \/ /\ slice = "sessions" /\ UNCHANGED accountVars
     /\ Cardinality({s \in Slots : ops'[s] # Idle}) <= 1
  \/ /\ slice = "overlapping sessions" /\ UNCHANGED accountVars
     /\ now' <= Overlap
     /\ \A s \in Slots : ops'[s].pc = "drop" => ~ops'[s].force
  \/ /\ slice = "registrations" /\ UNCHANGED now
     /\ \A s \in Slots :
          \/ ops'[s] = Idle
          \/ ops'[s].pc = "store"
               /\ \A r \in RefreshTokens : held[r] # None =>
                     held[r].user # ops'[s].user
     /\ \A s \in Slots : tasks'[s] # Idle /\ tasks'[s].user # Settled =>
                          tasks'[s].pc \in {"save", "login"}
     /\ Cardinality({s \in Slots : tasks'[s] # Idle \/ ops'[s] # Idle})
          <= Concurrent

MCInit ==
  \/ slice = "registrations" /\ AccountsInit
  \/ slice \in Slices \ {"registrations"} /\ SettledAccounts
MCNext == AccountsNext /\ InSlice /\ UNCHANGED slice
MCSpec == MCInit /\ [][MCNext]_<<vars, accountVars, slice>>

MCRequired == [c \in Characters |-> IF c = Default THEN None ELSE 1]

MCSymmetry == Permutations(RefreshTokens) \cup Permutations(Slots)
=============================================================================
