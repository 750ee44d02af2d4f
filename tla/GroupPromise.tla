---------------------------- MODULE GroupPromise ----------------------------
(***************************************************************************)
(* What the group feature promises, without requests, rows or copies:      *)
(* docs/features/group/SPEC.md sections 1 to 3.                            *)
(*                                                                         *)
(* A group is founded by someone who owns none and grows by single-use     *)
(* invitations while there is room.  Its members may go; its owner hands   *)
(* it over first, or dissolves it when nobody else is left.  Only the      *)
(* founding asks what else a user owns: whoever is handed a group may      *)
(* already own another.  When an invitation expires is left out.           *)
(***************************************************************************)
EXTENDS Naturals, FiniteSets

CONSTANTS Users, Groups, CodeValues, MaxMembers

VARIABLES
  standing,   \* each user's part in each group
  invitations \* the invitations given out, used or not

promiseVars == <<standing, invitations>>

Invitation(v, g, used) == [code |-> v, group |-> g, used |-> used]

Nobody == [u \in Users |-> "out"]
In(g) == {u \in Users : standing[g][u] # "out"}
OwnsNone(u) == \A g \in Groups : standing[g][u] # "OWNER"

Init ==
  /\ standing = [g \in Groups |-> Nobody]
  /\ invitations = {}

Becomes(u, g, role) == standing' = [standing EXCEPT ![g] = [@ EXCEPT ![u] = role]]

Found(u, g) ==
  /\ OwnsNone(u) /\ In(g) = {}
  /\ Becomes(u, g, "OWNER")
  /\ UNCHANGED invitations

Invite(g, v) ==
  /\ In(g) # {} /\ \A c \in invitations : c.code # v
  /\ invitations' = invitations \cup {Invitation(v, g, FALSE)}
  /\ UNCHANGED standing

Join(u, g, v) ==
  /\ Invitation(v, g, FALSE) \in invitations
  /\ u \notin In(g) /\ Cardinality(In(g)) < MaxMembers
  /\ Becomes(u, g, "MEMBER")
  /\ invitations' = (invitations \ {Invitation(v, g, FALSE)})
                      \cup {Invitation(v, g, TRUE)}

\* On their own request or the owner's.
Part(u, g) ==
  /\ standing[g][u] = "MEMBER"
  /\ Becomes(u, g, "out")
  /\ UNCHANGED invitations

HandOver(u, v, g) ==
  /\ standing[g][u] = "OWNER" /\ standing[g][v] = "MEMBER"
  /\ standing' = [standing EXCEPT ![g] = [@ EXCEPT ![u] = "MEMBER", ![v] = "OWNER"]]
  /\ UNCHANGED invitations

Dissolve(u, g) ==
  /\ standing[g][u] = "OWNER" /\ In(g) = {u}
  /\ standing' = [standing EXCEPT ![g] = Nobody]
  /\ invitations' = {c \in invitations : c.group # g}

Next ==
  \E g \in Groups :
    \/ \E v \in CodeValues : Invite(g, v) \/ \E u \in Users : Join(u, g, v)
    \/ \E u \in Users : Found(u, g) \/ Part(u, g) \/ Dissolve(u, g)
    \/ \E u, v \in Users : HandOver(u, v, g)
=============================================================================
