---------------------------- MODULE EventPromise ----------------------------
(***************************************************************************)
(* What the event feature promises a group, without requests, rows, jobs   *)
(* or domain events: docs/features/event/SPEC.md sections 1, 2 and 5.      *)
(*                                                                         *)
(* An event is created by one member, who takes part in it; others join    *)
(* and leave while it is recruiting; the check closes the list, and drops  *)
(* the event if the list is too short; it starts, everyone's progress is   *)
(* recorded, and at its end each participant gets one final verdict.       *)
(***************************************************************************)
CONSTANTS Users, Creator

VARIABLES
  phase,    \* where the event is in its life
  standing, \* each user's part in it
  verdict   \* each user's attendance result

promiseVars == <<phase, standing, verdict>>

Phase    == {"none", "recruiting", "checked", "inProgress", "ended",
             "cancelled", "gone"}
Standing == {"out", "PREPARING", "DEPARTED", "ARRIVED"}
Verdict  == {"none", "ARRIVED", "LATE", "ABSENT"}

In == {u \in Users : standing[u] # "out"}

Nobody == [u \in Users |-> "out"]

Init ==
  /\ phase = "none"
  /\ standing = Nobody
  /\ verdict = [u \in Users |-> "none"]

Move(from, to) == phase = from /\ phase' = to

CreatorOnly == [Nobody EXCEPT ![Creator] = "PREPARING"]

Create == Move("none", "recruiting") /\ standing' = CreatorOnly /\ UNCHANGED verdict

\* The creation failed, or the creator deleted the event: it never comes back.
Abandon == Move("none", "gone") /\ UNCHANGED <<standing, verdict>>
Delete  == Move("recruiting", "gone") /\ standing' = Nobody /\ UNCHANGED verdict

Join(u) ==
  /\ phase = "recruiting" /\ standing[u] = "out"
  /\ standing' = [standing EXCEPT ![u] = "PREPARING"]
  /\ UNCHANGED <<phase, verdict>>

Leave(u) ==
  /\ phase = "recruiting" /\ u \in In \ {Creator}
  /\ standing' = [standing EXCEPT ![u] = "out"]
  /\ UNCHANGED <<phase, verdict>>

\* A new time: everyone but the creator must join again.
Reschedule ==
  /\ phase = "recruiting"
  /\ standing' = CreatorOnly
  /\ UNCHANGED <<phase, verdict>>

Enough == \E u, v \in In : u # v

Pass   == Enough /\ Move("recruiting", "checked") /\ UNCHANGED <<standing, verdict>>
Cancel == ~Enough /\ Move("recruiting", "cancelled") /\ UNCHANGED <<standing, verdict>>
Start  == Move("checked", "inProgress") /\ UNCHANGED <<standing, verdict>>

Progress(u, from, to) ==
  /\ phase = "inProgress" /\ standing[u] = from
  /\ standing' = [standing EXCEPT ![u] = to]
  /\ UNCHANGED <<phase, verdict>>

Deserved(u) ==
  CASE standing[u] = "out"       -> "none"
    [] standing[u] = "PREPARING" -> "ABSENT"
    [] standing[u] = "DEPARTED"  -> "LATE"
    [] standing[u] = "ARRIVED"   -> "ARRIVED"

End ==
  /\ Move("inProgress", "ended")
  /\ verdict' = [u \in Users |-> Deserved(u)]
  /\ UNCHANGED standing

Next ==
  \/ Create \/ Abandon \/ Delete \/ Reschedule
  \/ Pass \/ Cancel \/ Start \/ End
  \/ \E u \in Users : \/ Join(u) \/ Leave(u)
                      \/ Progress(u, "PREPARING", "DEPARTED")
                      \/ Progress(u, "DEPARTED", "ARRIVED")

Spec == Init /\ [][Next]_promiseVars
=============================================================================
