------------------------------ MODULE MCGroup ------------------------------
(***************************************************************************)
(* Small instances of Group for TLC.  The whole product of overlapping     *)
(* requests, several groups and events is out of reach; a run explores     *)
(* four slices of it, each with one of these and without the others.       *)
(***************************************************************************)
EXTENDS Group, TLC

CONSTANTS
  Home, \* the only group of the slices that need one
  Spare \* the code that only the slice of several codes gives out

VARIABLE slice

Slices == {"overlapping requests", "several groups", "several codes", "events"}

InSlice ==
  /\ slice = "overlapping requests" \/ overlapped' = FALSE
  /\ slice = "several groups" \/ \A g \in Groups \ {Home} :
       groups'[g] = None /\ \A s \in Slots : ops'[s].group # g
  /\ slice = "several codes" \/ \A c \in codes' : c.code # Spare
  /\ slice = "events" \/ UNCHANGED events
  /\ slice # "overlapping requests" \/ UNCHANGED now

MCInit == Init /\ slice \in Slices
MCNext == Next /\ InSlice /\ UNCHANGED slice
MCSpec == MCInit /\ [][MCNext]_<<vars, slice>>

MCSymmetry ==
  Permutations(Users) \cup Permutations(MemberIds) \cup Permutations(Slots)
=============================================================================
