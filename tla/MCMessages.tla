----------------------------- MODULE MCMessages -----------------------------
(***************************************************************************)
(* Small instances of ShortTalk, Notices and Paging for TLC, which share   *)
(* no state: one slice each, with Notices in two - device tokens and the   *)
(* pushes that delete them, and notices stored, pushed and read.           *)
(***************************************************************************)
EXTENDS ShortTalk, Notices, Paging, TLC

CONSTANT Concurrent \* calls in flight at once in the slices of Notices

VARIABLE slice

Slices == {"talk", "devices", "notices", "pages"}

Talk == TalkNext /\ UNCHANGED <<noticeVars, pageVars>>

InNotices == NoticesNext /\ UNCHANGED <<talkVars, pageVars>>
             /\ Cardinality(calls') <= Concurrent

Devices ==
  /\ InNotices /\ UNCHANGED <<notices, optedOut, after>>
  /\ \A h \in happened' : h.kind = "unlocked"
Stored ==
  /\ InNotices /\ UNCHANGED dead
  /\ Cardinality(announced') <= 1
  /\ \A x \in calls' : x.pc \notin {"evict", "failed"}
  /\ Len(devices') >= Len(devices)
  /\ announced # {} =>
       {d.user : d \in Rows' \ Rows} \cup {u \in Users : Registering(u)' # {}}
         \subseteq {p.user : p \in after}
  /\ happened # {} => UNCHANGED <<joined, optedOut>>
  /\ \A h \in happened' :
       h.twice # {} => h.kind = "cancelled" /\ Cardinality(h.twice) = 1
  /\ doubled' = {}

Pages == PageNext /\ UNCHANGED <<talkVars, noticeVars>>

MCInit == TalkInit /\ NoticesInit /\ PageInit /\ slice \in Slices
MCNext ==
  /\ UNCHANGED slice
  /\ \/ slice = "talk" /\ Talk
     \/ slice = "devices" /\ Devices
     \/ slice = "notices" /\ Stored
     \/ slice = "pages" /\ Pages
MCSpec == MCInit /\ [][MCNext]_<<talkVars, noticeVars, pageVars, slice>>

\* The slices share no state, and so one set of values stands for users and
\* members, one for tokens and messages, one for rows and connections.
MCSymmetry ==
  Permutations(Users) \cup Permutations(Tokens) \cup Permutations(Connections)
=============================================================================
