------------------------------- MODULE Paging -------------------------------
(***************************************************************************)
(* Walking through a list page by page with a cursor, as the lists of      *)
(* notifications and of chat messages do: newest first by time and then    *)
(* by id, one row more than the page asked for to learn whether there is a *)
(* next page, and a cursor that names the last row given.  Rows arrive     *)
(* while a client walks, and several may have one time.                    *)
(***************************************************************************)
EXTENDS Naturals, FiniteSets, Sequences

CONSTANTS
  PageIds,   \* ids, ordered as the database orders them: numbers
  PageTimes, \* times of creation: numbers
  PageSize   \* limit

ASSUME PageSizeIsPositive ==
  PageIds \subseteq Nat /\ PageTimes \subseteq Nat /\ PageSize \in Nat \ {0}

VARIABLES
  listed, \* the rows of the table: [id, at]
  cursor, \* the row the next page starts after, as a set of at most one
  walk,   \* the rows a client has been given, in order
  target, \* history: the rows there were when the walk began
  ended   \* the last page has been given

pageVars == <<listed, cursor, walk, target, ended>>

ListedRow == [id : PageIds, at : PageTimes]

\* orderBy created_at desc, id desc.
Before(r, q) == r.at > q.at \/ (r.at = q.at /\ r.id > q.id)

\* where created_at < cursor, or the same and id < cursor's.
AfterByTime(c) == {r \in listed : \A q \in c : r.at < q.at}
After(c) == {r \in listed : \A q \in c : r.at < q.at \/ (r.at = q.at /\ r.id < q.id)}

\* Sorted so that n - 1 rows come before the n-th.
Above(r, rows) == {q \in rows : Before(q, r)}
Sorted(rows) ==
  [n \in 1..Cardinality(rows) |->
     CHOOSE r \in rows : Cardinality(Above(r, rows)) = n - 1]
FindList(c, limit) ==
  LET rows == Sorted(After(c))
  IN  SubSeq(rows, 1, IF Len(rows) < limit THEN Len(rows) ELSE limit)

Items(found) == SubSeq(found, 1, IF Len(found) > PageSize THEN PageSize
                                 ELSE Len(found))

GetsPage ==
  LET found == FindList(cursor, PageSize + 1)
      hasNext == Len(found) > PageSize
      items == Items(found) IN
  /\ ~ended
  /\ walk' = walk \o items
  /\ target' = IF walk = <<>> THEN listed ELSE target
  /\ ended' = ~hasNext
  /\ cursor' = IF hasNext THEN {items[Len(items)]} ELSE {}
  /\ UNCHANGED listed

Arrives(r) ==
  /\ \A q \in listed : q.id # r.id
  /\ listed' = listed \cup {r}
  /\ UNCHANGED <<cursor, walk, target, ended>>

PageInit ==
  /\ listed = {} /\ cursor = {} /\ walk = <<>> /\ target = {}
  /\ ended = FALSE

PageNext == GetsPage \/ \E r \in ListedRow : Arrives(r)

PageSpec == PageInit /\ [][PageNext]_pageVars

\* The pages of a walk give no row twice and keep the order, and when the
\* last says so they have given every row there was when the walk began,
\* whatever arrived meanwhile.
WalkIsExact ==
  /\ \A i, j \in 1..Len(walk) : i < j => Before(walk[i], walk[j])
  /\ ended => \A r \in target : \E i \in 1..Len(walk) : walk[i] = r
=============================================================================
