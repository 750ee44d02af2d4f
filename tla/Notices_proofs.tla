--------------------------- MODULE Notices_proofs ---------------------------
(***************************************************************************)
(* Proofs about Notices, for every set of users, tokens and topics, and    *)
(* about Paging, which gives their list.  The device tokens and the        *)
(* notices share only the pushes that read the one and tell of the other:  *)
(* each has an invariant of its own, over the types of both.               *)
(***************************************************************************)
EXTENDS Notices, Paging, FiniteSetTheorems, SequenceTheorems, TLAPS

-----------------------------------------------------------------------------
\* What stays of a sequence: its other elements, each as often as before.
LEMMA StayingIs ==
  ASSUME NEW S, NEW s \in Seq(S), NEW rows
  PROVE  /\ Staying(s, rows) \in Seq(S)
         /\ \E f \in [1..Len(Staying(s, rows)) -> 1..Len(s)] :
              /\ \A j \in 1..Len(Staying(s, rows)) :
                   Staying(s, rows)[j] = s[f[j]] /\ s[f[j]] \notin rows
              /\ \A i, j \in 1..Len(Staying(s, rows)) : f[i] = f[j] => i = j
              /\ \A i \in 1..Len(s) : s[i] \notin rows =>
                   \E j \in 1..Len(Staying(s, rows)) : f[j] = i
<1> DEFINE stay == {i \in 1..Len(s) : s[i] \notin rows}
           n == Cardinality(stay)
           upTo(i) == {k \in stay : k <= i}
           rank(i) == Cardinality(upTo(i))
           nth(j) == CHOOSE i \in stay : rank(i) = j
           f == [j \in 1..n |-> nth(j)]
<1>0. Len(s) \in Nat
  OBVIOUS
<1>1. IsFiniteSet(stay) /\ n \in Nat
  <2>1. IsFiniteSet(1..Len(s))
    BY <1>0, FS_Interval
  <2>2. stay \subseteq 1..Len(s)
    OBVIOUS
  <2>. QED
    BY <2>1, <2>2, FS_Subset, FS_CardinalityType
<1>2. \A i \in stay : /\ upTo(i) \in SUBSET stay /\ i \in upTo(i)
                      /\ IsFiniteSet(upTo(i)) /\ rank(i) \in Nat
                      /\ rank(i) >= 1 /\ rank(i) <= n
  <2> TAKE i \in stay
  <2>1. upTo(i) \in SUBSET stay /\ i \in upTo(i)
    BY <1>0
  <2>2. IsFiniteSet(upTo(i)) /\ rank(i) \in Nat /\ rank(i) <= n
    BY <1>1, <2>1, FS_Subset, FS_CardinalityType
  <2>3. rank(i) # 0
    BY <2>1, <2>2, FS_EmptySet
  <2>. QED
    BY <2>1, <2>2, <2>3
<1>3. \A i, j \in stay : i < j => rank(i) < rank(j)
  <2> SUFFICES ASSUME NEW i \in stay, NEW j \in stay, i < j
               PROVE  rank(i) < rank(j)
    OBVIOUS
  <2>1. upTo(i) \in SUBSET upTo(j) /\ j \notin upTo(i) /\ j \in upTo(j)
    BY <1>0
  <2>2. IsFiniteSet(upTo(j))
    BY <1>2
  <2>3. rank(i) <= rank(j) /\ (rank(j) = rank(i) => upTo(j) = upTo(i))
    BY <2>1, <2>2, FS_Subset
  <2>4. rank(i) # rank(j)
    BY <2>1, <2>3
  <2>5. rank(i) \in Nat /\ rank(j) \in Nat
    BY <1>2
  <2> HIDE DEF rank
  <2>. QED
    BY <2>3, <2>4, <2>5
<1>4. \A i, j \in stay : rank(i) = rank(j) => i = j
  <2> SUFFICES ASSUME NEW i \in stay, NEW j \in stay, rank(i) = rank(j), i # j
               PROVE  FALSE
    OBVIOUS
  <2>1. i < j \/ j < i
    BY <1>0
  <2>2. rank(i) \in Nat
    BY <1>2
  <2> HIDE DEF rank, stay
  <2>. QED
    BY <1>3, <2>1, <2>2
<1> HIDE DEF rank, upTo
<1>5. \A j \in 1..n : \E i \in stay : rank(i) = j
  <2> SUFFICES ASSUME NEW j \in 1..n, \A i \in stay : rank(i) # j
               PROVE  FALSE
    OBVIOUS
  <2> DEFINE T == (1..n) \ {j}
             g == [i \in stay |-> rank(i)]
  <2>1. IsFiniteSet(1..n) /\ Cardinality(1..n) = n
    BY <1>1, FS_Interval
  <2>2. IsFiniteSet(T) /\ Cardinality(T) = n - 1
    BY <2>1, FS_RemoveElement
  <2>3. g \in [stay -> T]
    BY <1>1, <1>2
  <2>4. Cardinality(T) < Cardinality(stay)
    BY <1>1, <2>2
  <2> HIDE DEF g, T
  <2>5. PICK i \in stay, k \in stay : i # k /\ g[i] = g[k]
    <3> HIDE DEF stay
    <3>. QED
      BY <1>1, <2>2, <2>3, <2>4, FS_PigeonHole
  <2>6. g[i] = rank(i) /\ g[k] = rank(k)
    BY DEF g
  <2>. QED
    BY <1>4, <2>5, <2>6
<1>6. \A j \in 1..n : nth(j) \in stay /\ rank(nth(j)) = j
  BY <1>5
<1>7. \A i \in stay : rank(i) \in 1..n /\ nth(rank(i)) = i
  BY <1>1, <1>2, <1>4, <1>6
<1>8. Staying(s, rows) = [j \in 1..n |-> s[nth(j)]]
  BY DEF Staying, rank, upTo
<1> HIDE DEF n, nth
<1>9. Len(Staying(s, rows)) = n /\ Staying(s, rows) \in Seq(S)
  BY <1>1, <1>6, <1>8, LenProperties, IsASeq
<1>10. f \in [1..n -> 1..Len(s)]
  BY <1>6
<1>11. /\ \A j \in 1..n : Staying(s, rows)[j] = s[f[j]] /\ s[f[j]] \notin rows
       /\ \A i, j \in 1..n : f[i] = f[j] => i = j
       /\ \A i \in 1..Len(s) : s[i] \notin rows => \E j \in 1..n : f[j] = i
  BY <1>6, <1>7, <1>8
<1> HIDE DEF f
<1>. QED
  BY <1>9, <1>10, <1>11

-----------------------------------------------------------------------------
(***************************************************************************)
(* The table of device tokens: an id, and a token, has one place.          *)
(***************************************************************************)
RowsIn(s) == {s[i] : i \in 1..Len(s)}
Keyed(s) ==
  /\ s \in Seq(Device)
  /\ \A i, j \in 1..Len(s) : s[i].id = s[j].id \/ s[i].token = s[j].token => i = j

\* Deleting rows keeps the keys and exactly the other rows.
LEMMA DeletingKeeps ==
  ASSUME NEW s, Keyed(s), NEW rows
  PROVE  Keyed(Staying(s, rows)) /\ RowsIn(Staying(s, rows)) = RowsIn(s) \ rows
<1> DEFINE w == Staying(s, rows)
<1>1. s \in Seq(Device)
  BY DEF Keyed
<1>2. /\ w \in Seq(Device)
      /\ \E f \in [1..Len(w) -> 1..Len(s)] :
              /\ \A j \in 1..Len(w) : w[j] = s[f[j]] /\ s[f[j]] \notin rows
              /\ \A i, j \in 1..Len(w) : f[i] = f[j] => i = j
              /\ \A i \in 1..Len(s) : s[i] \notin rows => \E j \in 1..Len(w) : f[j] = i
  BY <1>1, StayingIs
<1> HIDE DEF w
<1>3. PICK f \in [1..Len(w) -> 1..Len(s)] :
              /\ \A j \in 1..Len(w) : w[j] = s[f[j]] /\ s[f[j]] \notin rows
              /\ \A i, j \in 1..Len(w) : f[i] = f[j] => i = j
              /\ \A i \in 1..Len(s) : s[i] \notin rows => \E j \in 1..Len(w) : f[j] = i
  BY <1>2
<1>4. Keyed(w)
  <2> SUFFICES ASSUME NEW i \in 1..Len(w), NEW j \in 1..Len(w),
                      w[i].id = w[j].id \/ w[i].token = w[j].token
               PROVE  i = j
    BY <1>2 DEF Keyed
  <2>1. f[i] \in 1..Len(s) /\ f[j] \in 1..Len(s) /\ w[i] = s[f[i]] /\ w[j] = s[f[j]]
    BY <1>3
  <2>2. f[i] = f[j]
    BY <2>1 DEF Keyed
  <2>. QED
    BY <1>3, <2>2
<1>5. RowsIn(w) = RowsIn(s) \ rows
  <2>1. ASSUME NEW d \in RowsIn(w) PROVE d \in RowsIn(s) \ rows
    BY <1>3 DEF RowsIn
  <2>2. ASSUME NEW d \in RowsIn(s) \ rows PROVE d \in RowsIn(w)
    <3>1. PICK i \in 1..Len(s) : d = s[i]
      BY DEF RowsIn
    <3>2. PICK j \in 1..Len(w) : f[j] = i
      BY <1>3, <3>1
    <3>. QED
      BY <1>3, <3>1, <3>2 DEF RowsIn
  <2>. QED
    BY <2>1, <2>2
<1>. QED
  BY <1>4, <1>5 DEF w

\* A row with a new id and a new token is added at the end.
LEMMA AddingKeeps ==
  ASSUME NEW s, Keyed(s), NEW d \in Device,
         \A e \in RowsIn(s) : e.id # d.id /\ e.token # d.token
  PROVE  Keyed(Append(s, d)) /\ RowsIn(Append(s, d)) = RowsIn(s) \cup {d}
<1> DEFINE w == Append(s, d)
<1>1. s \in Seq(Device) /\ Len(s) \in Nat
  BY DEF Keyed
<1>2. /\ w \in Seq(Device) /\ Len(w) = Len(s) + 1 /\ w[Len(s) + 1] = d
      /\ \A i \in 1..Len(s) : w[i] = s[i]
  BY <1>1, AppendProperties
<1> HIDE DEF w
<1>3. \A i \in 1..Len(w) : i \in 1..Len(s) \/ i = Len(s) + 1
  BY <1>1, <1>2
<1>4. \A i \in 1..Len(s) : s[i] \in RowsIn(s)
  BY DEF RowsIn
<1>5. Keyed(w)
  BY <1>2, <1>3, <1>4 DEF Keyed
<1>6. RowsIn(w) = RowsIn(s) \cup {d}
  <2>1. ASSUME NEW e \in RowsIn(w) PROVE e \in RowsIn(s) \cup {d}
    BY <1>2, <1>3 DEF RowsIn
  <2>2. 1..Len(s) \subseteq 1..Len(w) /\ Len(s) + 1 \in 1..Len(w)
    BY <1>1, <1>2
  <2>3. RowsIn(s) \subseteq RowsIn(w)
    BY <1>2, <2>2 DEF RowsIn
  <2>4. d \in RowsIn(w)
    BY <1>2, <2>2 DEF RowsIn
  <2>. QED
    BY <2>1, <2>3, <2>4
<1>. QED
  BY <1>5, <1>6 DEF w

\* Dropping the oldest rows keeps the keys and the later rows.
LEMMA DroppingKeeps ==
  ASSUME NEW s, Keyed(s), NEW n \in Nat, n <= Len(s)
  PROVE  /\ Keyed(SubSeq(s, n + 1, Len(s)))
         /\ RowsIn(SubSeq(s, n + 1, Len(s))) = {s[i] : i \in n + 1..Len(s)}
<1> DEFINE w == SubSeq(s, n + 1, Len(s))
<1>1. s \in Seq(Device) /\ Len(s) \in Nat /\ \A i \in n + 1..Len(s) : s[i] \in Device
  BY DEF Keyed
<1>2. w \in Seq(Device) /\ Len(w) = Len(s) - n /\ \A i \in 1..Len(w) : w[i] = s[n + i]
  <2>1. /\ SubSeq(s, n + 1, Len(s)) \in Seq(Device)
        /\ Len(SubSeq(s, n + 1, Len(s))) =
             IF n + 1 <= Len(s) THEN Len(s) - (n + 1) + 1 ELSE 0
        /\ \A i \in 1..Len(s) - (n + 1) + 1 :
             SubSeq(s, n + 1, Len(s))[i] = s[n + 1 + i - 1]
    BY <1>1, SubSeqProperties
  <2>2. Len(w) = Len(s) - n /\ Len(s) - (n + 1) + 1 = Len(s) - n
    BY <1>1, <2>1
  <2>3. \A i \in 1..Len(s) - n : n + 1 + i - 1 = n + i
    OBVIOUS
  <2>. QED
    BY <2>1, <2>2, <2>3
<1> HIDE DEF w
<1>3. \A i \in 1..Len(w) : n + i \in 1..Len(s)
  BY <1>1, <1>2
<1>4. Keyed(w)
  <2> SUFFICES ASSUME NEW i \in 1..Len(w), NEW j \in 1..Len(w),
                      w[i].id = w[j].id \/ w[i].token = w[j].token
               PROVE  i = j
    BY <1>2 DEF Keyed
  <2>1. n + i \in 1..Len(s) /\ n + j \in 1..Len(s)
    BY <1>3
  <2>2. s[n + i].id = s[n + j].id \/ s[n + i].token = s[n + j].token
    BY <1>2
  <2>3. n + i = n + j
    BY <2>1, <2>2 DEF Keyed
  <2>. QED
    BY <1>1, <1>2, <2>3
<1>5. RowsIn(w) = {s[i] : i \in n + 1..Len(s)}
  <2>1. ASSUME NEW i \in n + 1..Len(s)
        PROVE  i - n \in 1..Len(w) /\ w[i - n] = s[i]
    <3>1. i - n \in 1..Len(w) /\ n + (i - n) = i
      BY <1>1, <1>2
    <3>. QED
      BY <1>2, <3>1
  <2>2. \A i \in 1..Len(w) : n + i \in n + 1..Len(s)
    BY <1>1, <1>2
  <2>3. \A e \in RowsIn(w) : e \in {s[i] : i \in n + 1..Len(s)}
    BY <1>2, <2>2 DEF RowsIn
  <2>4. \A e \in {s[i] : i \in n + 1..Len(s)} : e \in RowsIn(w)
    BY <2>1 DEF RowsIn
  <2>. QED
    BY <2>3, <2>4
<1>. QED
  BY <1>4, <1>5 DEF w

\* So many rows as places.
LEMMA KeyedCount ==
  ASSUME NEW s, Keyed(s)
  PROVE  /\ IsFiniteSet(RowsIn(s)) /\ Cardinality(RowsIn(s)) = Len(s)
         /\ RowsIn(s) \subseteq Device
         /\ \A d, e \in RowsIn(s) : d.id = e.id \/ d.token = e.token => d = e
<1> DEFINE f == [i \in 1..Len(s) |-> s[i]]
<1>1. Len(s) \in Nat /\ \A i \in 1..Len(s) : s[i] \in Device
  BY DEF Keyed
<1>2. f \in Bijection(1..Len(s), RowsIn(s))
  <2>1. f \in [1..Len(s) -> RowsIn(s)]
    BY DEF RowsIn
  <2>2. \A i, j \in 1..Len(s) : f[i] = f[j] => i = j
    BY DEF Keyed
  <2>3. \A d \in RowsIn(s) : \E i \in 1..Len(s) : f[i] = d
    BY DEF RowsIn
  <2> HIDE DEF f
  <2>. QED
    BY <2>1, <2>2, <2>3 DEF Bijection, Injection, IsInjective, Surjection
<1>3. IsFiniteSet(1..Len(s)) /\ Cardinality(1..Len(s)) = Len(s)
  BY <1>1, FS_Interval
<1>4. IsFiniteSet(RowsIn(s)) /\ Cardinality(RowsIn(s)) = Len(s)
  <2> HIDE DEF f
  <2>. QED
    BY <1>2, <1>3, FS_Bijection DEF ExistsBijection
<1>5. RowsIn(s) \subseteq Device
  BY <1>1 DEF RowsIn
<1>6. \A d, e \in RowsIn(s) : d.id = e.id \/ d.token = e.token => d = e
  BY DEF Keyed, RowsIn
<1>. QED
  BY <1>4, <1>5, <1>6

-----------------------------------------------------------------------------
(***************************************************************************)
(* Types.  Only who has joined is told of a thing, and users join one at a *)
(* time: there are finitely many notices, and so a next moment.            *)
(***************************************************************************)
NoticeTypes ==
  /\ joined \subseteq Users /\ optedOut \subseteq Users /\ dead \subseteq Tokens
  /\ Keyed(devices) /\ notices \subseteq Notice /\ calls \subseteq Call
  /\ announced \subseteq Topics /\ happened \subseteq Happening
  /\ doubled \subseteq Users
  /\ pushed \cup after \subseteq [user : Users, about : Topics]
  /\ kept \subseteq [user : Users, token : Tokens] /\ shot \subseteq Tokens
  /\ IsFiniteSet(joined) /\ IsFiniteSet(notices)
  /\ \A x \in calls : x.pc = "store" => IsFiniteSet(x.users)

LEMMA RowsAreRowsIn == Rows = RowsIn(devices)
BY DEF Rows, RowsIn

\* What a call carries, and what it may become.
LEMMA Registrations ==
  ASSUME NEW x \in Call, x.pc \in {"owner", "evict", "mine", "save"}
  PROVE  /\ x.user \in Users /\ x.token \in Tokens
         /\ x.pc = "save" => x.id \in RowIds
         /\ x.pc = "owner" => /\ [x EXCEPT !.pc = "evict"] \in Call
                              /\ [x EXCEPT !.pc = "mine"] \in Call
         /\ x.pc = "evict" => [x EXCEPT !.pc = "mine"] \in Call
         /\ \A i \in RowIds :
              [pc |-> "save", user |-> x.user, token |-> x.token, id |-> i] \in Call
BY DEF Call

LEMMA Tellings ==
  ASSUME NEW x \in Call, x.pc \in {"store", "filter", "tokens"}
  PROVE  /\ x.about \in Topics /\ x.users \subseteq Users
         /\ PushHandler(x) \in Call
         /\ x.pc = "filter" => \A us \in SUBSET Users :
              /\ [x EXCEPT !.pc = "tokens", !.users = us] \in Call
              /\ [x EXCEPT !.pc = "tokens", !.users = us]
                   = [pc |-> "tokens", about |-> x.about, users |-> us]
<1> DEFINE K == [pc : {"filter", "tokens"}, about : Topics, users : SUBSET Users]
<1>1. x.pc = "filter" => x \in K
  BY DEF Call
<1>2. x.about \in Topics /\ x.users \in SUBSET Users
  BY DEF Call
<1>3. \A us \in SUBSET Users :
        /\ [pc |-> "tokens", about |-> x.about, users |-> us] \in Call
        /\ [pc |-> "filter", about |-> x.about, users |-> us] \in Call
  BY <1>2 DEF Call
<1>4. ASSUME x.pc = "filter", NEW us \in SUBSET Users
      PROVE  [x EXCEPT !.pc = "tokens", !.users = us]
               = [pc |-> "tokens", about |-> x.about, users |-> us]
  <2> DEFINE y == [x EXCEPT !.pc = "tokens", !.users = us]
  <2>1. y \in K /\ y.pc = "tokens" /\ y.about = x.about /\ y.users = us
    BY <1>1, <1>4
  <2> HIDE DEF y
  <2>2. y = [pc |-> y.pc, about |-> y.about, users |-> y.users]
    BY <2>1
  <2>3. y = [pc |-> "tokens", about |-> x.about, users |-> us]
    BY <2>1, <2>2
  <2>. QED
    BY <2>3 DEF y
<1>. QED
  BY <1>2, <1>3, <1>4 DEF PushHandler

LEMMA OtherCalls ==
  ASSUME NEW x \in Call
  PROVE  /\ x.pc = "send" => /\ x.about \in Topics
                             /\ x.to \subseteq [user : Users, token : Tokens]
         /\ x.pc = "failed" => x.tokens \subseteq Tokens
         /\ x.pc = "reading" => x.copy \in Notice
         /\ x.pc \in {"owner", "evict", "mine", "save", "store", "filter",
                      "tokens", "send", "failed", "reading"}
BY DEF Call

\* The image of a finite set is finite.
LEMMA FiniteImageOf ==
  ASSUME NEW S, IsFiniteSet(S), NEW f, DOMAIN f = S
  PROVE  IsFiniteSet({f[x] : x \in S})
<1> DEFINE g == [x \in S |-> f[x]]
           T == {f[x] : x \in S}
<1>1. g \in Surjection(S, T)
  BY DEF Surjection
<1>. QED
  BY <1>1, FS_Surjection

\* Finitely many users get finitely many notices of one thing.
LEMMA RowsOfFew ==
  ASSUME NEW S, IsFiniteSet(S), NEW a, NEW i
  PROVE  IsFiniteSet([user : S, about : {a}, nth : {i}, readAt : {0}])
<1> DEFINE f == [u \in S |-> [user |-> u, about |-> a, nth |-> i, readAt |-> 0]]
<1>1. DOMAIN f = S
  OBVIOUS
<1> DEFINE rows == [user : S, about : {a}, nth : {i}, readAt : {0}]
<1>2. \A u \in S : f[u] \in rows
  OBVIOUS
<1>3. \A r \in rows : r.user \in S /\ r = f[r.user]
  <2> TAKE r \in rows
  <2>1. /\ r = [user |-> r.user, about |-> r.about, nth |-> r.nth, readAt |-> r.readAt]
        /\ r.user \in S /\ r.about = a /\ r.nth = i /\ r.readAt = 0
    OBVIOUS
  <2>. QED
    BY <2>1
<1> HIDE DEF f, rows
<1>4. rows = {f[u] : u \in S}
  BY <1>2, <1>3
<1>5. IsFiniteSet({f[u] : u \in S})
  BY <1>1, FiniteImageOf
<1>. QED
  BY <1>4, <1>5 DEF rows

\* Finitely many times have a last one: none has fewer times after it.
LEMMA LastMoment ==
  ASSUME NEW T, T \subseteq Nat, T # {}, IsFiniteSet(T)
  PROVE  Max(T) \in T
<1> DEFINE Later(t) == {u \in T : u > t}
           D == {Later(t) : t \in T}
<1>0. \A t \in T : Later(t) \in SUBSET T
  OBVIOUS
<1>1. D \subseteq FiniteSubsetsOf(T) /\ D # {}
  <2>1. FiniteSubsetsOf(T) = SUBSET T
    BY FS_FiniteSubsetsOfFinite
  <2>2. \A e \in D : e \in SUBSET T
    BY <1>0
  <2>3. PICK t0 \in T : Later(t0) \in D
    OBVIOUS
  <2>. QED
    BY <2>1, <2>2, <2>3
<1>2. IsWellFoundedOn(StrictSubsetOrdering(T), FiniteSubsetsOf(T))
  BY FS_StrictSubsetOrderingWellFounded
<1>3. PICK d \in D : \A e \in D : ~(<<e, d>> \in StrictSubsetOrdering(T))
  BY <1>1, <1>2, WFMin
<1>4. PICK t \in T : d = Later(t)
  OBVIOUS
<1>5. \A u \in T : t >= u
  <2> SUFFICES ASSUME NEW u \in T, ~(t >= u) PROVE FALSE
    OBVIOUS
  <2>0. u \in Nat /\ t \in Nat /\ u > t /\ ~(u > u)
    OBVIOUS
  <2>1. Later(u) \subseteq Later(t) /\ u \in Later(t) /\ u \notin Later(u)
    <3>1. \A v \in T : v > u => v > t
      BY <2>0
    <3>. QED
      BY <2>0, <3>1
  <2>2. <<Later(u), Later(t)>> \in StrictSubsetOrdering(T)
    BY <2>1 DEF StrictSubsetOrdering
  <2>. QED
    BY <1>3, <1>4, <2>2
<1>. QED
  BY <1>4, <1>5 DEF Max

\* When there are notices there is a next moment, and it is not zero.
LEMMA MomentIsLater ==
  ASSUME NoticeTypes, notices # {}
  PROVE  Moment \in Nat /\ Moment # 0
<1> DEFINE times == {n.readAt : n \in notices}
           f == [n \in notices |-> n.readAt]
<1>1. IsFiniteSet({f[n] : n \in notices})
  BY FiniteImageOf DEF NoticeTypes
<1>2. times = {f[n] : n \in notices} /\ times \subseteq Nat /\ times # {}
  BY DEF NoticeTypes, Notice
<1>3. Max(times) \in Nat
  <2> HIDE DEF times
  <2>. QED
    BY <1>1, <1>2, LastMoment
<1>. QED
  BY <1>3 DEF Moment

\* A notice that is marked is the row it was.
LEMMA MarkedNotice ==
  ASSUME NEW n \in Notice, NEW t \in Nat
  PROVE  /\ MarkAsRead(n, t) \in Notice
         /\ SameRow(MarkAsRead(n, t), n)
         /\ n.readAt # 0 => MarkAsRead(n, t) = n
         /\ t # 0 => MarkAsRead(n, t).readAt # 0
BY DEF MarkAsRead, Notice, SameRow

\* The calls that register keep types and keys.
LEMMA RegisteringKeepsTypes ==
  ASSUME NoticeTypes, RegistersDevice
  PROVE  NoticeTypes'
<1> USE DEF NoticeTypes, noticeHistory, Moves, Ends
<1>1. CASE \E u \in Users, t \in Tokens : RegisterValidates(u, t)
  BY <1>1 DEF RegisterValidates, Call
<1>2. ASSUME NEW x \in calls, RegisterFindsToken(x) PROVE NoticeTypes'
  <2>1. [x EXCEPT !.pc = "evict"] \in Call /\ [x EXCEPT !.pc = "mine"] \in Call
    BY <1>2, Registrations DEF RegisterFindsToken
  <2>2. /\ [x EXCEPT !.pc = "evict"].pc = "evict"
        /\ [x EXCEPT !.pc = "mine"].pc = "mine"
    BY <1>2 DEF RegisterFindsToken, Call
  <2>. QED
    BY <1>2, <2>1, <2>2 DEF RegisterFindsToken
<1>3. ASSUME NEW x \in calls, RegisterEvicts(x) PROVE NoticeTypes'
  <2>0. x.token \in Tokens /\ [x EXCEPT !.pc = "mine"] \in Call
    BY <1>3, Registrations DEF RegisterEvicts
  <2>1. [x EXCEPT !.pc = "mine"].pc = "mine"
    BY <1>3 DEF RegisterEvicts, Call
  <2>2. Keyed(devices')
    BY <1>3, DeletingKeeps DEF RegisterEvicts, DeleteByToken, Without
  <2>. QED
    BY <1>3, <2>0, <2>1, <2>2 DEF RegisterEvicts
<1>4. ASSUME NEW x \in calls, NEW i \in RowIds, RegisterFindsUser(x, i)
      PROVE  NoticeTypes'
  <2>1. [pc |-> "save", user |-> x.user, token |-> x.token, id |-> i] \in Call
    BY <1>4, Registrations DEF RegisterFindsUser
  <2>. QED
    BY <1>4, <2>1 DEF RegisterFindsUser
<1>5. ASSUME NEW x \in calls, RegisterSaves(x) PROVE NoticeTypes'
  <2> DEFINE d == [id |-> x.id, user |-> x.user, token |-> x.token]
             w == Without({e \in Rows : e.id = x.id})
  <2>1. /\ x.pc = "save" /\ ~TokenTaken(x) /\ devices' = Append(w, d)
        /\ x.user \in Users /\ x.token \in Tokens /\ x.id \in RowIds
    BY <1>5, Registrations DEF RegisterSaves
  <2>2. d \in Device /\ d.id = x.id /\ d.token = x.token
    BY <2>1 DEF Device
  <2>3. Keyed(w) /\ RowsIn(w) = Rows \ {e \in Rows : e.id = x.id}
    BY DeletingKeeps, RowsAreRowsIn DEF Without
  <2> HIDE DEF d, w
  <2>4. \A e \in RowsIn(w) : e.id # d.id /\ e.token # d.token
    BY <2>1, <2>2, <2>3 DEF TokenTaken
  <2>5. Keyed(devices')
    BY <2>1, <2>2, <2>3, <2>4, AddingKeeps
  <2>6. /\ kept' \subseteq kept \cup {[user |-> x.user, token |-> x.token]}
        /\ shot' \subseteq shot \cup {x.token} /\ calls' \subseteq calls
        /\ UNCHANGED <<joined, optedOut, dead, notices, announced, happened,
                       doubled, pushed, after>>
    BY <1>5 DEF RegisterSaves
  <2>. QED
    BY <2>1, <2>5, <2>6
<1>6. ASSUME NEW x \in calls, RegisterFails(x) PROVE NoticeTypes'
  BY <1>6 DEF RegisterFails
<1>. QED
  BY <1>1, <1>2, <1>3, <1>4, <1>5, <1>6 DEF RegistersDevice

\* So do removals and clean-ups.
LEMMA RemovingKeepsTypes ==
  ASSUME NoticeTypes, RemovesDevices
  PROVE  NoticeTypes'
<1> USE DEF NoticeTypes
<1>1. CASE \E t \in Tokens : RemoveDeviceToken(t)
  <2>1. PICK t \in Tokens : RemoveDeviceToken(t)
    BY <1>1
  <2>2. Keyed(devices')
    BY <2>1, DeletingKeeps DEF RemoveDeviceToken, DeleteByToken, Without
  <2>. QED
    BY <2>1, <2>2 DEF RemoveDeviceToken
<1>2. CASE \E n \in 1..Cardinality(RowIds) : CleanupStaleTokens(n)
  <2>1. PICK n \in 1..Cardinality(RowIds) : CleanupStaleTokens(n)
    BY <1>2
  <2>2. n \in Nat /\ n <= Len(devices)
    BY <2>1 DEF CleanupStaleTokens
  <2>3. Keyed(devices')
    BY <2>1, <2>2, DroppingKeeps DEF CleanupStaleTokens, DropsOldest
  <2>. QED
    BY <2>1, <2>3 DEF CleanupStaleTokens
<1>. QED
  BY <1>1, <1>2 DEF RemovesDevices

\* The handlers of a domain event, the store among them for its audience.
Audience(h) == h.people \ {h.by}

LEMMA HandlersAre ==
  ASSUME NEW h \in Happening, MayHappen(h), NEW x \in Handlers(h)
  PROVE  \/ x = [pc |-> "store", about |-> h.about, users |-> Audience(h),
                  twice |-> h.twice]
         \/ x = [pc |-> "filter", about |-> h.about, users |-> Audience(h)]
         \/ x = [pc |-> "tokens", about |-> h.about, users |-> Audience(h)]
<1>1. h.kind \in Kinds /\ h.people \subseteq Users
  BY DEF Happening
<1>2. h.by = Nobody => Audience(h) = h.people
  BY <1>1, TopicsApart DEF Audience
<1>3. h.kind \notin {"created", "cancelled"} => Audience(h) = h.people
  BY <1>2 DEF MayHappen
<1>. QED
  BY <1>1, <1>2, <1>3
     DEF Handlers, Kinds, Audience, Store, Alert, Silent,
         EventCreatedNotification, EventCreatedPush, EventCancelledNotification,
         EventCancelledPush, EventStartedNotification, EventStartedPush,
         EventEndedNotification, EventEndedPush, MemberKickedNotification,
         MemberKickedPush, CharacterUnlockedPush

\* What is announced is stored for users who have joined.
LEMMA AnnouncingKeepsTypes ==
  ASSUME NoticeTypes, Announces
  PROVE  NoticeTypes'
<1> USE DEF NoticeTypes, noticeHistory
<1>1. ASSUME NEW a \in Broadcasts, BroadcastReads(a) PROVE NoticeTypes'
  <2> DEFINE y == [pc |-> "store", about |-> a, users |-> joined, twice |-> {}]
  <2>1. y \in Call /\ y.pc = "store" /\ y.users = joined
    BY DEF Call, Topics
  <2>2. calls' = calls \cup {y} /\ announced' = announced \cup {a}
    BY <1>1 DEF BroadcastReads
  <2> HIDE DEF y
  <2>. QED
    BY <1>1, <2>1, <2>2 DEF BroadcastReads, Topics
<1>2. ASSUME NEW h \in Happening, Happens(h) PROVE NoticeTypes'
  <2>1. /\ h.about \in Topics /\ Audience(h) \subseteq Users /\ h.twice \subseteq Users
        /\ IsFiniteSet(Audience(h))
    <3>1. h.about \in Topics /\ h.twice \subseteq Users /\ Audience(h) \subseteq joined
      BY <1>2 DEF Happening, Topics, Happens, MayHappen, Audience
    <3>. QED
      BY <3>1, FS_Subset
  <2>2. \A x \in Handlers(h) : x \in Call /\ (x.pc = "store" => IsFiniteSet(x.users))
    <3> TAKE x \in Handlers(h)
    <3>1. \/ x = [pc |-> "store", about |-> h.about, users |-> Audience(h),
                   twice |-> h.twice]
          \/ x = [pc |-> "filter", about |-> h.about, users |-> Audience(h)]
          \/ x = [pc |-> "tokens", about |-> h.about, users |-> Audience(h)]
      BY <1>2, HandlersAre DEF Happens
    <3>. QED
      BY <2>1, <3>1 DEF Call
  <2>. QED
    BY <1>2, <2>1, <2>2 DEF Happens
<1>3. ASSUME NEW x \in calls, NEW sendPush \in BOOLEAN, Stores(x, sendPush)
      PROVE  NoticeTypes'
  <2> DEFINE new == NoticesOf(x)
  <2>1. /\ x.pc = "store" /\ x.about \in Topics /\ x.users \subseteq Users
        /\ PushHandler(x) \in Call /\ PushHandler(x).pc = "filter"
    BY <1>3, Tellings DEF Stores, PushHandler
  <2>2. new \subseteq Notice
    BY <2>1 DEF Notice, NoticesOf
  <2>3. IsFiniteSet(new)
    <3>1. IsFiniteSet(x.users) /\ IsFiniteSet(x.users \cap x.twice)
      BY <2>1, FS_Subset DEF NoticeTypes
    <3>2. /\ IsFiniteSet([user : x.users, about : {x.about}, nth : {1}, readAt : {0}])
          /\ IsFiniteSet([user : x.users \cap x.twice, about : {x.about}, nth : {2},
                          readAt : {0}])
      BY <3>1, RowsOfFew
    <3>. QED
      BY <3>2, FS_Union DEF NoticesOf
  <2>4. notices' = notices \cup new
        /\ calls' \subseteq calls \cup {PushHandler(x)}
        /\ UNCHANGED <<joined, optedOut, devices, dead, noticeHistory>>
    BY <1>3 DEF Stores, Moves, Ends
  <2> HIDE DEF new
  <2>5. IsFiniteSet(notices')
    BY <2>3, <2>4, FS_Union
  <2>. QED
    BY <2>1, <2>2, <2>4, <2>5
<1>. QED
  BY <1>1, <1>2, <1>3 DEF Announces

\* Pushes tell users of topics.
LEMMA PushingKeepsTypes ==
  ASSUME NoticeTypes, Pushes
  PROVE  NoticeTypes'
<1> USE DEF NoticeTypes, noticeHistory
<1>0. RowsIn(devices) \subseteq Device
  BY KeyedCount
<1>1. ASSUME NEW x \in calls, Filters(x) PROVE NoticeTypes'
  <2> DEFINE y == [x EXCEPT !.pc = "tokens", !.users = FindSubscribedAmong(x.users)]
  <2>1. x.pc = "filter" /\ FindSubscribedAmong(x.users) \in SUBSET Users
    BY <1>1 DEF Filters, FindSubscribedAmong
  <2>2. y \in Call
        /\ y = [pc |-> "tokens", about |-> x.about, users |-> FindSubscribedAmong(x.users)]
    BY <2>1, Tellings
  <2>3. y.pc = "tokens"
    BY <2>2
  <2>4. calls' \subseteq calls \cup {y}
    BY <1>1 DEF Filters, Moves
  <2> HIDE DEF y
  <2>. QED
    BY <1>1, <2>2, <2>3, <2>4 DEF Filters
<1>2. ASSUME NEW x \in calls, ResolvesTokens(x) PROVE NoticeTypes'
  <2> DEFINE to == FindTokensByUserIds(x.users)
             y == [pc |-> "send", about |-> x.about, to |-> to]
  <2>1. to \subseteq [user : Users, token : Tokens]
    BY <1>0, RowsAreRowsIn DEF FindTokensByUserIds, Device
  <2>2. x.about \in Topics
    BY <1>2, Tellings DEF ResolvesTokens
  <2>3. y \in Call /\ y.pc = "send"
    BY <2>1, <2>2 DEF Call
  <2>4. calls' \subseteq calls \cup {y}
    BY <1>2 DEF ResolvesTokens, Moves, Ends
  <2> HIDE DEF y, to
  <2>. QED
    BY <1>2, <2>3, <2>4 DEF ResolvesTokens
<1>3. ASSUME NEW x \in calls, HandlesFailedTokens(x) PROVE NoticeTypes'
  <2>1. Keyed(devices')
    BY <1>3, DeletingKeeps DEF HandlesFailedTokens, DeleteByTokens, Without
  <2>. QED
    BY <1>3, <2>1 DEF HandlesFailedTokens, Ends
<1>4. ASSUME NEW x \in calls, NEW failed \in SUBSET Tokens, Sends(x, failed)
      PROVE  NoticeTypes'
  <2> DEFINE y == [pc |-> "failed", tokens |-> failed]
  <2>1. y \in Call /\ y.pc = "failed"
    BY DEF Call
  <2>2. x.about \in Topics /\ x.to \subseteq [user : Users, token : Tokens]
    BY <1>4, OtherCalls DEF Sends
  <2>3. {[user |-> p.user, about |-> x.about] : p \in {q \in x.to : q.token \notin failed}}
          \subseteq [user : Users, about : Topics]
    BY <2>2
  <2>4. calls' \subseteq calls \cup {y} /\ kept' \subseteq kept
    BY <1>4 DEF Sends, Moves, Ends
  <2> HIDE DEF y
  <2>. QED
    BY <1>4, <2>1, <2>3, <2>4 DEF Sends
<1>. QED
  BY <1>1, <1>2, <1>3, <1>4 DEF Pushes

\* Reading marks notices at a time.
LEMMA ReadingKeepsTypes ==
  ASSUME NoticeTypes, Reads,
         \A x \in calls : x.pc = "reading" => notices # {}
  PROVE  NoticeTypes'
<1> USE DEF NoticeTypes, noticeHistory
<1>1. ASSUME NEW n \in notices, ReadFinds(n) PROVE NoticeTypes'
  BY <1>1 DEF ReadFinds, Call
<1>2. ASSUME NEW x \in calls, ReadSaves(x) PROVE NoticeTypes'
  <2> DEFINE stay == {n \in notices : ~SameRow(n, x.copy)}
             m == MarkAsRead(x.copy, Moment)
  <2>1. Moment \in Nat /\ x.copy \in Notice
    BY <1>2, MomentIsLater, OtherCalls DEF ReadSaves
  <2>2. m \in Notice
    BY <2>1, MarkedNotice
  <2>3. notices' = stay \cup {m} /\ calls' \subseteq calls
    BY <1>2 DEF ReadSaves, Ends
  <2>4. IsFiniteSet(stay)
    BY FS_Subset
  <2> HIDE DEF m
  <2>5. IsFiniteSet(notices') /\ notices' \subseteq Notice
    BY <2>2, <2>3, <2>4, FS_AddElement
  <2>. QED
    BY <1>2, <2>3, <2>5 DEF ReadSaves
<1>3. ASSUME NEW u \in Users, MarkAllAsRead(u) PROVE NoticeTypes'
  <2> DEFINE f == [n \in notices |-> IF n.user = u THEN MarkAsRead(n, Moment) ELSE n]
  <2>1. Moment \in Nat
    BY <1>3, MomentIsLater DEF MarkAllAsRead
  <2>2. \A n \in notices : f[n] \in Notice
    BY <2>1, MarkedNotice
  <2>3. notices' = {f[n] : n \in notices}
    BY <1>3 DEF MarkAllAsRead
  <2>4. DOMAIN f = notices
    OBVIOUS
  <2> HIDE DEF f
  <2>5. IsFiniteSet({f[n] : n \in notices})
    BY <2>4, FiniteImageOf
  <2>. QED
    BY <1>3, <2>2, <2>3, <2>5 DEF MarkAllAsRead
<1>. QED
  BY <1>1, <1>2, <1>3 DEF Reads

\* Users join one at a time.
LEMMA SurroundingsKeepTypes ==
  ASSUME NoticeTypes, Surroundings
  PROVE  NoticeTypes'
<1> USE DEF NoticeTypes, noticeHistory
<1>1. ASSUME NEW u \in Users, Joins(u) PROVE NoticeTypes'
  <2>1. IsFiniteSet(joined')
    BY <1>1, FS_AddElement DEF Joins
  <2>. QED
    BY <1>1, <2>1 DEF Joins
<1>2. ASSUME NEW u \in Users, Chooses(u) PROVE NoticeTypes'
  BY <1>2 DEF Chooses
<1>3. ASSUME NEW t \in Tokens, Dies(t) PROVE NoticeTypes'
  BY <1>3 DEF Dies
<1>4. ASSUME ProcessEnds PROVE NoticeTypes'
  BY <1>4 DEF ProcessEnds
<1>. QED
  BY <1>1, <1>2, <1>3, <1>4 DEF Surroundings

-----------------------------------------------------------------------------
(***************************************************************************)
(* The notices.  A topic is announced once, by one broadcast or one domain *)
(* event, and stored once; every call that tells of it, every notice and   *)
(* every push of it is of its audience.  Of a broadcast, a user who has    *)
(* not joined since is going to have the notice while it is to be stored,  *)
(* and has it afterwards.                                                  *)
(***************************************************************************)
Told(about) == {n.user : n \in {m \in notices : m.about = about}}
Telling == {x \in calls : x.pc \in {"store", "filter", "tokens", "send"}}
Reading == {x \in calls : x.pc = "reading"}

AnnouncedOnce ==
  /\ \A x \in Telling \cup notices \cup pushed \cup happened : x.about \in announced
  /\ \A h \in happened : h.about \in Happenings
  /\ \A g, h \in happened : g.about = h.about => g = h
StoredOnce ==
  \A x \in Telling : x.pc = "store" =>
    /\ \A n \in notices : n.about # x.about
    /\ \A y \in Telling : y.pc = "store" /\ y.about = x.about => x = y
RowsDiffer == \A m, n \in notices : SameRow(m, n) => m = n
ReadingNotices == \A x \in Reading : \E n \in notices : SameRow(n, x.copy)

CallsTellTheAudience ==
  \A h \in happened, x \in Telling : x.about = h.about =>
    /\ x.pc = "store" => x.users = Audience(h)
    /\ x.pc \in {"filter", "tokens"} => x.users \subseteq Audience(h)
    /\ x.pc = "send" => \A p \in x.to : p.user \in Audience(h)
TheAudienceIsTold ==
  \A h \in happened :
    /\ Told(h.about) \in {{}, Audience(h)}
    /\ \A p \in pushed : p.about = h.about => p.user \in Audience(h)

JoinedSince(u, a) == [user |-> u, about |-> a] \in after
Reached(u, a) == u \in Told(a) \/ JoinedSince(u, a)
CallsReach ==
  \A x \in Telling : x.about \in Broadcasts =>
    /\ x.pc = "store" => \A u \in joined : u \in x.users \/ JoinedSince(u, x.about)
    /\ x.pc = "filter" => \A u \in joined : Reached(u, x.about)
    /\ x.pc = "tokens" => \A u \in x.users : Reached(u, x.about)
    /\ x.pc = "send" => \A p \in x.to : Reached(p.user, x.about)
PushedAreReached ==
  \A p \in pushed : p.about \in Broadcasts => Reached(p.user, p.about)

NoticeInv ==
  /\ AnnouncedOnce /\ StoredOnce /\ RowsDiffer /\ ReadingNotices
  /\ CallsTellTheAudience /\ TheAudienceIsTold /\ CallsReach /\ PushedAreReached

\* A step after which fewer calls tell or read keeps it.
LEMMA FewerCallsKeep ==
  ASSUME NoticeInv, UNCHANGED <<notices, announced, happened, pushed, after, joined>>,
         Telling' \subseteq Telling, Reading' \subseteq Reading
  PROVE  NoticeInv'
<1>1. \A a : Told(a)' = Told(a)
  BY DEF Told
<1>2. \A u, a : JoinedSince(u, a)' = JoinedSince(u, a) /\ Reached(u, a)' = Reached(u, a)
  BY <1>1 DEF Reached, JoinedSince
<1> USE DEF NoticeInv
<1>3. AnnouncedOnce' /\ RowsDiffer'
  BY DEF AnnouncedOnce, RowsDiffer
<1>4. StoredOnce' /\ ReadingNotices'
  BY DEF StoredOnce, ReadingNotices
<1>5. CallsTellTheAudience' /\ TheAudienceIsTold'
  BY <1>1 DEF CallsTellTheAudience, TheAudienceIsTold
<1>6. CallsReach'
  BY <1>2 DEF CallsReach
<1>7. PushedAreReached'
  BY <1>2 DEF PushedAreReached
<1>. QED
  BY <1>3, <1>4, <1>5, <1>6, <1>7

\* Registrations, removals, deletions and choices tell nobody of anything.
LEMMA OthersTellNothing ==
  ASSUME NoticeTypes, NoticeInv,
         \/ RegistersDevice \/ RemovesDevices
         \/ \E x \in calls : HandlesFailedTokens(x)
         \/ \E u \in Users : Chooses(u)
         \/ \E t \in Tokens : Dies(t)
         \/ ProcessEnds
  PROVE  NoticeInv'
<1>1. ASSUME UNCHANGED <<notices, announced, happened, pushed, after, joined>>,
             \A y \in calls' : y \in calls \/ y.pc \in {"owner", "evict", "mine", "save"}
      PROVE  NoticeInv'
  BY <1>1, FewerCallsKeep DEF Telling, Reading
<1>2. CASE RegistersDevice
  <2> USE DEF noticeHistory, Moves, Ends
  <2>1. CASE \E u \in Users, t \in Tokens : RegisterValidates(u, t)
    BY <1>1, <2>1 DEF RegisterValidates
  <2>2. ASSUME NEW x \in calls, RegisterFindsToken(x) PROVE NoticeInv'
    <3>1. /\ [x EXCEPT !.pc = "evict"].pc = "evict"
          /\ [x EXCEPT !.pc = "mine"].pc = "mine"
      BY <2>2 DEF RegisterFindsToken, NoticeTypes, Call
    <3>. QED
      BY <1>1, <2>2, <3>1 DEF RegisterFindsToken
  <2>3. ASSUME NEW x \in calls, RegisterEvicts(x) PROVE NoticeInv'
    <3>1. [x EXCEPT !.pc = "mine"].pc = "mine"
      BY <2>3 DEF RegisterEvicts, NoticeTypes, Call
    <3>. QED
      BY <1>1, <2>3, <3>1 DEF RegisterEvicts
  <2>4. ASSUME NEW x \in calls, NEW i \in RowIds, RegisterFindsUser(x, i)
        PROVE  NoticeInv'
    BY <1>1, <2>4 DEF RegisterFindsUser
  <2>5. ASSUME NEW x \in calls, RegisterSaves(x) \/ RegisterFails(x) PROVE NoticeInv'
    BY <1>1, <2>5 DEF RegisterSaves, RegisterFails
  <2>. QED
    BY <1>2, <2>1, <2>2, <2>3, <2>4, <2>5 DEF RegistersDevice
<1>3. CASE RemovesDevices
  BY <1>1, <1>3 DEF RemovesDevices, RemoveDeviceToken, CleanupStaleTokens
<1>4. CASE \E x \in calls : HandlesFailedTokens(x)
  BY <1>1, <1>4 DEF HandlesFailedTokens, noticeHistory, Ends
<1>5. CASE (\E u \in Users : Chooses(u)) \/ \E t \in Tokens : Dies(t)
  BY <1>1, <1>5 DEF Chooses, Dies, noticeHistory
<1>6. CASE ProcessEnds
  BY <1>1, <1>6 DEF ProcessEnds, noticeHistory
<1>. QED
  BY <1>2, <1>3, <1>4, <1>5, <1>6

\* A broadcast is a new topic: nothing tells of it but its own call.
LEMMA BroadcastKeepsNotices ==
  ASSUME NoticeTypes, NoticeInv, NEW a \in Broadcasts, BroadcastReads(a)
  PROVE  NoticeInv'
<1> DEFINE y == [pc |-> "store", about |-> a, users |-> joined, twice |-> {}]
<1>1. /\ a \notin announced /\ announced' = announced \cup {a}
      /\ calls' = calls \cup {y}
      /\ UNCHANGED <<joined, notices, happened, pushed, after>>
  BY DEF BroadcastReads
<1>2. y.pc = "store" /\ y.about = a /\ y.users = joined
  OBVIOUS
<1> HIDE DEF y
<1>3. Telling' = Telling \cup {y} /\ Reading' = Reading
  BY <1>1, <1>2 DEF Telling, Reading
<1>4. \A b : Told(b)' = Told(b)
  BY <1>1 DEF Told
<1>5. \A u, b : JoinedSince(u, b)' = JoinedSince(u, b) /\ Reached(u, b)' = Reached(u, b)
  BY <1>1, <1>4 DEF Reached, JoinedSince
<1> USE DEF NoticeInv
<1>6. AnnouncedOnce' /\ RowsDiffer' /\ ReadingNotices'
  BY <1>1, <1>2, <1>3 DEF AnnouncedOnce, RowsDiffer, ReadingNotices
<1>7. StoredOnce'
  BY <1>1, <1>2, <1>3 DEF AnnouncedOnce, StoredOnce
<1>8. CallsTellTheAudience' /\ TheAudienceIsTold'
  <2>1. \A h \in happened : h.about # a
    BY <1>1 DEF AnnouncedOnce
  <2>. QED
    BY <1>1, <1>2, <1>3, <1>4, <2>1 DEF CallsTellTheAudience, TheAudienceIsTold
<1>9. CallsReach'
  BY <1>1, <1>2, <1>3, <1>5 DEF CallsReach
<1>10. PushedAreReached'
  BY <1>1, <1>5 DEF PushedAreReached
<1>. QED
  BY <1>6, <1>7, <1>8, <1>9, <1>10

\* A domain event is a new topic: its handlers tell its audience of it.
LEMMA HappeningKeepsNotices ==
  ASSUME NoticeTypes, NoticeInv, NEW h \in Happening, Happens(h)
  PROVE  NoticeInv'
<1>1. /\ h.about \notin announced /\ announced' = announced \cup {h.about}
      /\ happened' = happened \cup {h} /\ calls' = calls \cup Handlers(h)
      /\ h.about \in Happenings /\ h.about \notin Broadcasts
      /\ UNCHANGED <<joined, notices, pushed, after>>
  BY TopicsApart DEF Happens, Happening
<1>2. \A x \in Handlers(h) :
        /\ x.about = h.about /\ x.users = Audience(h)
        /\ x.pc \in {"store", "filter", "tokens"}
        /\ x.pc = "store" =>
             x = [pc |-> "store", about |-> h.about, users |-> Audience(h),
                  twice |-> h.twice]
  <2> TAKE x \in Handlers(h)
  <2>1. \/ x = [pc |-> "store", about |-> h.about, users |-> Audience(h),
                 twice |-> h.twice]
        \/ x = [pc |-> "filter", about |-> h.about, users |-> Audience(h)]
        \/ x = [pc |-> "tokens", about |-> h.about, users |-> Audience(h)]
    BY HandlersAre DEF Happens
  <2>. QED
    BY <2>1
<1>3. Telling' = Telling \cup Handlers(h) /\ Reading' = Reading
  BY <1>1, <1>2 DEF Telling, Reading
<1>4. \A b : Told(b)' = Told(b)
  BY <1>1 DEF Told
<1>5. \A u, b : JoinedSince(u, b)' = JoinedSince(u, b) /\ Reached(u, b)' = Reached(u, b)
  BY <1>1, <1>4 DEF Reached, JoinedSince
<1> USE DEF NoticeInv
<1>6. AnnouncedOnce' /\ RowsDiffer' /\ ReadingNotices'
  BY <1>1, <1>2, <1>3 DEF AnnouncedOnce, RowsDiffer, ReadingNotices
<1>7. StoredOnce'
  BY <1>1, <1>2, <1>3 DEF AnnouncedOnce, StoredOnce
<1>8. \A x \in Telling \cup notices \cup pushed \cup happened : x.about # h.about
  BY <1>1 DEF AnnouncedOnce
<1>9. CallsTellTheAudience'
  BY <1>1, <1>2, <1>3, <1>8 DEF CallsTellTheAudience
<1>10. TheAudienceIsTold'
  <2>1. Told(h.about) = {}
    BY <1>8 DEF Told
  <2>. QED
    BY <1>1, <1>4, <1>8, <2>1 DEF TheAudienceIsTold
<1>11. CallsReach'
  BY <1>1, <1>2, <1>3, <1>5 DEF CallsReach
<1>12. PushedAreReached'
  BY <1>1, <1>5 DEF PushedAreReached
<1>. QED
  BY <1>6, <1>7, <1>9, <1>10, <1>11, <1>12

\* Storing adds the notices of a topic that had none, for all its users.
LEMMA StoringKeepsNotices ==
  ASSUME NoticeTypes, NoticeInv, NEW x \in calls, NEW sendPush \in BOOLEAN,
         Stores(x, sendPush)
  PROVE  NoticeInv'
<1> DEFINE new == NoticesOf(x)
<1>1. /\ x \in Telling /\ x.pc = "store" /\ notices' = notices \cup new
      /\ UNCHANGED <<joined, announced, happened, pushed, after>>
  BY DEF Stores, noticeHistory, Telling
<1>2. \A u \in x.users : \E n \in new : n.user = u /\ n.about = x.about
  <2> TAKE u \in x.users
  <2> DEFINE n == [user |-> u, about |-> x.about, nth |-> 1, readAt |-> 0]
  <2>1. n \in new /\ n.user = u /\ n.about = x.about
    BY DEF NoticesOf
  <2>. QED
    BY <2>1
<1>3. \A n \in new : n.user \in x.users /\ n.about = x.about /\ n.readAt = 0
  BY DEF NoticesOf
<1>4. \A m, n \in new : SameRow(m, n) => m = n
  BY DEF NoticesOf, SameRow
<1> HIDE DEF new
<1> DEFINE y == PushHandler(x)
<1>5. /\ y.pc = "filter" /\ y.about = x.about
      /\ calls' \subseteq (calls \ {x}) \cup {z \in {y} : x.about \in Broadcasts}
  BY DEF Stores, Moves, Ends, PushHandler
<1> HIDE DEF y
<1>6. /\ Telling' \subseteq (Telling \ {x}) \cup {z \in {y} : x.about \in Broadcasts}
      /\ Reading' \subseteq Reading
  BY <1>5 DEF Telling, Reading
<1>7. /\ Told(x.about)' = x.users /\ Told(x.about) = {}
      /\ \A b : b # x.about => Told(b)' = Told(b)
  <2>1. \A n \in notices : n.about # x.about
    BY <1>1 DEF NoticeInv, StoredOnce
  <2>2. Told(x.about)' = x.users
    BY <1>1, <1>2, <1>3, <2>1 DEF Told
  <2>3. Told(x.about) = {}
    BY <2>1 DEF Told
  <2>4. \A b : b # x.about => Told(b)' = Told(b)
    BY <1>1, <1>3 DEF Told
  <2>. QED
    BY <2>2, <2>3, <2>4
<1>8. \A u, b : /\ JoinedSince(u, b)' = JoinedSince(u, b)
                /\ Reached(u, b) => Reached(u, b)'
  BY <1>1, <1>7 DEF Reached, JoinedSince
<1> USE DEF NoticeInv
<1>9. AnnouncedOnce'
  BY <1>1, <1>3, <1>5, <1>6 DEF AnnouncedOnce
<1>10. RowsDiffer'
  BY <1>1, <1>3, <1>4 DEF RowsDiffer, StoredOnce, SameRow
<1>11. ReadingNotices'
  BY <1>1, <1>6 DEF ReadingNotices
<1>12. StoredOnce'
  BY <1>1, <1>3, <1>5, <1>6 DEF StoredOnce
<1>13. CallsTellTheAudience'
  <2>1. \A h \in happened : h.about \notin Broadcasts
    BY TopicsApart DEF AnnouncedOnce
  <2>. QED
    BY <1>1, <1>5, <1>6, <2>1 DEF CallsTellTheAudience
<1>14. TheAudienceIsTold'
  <2> SUFFICES ASSUME NEW h \in happened
               PROVE  /\ Told(h.about)' \in {{}, Audience(h)}
                      /\ \A p \in pushed : p.about = h.about => p.user \in Audience(h)
    BY <1>1 DEF TheAudienceIsTold
  <2>1. CASE h.about = x.about
    BY <1>1, <1>7, <2>1 DEF CallsTellTheAudience, TheAudienceIsTold
  <2>2. CASE h.about # x.about
    BY <1>7, <2>2 DEF TheAudienceIsTold
  <2>. QED
    BY <2>1, <2>2
<1>15. CallsReach'
  <2> SUFFICES ASSUME NEW z \in Telling', z.about \in Broadcasts
               PROVE  /\ z.pc = "store" => \A u \in joined : u \in z.users \/ JoinedSince(u, z.about)'
                      /\ z.pc = "filter" => \A u \in joined : Reached(u, z.about)'
                      /\ z.pc = "tokens" => \A u \in z.users : Reached(u, z.about)'
                      /\ z.pc = "send" => \A p \in z.to : Reached(p.user, z.about)'
    BY <1>1 DEF CallsReach
  <2>1. CASE z \in Telling
    BY <1>8, <2>1 DEF CallsReach
  <2>2. CASE z = y
    <3>1. \A u \in joined : u \in x.users \/ JoinedSince(u, x.about)
      BY <1>1, <1>5, <2>2 DEF CallsReach
    <3>2. \A u \in joined : Reached(u, x.about)'
      BY <1>7, <1>8, <3>1 DEF Reached
    <3>. QED
      BY <1>5, <2>2, <3>2
  <2>. QED
    BY <1>6, <2>1, <2>2
<1>16. PushedAreReached'
  BY <1>1, <1>8 DEF PushedAreReached
<1>. QED
  BY <1>9, <1>10, <1>11, <1>12, <1>13, <1>14, <1>15, <1>16

\* A push goes on with the same topic, to no more users.
LEMMA PushGoesOn ==
  ASSUME NoticeTypes, NoticeInv, NEW x \in calls, NEW y,
         \/ x.pc = "filter" /\ y.pc = "tokens"
         \/ x.pc = "tokens" /\ y.pc = "send",
         y.about = x.about,
         y.pc = "tokens" => y.users \subseteq x.users \cap joined,
         y.pc = "send" => \A p \in y.to : p.user \in x.users,
         calls' \subseteq (calls \ {x}) \cup {y},
         UNCHANGED <<joined, notices, announced, happened, pushed, after>>
  PROVE  NoticeInv'
<1>1. /\ x \in Telling /\ Telling' \subseteq Telling \cup {y}
      /\ Reading' \subseteq Reading
  BY DEF Telling, Reading
<1>2. \A b : Told(b)' = Told(b)
  BY DEF Told
<1>3. \A u, b : JoinedSince(u, b)' = JoinedSince(u, b) /\ Reached(u, b)' = Reached(u, b)
  BY <1>2 DEF Reached, JoinedSince
<1> USE DEF NoticeInv
<1>4. AnnouncedOnce' /\ RowsDiffer' /\ ReadingNotices'
  BY <1>1 DEF AnnouncedOnce, RowsDiffer, ReadingNotices
<1>5. StoredOnce'
  BY <1>1 DEF StoredOnce
<1>6. CallsTellTheAudience' /\ TheAudienceIsTold'
  BY <1>1, <1>2 DEF CallsTellTheAudience, TheAudienceIsTold
<1>7. CallsReach'
  BY <1>1, <1>3 DEF CallsReach
<1>8. PushedAreReached'
  BY <1>3 DEF PushedAreReached
<1>. QED
  BY <1>4, <1>5, <1>6, <1>7, <1>8

\* Who gets a push is one of those it was to tell.
LEMMA PushingKeepsNotices ==
  ASSUME NoticeTypes, NoticeInv, Pushes
  PROVE  NoticeInv'
<1>1. ASSUME NEW x \in calls, Filters(x) PROVE NoticeInv'
  <2> DEFINE y == [x EXCEPT !.pc = "tokens", !.users = FindSubscribedAmong(x.users)]
  <2>1. x \in Call /\ x.pc = "filter" /\ FindSubscribedAmong(x.users) \in SUBSET Users
    BY <1>1 DEF Filters, FindSubscribedAmong, NoticeTypes
  <2>2. y = [pc |-> "tokens", about |-> x.about, users |-> FindSubscribedAmong(x.users)]
    BY <2>1, Tellings
  <2>3. y.pc = "tokens" /\ y.about = x.about /\ y.users \subseteq x.users \cap joined
    BY <2>2 DEF FindSubscribedAmong
  <2>4. calls' \subseteq (calls \ {x}) \cup {y}
        /\ UNCHANGED <<joined, notices, announced, happened, pushed, after>>
    BY <1>1 DEF Filters, Moves, noticeHistory
  <2> HIDE DEF y
  <2>. QED
    BY <2>1, <2>3, <2>4, PushGoesOn
<1>2. ASSUME NEW x \in calls, ResolvesTokens(x) PROVE NoticeInv'
  <2> DEFINE y == [pc |-> "send", about |-> x.about, to |-> FindTokensByUserIds(x.users)]
  <2>1. x.pc = "tokens" /\ y.pc = "send" /\ y.about = x.about
    BY <1>2 DEF ResolvesTokens
  <2>2. \A p \in y.to : p.user \in x.users
    BY DEF FindTokensByUserIds
  <2>3. calls' \subseteq (calls \ {x}) \cup {y}
        /\ UNCHANGED <<joined, notices, announced, happened, pushed, after>>
    BY <1>2 DEF ResolvesTokens, Moves, Ends, noticeHistory
  <2> HIDE DEF y
  <2>. QED
    BY <2>1, <2>2, <2>3, PushGoesOn
<1>3. ASSUME NEW x \in calls, HandlesFailedTokens(x) PROVE NoticeInv'
  BY <1>3, OthersTellNothing
<1>4. ASSUME NEW x \in calls, NEW failed \in SUBSET Tokens, Sends(x, failed)
      PROVE  NoticeInv'
  <2> DEFINE new == {[user |-> p.user, about |-> x.about] :
                       p \in {q \in x.to : q.token \notin failed}}
             y == [pc |-> "failed", tokens |-> failed]
  <2>1. /\ x.pc = "send" /\ pushed' = pushed \cup new /\ y.pc = "failed"
        /\ calls' \subseteq (calls \ {x}) \cup {y}
        /\ UNCHANGED <<joined, notices, announced, happened, after>>
    BY <1>4 DEF Sends, Moves, Ends
  <2>2. \A n \in new : n.about = x.about /\ \E p \in x.to : n.user = p.user
    OBVIOUS
  <2> HIDE DEF new, y
  <2>3. x \in Telling /\ Telling' \subseteq Telling /\ Reading' \subseteq Reading
    BY <2>1 DEF Telling, Reading
  <2>4. \A b : Told(b)' = Told(b)
    BY <2>1 DEF Told
  <2>5. \A u, b : JoinedSince(u, b)' = JoinedSince(u, b) /\ Reached(u, b)' = Reached(u, b)
    BY <2>1, <2>4 DEF Reached, JoinedSince
  <2> USE DEF NoticeInv
  <2>6. AnnouncedOnce' /\ RowsDiffer' /\ ReadingNotices' /\ StoredOnce'
    BY <2>1, <2>2, <2>3 DEF AnnouncedOnce, RowsDiffer, ReadingNotices, StoredOnce
  <2>7. CallsTellTheAudience' /\ CallsReach'
    BY <2>1, <2>3, <2>5 DEF CallsTellTheAudience, CallsReach
  <2>8. TheAudienceIsTold'
    BY <2>1, <2>2, <2>3, <2>4 DEF CallsTellTheAudience, TheAudienceIsTold
  <2>9. PushedAreReached'
    BY <2>1, <2>2, <2>3, <2>5 DEF CallsReach, PushedAreReached
  <2>. QED
    BY <2>6, <2>7, <2>8, <2>9
<1>. QED
  BY <1>1, <1>2, <1>3, <1>4 DEF Pushes

\* Marking leaves the rows there were.
LEMMA SameNoticesKeep ==
  ASSUME NoticeInv,
         \A n \in notices : \E m \in notices' : SameRow(m, n),
         \A m \in notices' : \E n \in notices : SameRow(m, n),
         RowsDiffer', Telling' \subseteq Telling, Reading' \subseteq Reading,
         UNCHANGED <<joined, announced, happened, pushed, after>>
  PROVE  NoticeInv'
<1> USE DEF SameRow
<1>1. \A b : Told(b)' = Told(b)
  BY DEF Told
<1>2. \A u, b : JoinedSince(u, b)' = JoinedSince(u, b) /\ Reached(u, b)' = Reached(u, b)
  BY <1>1 DEF Reached, JoinedSince
<1> USE DEF NoticeInv
<1>3. AnnouncedOnce' /\ StoredOnce' /\ ReadingNotices'
  BY DEF AnnouncedOnce, StoredOnce, ReadingNotices
<1>4. CallsTellTheAudience' /\ TheAudienceIsTold'
  BY <1>1 DEF CallsTellTheAudience, TheAudienceIsTold
<1>5. CallsReach' /\ PushedAreReached'
  BY <1>2 DEF CallsReach, PushedAreReached
<1>. QED
  BY <1>3, <1>4, <1>5

LEMMA ReadingKeepsNotices ==
  ASSUME NoticeTypes, NoticeInv, Reads
  PROVE  NoticeInv'
<1> USE DEF noticeHistory
<1>0. \A x \in calls : x.pc = "reading" =>
        \E n \in notices : SameRow(n, x.copy)
  BY DEF NoticeInv, ReadingNotices, Reading
<1>1. ASSUME NEW n \in notices, ReadFinds(n) PROVE NoticeInv'
  <2> DEFINE y == [pc |-> "reading", copy |-> n]
  <2>1. /\ calls' = calls \cup {y} /\ y.pc = "reading" /\ y.copy = n
        /\ UNCHANGED <<joined, notices, announced, happened, pushed, after>>
    BY <1>1 DEF ReadFinds
  <2> HIDE DEF y
  <2>2. Telling' = Telling /\ Reading' = Reading \cup {y}
    BY <2>1 DEF Telling, Reading
  <2>3. \A b : Told(b)' = Told(b)
    BY <2>1 DEF Told
  <2>4. \A u, b : JoinedSince(u, b)' = JoinedSince(u, b) /\ Reached(u, b)' = Reached(u, b)
    BY <2>1, <2>3 DEF Reached, JoinedSince
  <2> USE DEF NoticeInv
  <2>5. AnnouncedOnce' /\ StoredOnce' /\ RowsDiffer' /\ ReadingNotices'
    BY <2>1, <2>2 DEF AnnouncedOnce, StoredOnce, RowsDiffer, ReadingNotices, SameRow
  <2>6. CallsTellTheAudience' /\ TheAudienceIsTold'
    BY <2>1, <2>2, <2>3 DEF CallsTellTheAudience, TheAudienceIsTold
  <2>7. CallsReach' /\ PushedAreReached'
    BY <2>1, <2>2, <2>4 DEF CallsReach, PushedAreReached
  <2>. QED
    BY <2>5, <2>6, <2>7
<1>2. ASSUME NEW x \in calls, ReadSaves(x) PROVE NoticeInv'
  <2> DEFINE m == MarkAsRead(x.copy, Moment)
  <2>1. /\ x.pc = "reading" /\ calls' \subseteq calls
        /\ notices' = {n \in notices : ~SameRow(n, x.copy)} \cup {m}
        /\ UNCHANGED <<joined, announced, happened, pushed, after>>
    BY <1>2 DEF ReadSaves, Ends
  <2>2. SameRow(m, x.copy)
    <3>1. x.copy \in Notice /\ Moment \in Nat
      BY <1>0, <2>1, OtherCalls, MomentIsLater DEF NoticeTypes
    <3>. QED
      BY <3>1, MarkedNotice
  <2> HIDE DEF m
  <2>3. RowsDiffer'
    BY <2>1, <2>2 DEF NoticeInv, RowsDiffer, SameRow
  <2>4. Telling' \subseteq Telling /\ Reading' \subseteq Reading
    BY <2>1 DEF Telling, Reading
  <2>. QED
    <3>1. \A n \in notices : \E k \in notices' : SameRow(k, n)
      BY <2>1, <2>2 DEF SameRow
    <3>2. \A k \in notices' : \E n \in notices : SameRow(k, n)
      BY <1>0, <2>1, <2>2 DEF SameRow
    <3>. QED
      BY <2>1, <2>3, <2>4, <3>1, <3>2, SameNoticesKeep
<1>3. ASSUME NEW u \in Users, MarkAllAsRead(u) PROVE NoticeInv'
  <2> DEFINE f == [n \in notices |-> IF n.user = u THEN MarkAsRead(n, Moment) ELSE n]
  <2>1. Moment \in Nat
    BY <1>3, MomentIsLater DEF MarkAllAsRead
  <2>2. \A n \in notices : SameRow(f[n], n)
    BY <2>1, MarkedNotice DEF NoticeTypes, SameRow
  <2>3. notices' = {f[n] : n \in notices}
        /\ UNCHANGED <<joined, announced, happened, pushed, after, calls>>
    BY <1>3 DEF MarkAllAsRead
  <2> HIDE DEF f
  <2>4. RowsDiffer'
    BY <2>2, <2>3 DEF NoticeInv, RowsDiffer, SameRow
  <2>5. Telling' = Telling /\ Reading' = Reading
    BY <2>3 DEF Telling, Reading
  <2>. QED
    BY <2>2, <2>3, <2>4, <2>5, SameNoticesKeep
<1>. QED
  BY <1>1, <1>2, <1>3 DEF Reads

\* Who joins now has joined since every broadcast there was.
LEMMA JoiningKeepsNotices ==
  ASSUME NoticeTypes, NoticeInv, NEW u \in Users, Joins(u)
  PROVE  NoticeInv'
<1>1. /\ joined' = joined \cup {u}
      /\ after' = after \cup [user : {u}, about : announced \cap Broadcasts]
      /\ UNCHANGED <<notices, calls, announced, happened, pushed>>
  BY DEF Joins
<1>2. Telling' = Telling /\ Reading' = Reading
  BY <1>1 DEF Telling, Reading
<1>3. \A b : Told(b)' = Told(b)
  BY <1>1 DEF Told
<1>4. \A v, b : /\ JoinedSince(v, b) => JoinedSince(v, b)'
                /\ Reached(v, b) => Reached(v, b)'
  BY <1>1, <1>3 DEF Reached, JoinedSince
<1>5. \A b \in announced \cap Broadcasts : JoinedSince(u, b)' /\ Reached(u, b)'
  BY <1>1 DEF Reached, JoinedSince
<1> USE DEF NoticeInv
<1>6. AnnouncedOnce' /\ StoredOnce' /\ RowsDiffer' /\ ReadingNotices'
  BY <1>1, <1>2 DEF AnnouncedOnce, StoredOnce, RowsDiffer, ReadingNotices
<1>7. CallsTellTheAudience' /\ TheAudienceIsTold'
  BY <1>1, <1>2, <1>3 DEF CallsTellTheAudience, TheAudienceIsTold
<1>8. CallsReach'
  <2> SUFFICES ASSUME NEW x \in Telling, x.about \in Broadcasts
               PROVE  /\ x.pc = "store" =>
                           \A v \in joined' : v \in x.users \/ JoinedSince(v, x.about)'
                      /\ x.pc = "filter" => \A v \in joined' : Reached(v, x.about)'
                      /\ x.pc = "tokens" => \A v \in x.users : Reached(v, x.about)'
                      /\ x.pc = "send" => \A p \in x.to : Reached(p.user, x.about)'
    BY <1>2 DEF CallsReach
  <2>1. x.about \in announced
    BY DEF AnnouncedOnce
  <2>. QED
    BY <1>1, <1>4, <1>5, <2>1 DEF CallsReach
<1>9. PushedAreReached'
  BY <1>1, <1>4 DEF PushedAreReached
<1>. QED
  BY <1>6, <1>7, <1>8, <1>9

\* Every step keeps the types and the notices' invariant.
LEMMA NoticesStep ==
  NoticeTypes /\ NoticeInv /\ [NoticesNext]_noticeVars => NoticeTypes' /\ NoticeInv'
<1> SUFFICES ASSUME NoticeTypes, NoticeInv, [NoticesNext]_noticeVars
             PROVE  NoticeTypes' /\ NoticeInv'
  OBVIOUS
<1>1. CASE RegistersDevice \/ RemovesDevices
  BY <1>1, RegisteringKeepsTypes, RemovingKeepsTypes, OthersTellNothing
<1>2. CASE Announces
  BY <1>2, AnnouncingKeepsTypes, BroadcastKeepsNotices, HappeningKeepsNotices,
     StoringKeepsNotices DEF Announces
<1>3. CASE Pushes
  BY <1>3, PushingKeepsTypes, PushingKeepsNotices
<1>4. CASE Reads
  <2>1. \A x \in calls : x.pc = "reading" => notices # {}
    BY DEF NoticeInv, ReadingNotices, Reading
  <2>. QED
    BY <1>4, <2>1, ReadingKeepsTypes, ReadingKeepsNotices
<1>5. CASE Surroundings
  BY <1>5, SurroundingsKeepTypes, JoiningKeepsNotices, OthersTellNothing
     DEF Surroundings
<1>6. CASE UNCHANGED noticeVars
  BY <1>6, FewerCallsKeep
     DEF noticeVars, noticeHistory, NoticeTypes, Telling, Reading
<1>. QED
  BY <1>1, <1>2, <1>3, <1>4, <1>5, <1>6 DEF NoticesNext

LEMMA NoticesStart == NoticesInit => NoticeTypes /\ NoticeInv
<1> SUFFICES ASSUME NoticesInit PROVE NoticeTypes /\ NoticeInv
  OBVIOUS
<1>1. IsFiniteSet({})
  BY FS_EmptySet
<1>2. Keyed(devices)
  BY DEF NoticesInit, Keyed
<1>3. NoticeTypes
  BY <1>1, <1>2 DEF NoticesInit, NoticeTypes
<1>4. NoticeInv
  BY DEF NoticesInit, NoticeInv, AnnouncedOnce, StoredOnce, RowsDiffer,
         ReadingNotices, CallsTellTheAudience, TheAudienceIsTold, CallsReach,
         PushedAreReached, Telling, Reading
<1>. QED
  BY <1>3, <1>4

LEMMA NoticesInvariant == NoticesSpec => [](NoticeTypes /\ NoticeInv)
BY NoticesStart, NoticesStep, PTL DEF NoticesSpec

-----------------------------------------------------------------------------
\* The types hold, and with them the keys of device_tokens: an id, and a token,
\* is in one row, whatever registers, grows stale, fails or is removed in
\* between.  Nothing is claimed of notices, which have no key but their id.
THEOREM NoticesAreTyped == NoticesSpec => []NoticesTypeOK
<1>1. NoticeTypes /\ NoticeInv => NoticesTypeOK
  <2> SUFFICES ASSUME NoticeTypes, NoticeInv PROVE NoticesTypeOK
    OBVIOUS
  <2>1. /\ Rows \subseteq Device /\ Cardinality(Rows) = Len(devices)
        /\ \A d, e \in Rows : d.id = e.id \/ d.token = e.token => d = e
    BY KeyedCount, RowsAreRowsIn DEF NoticeTypes
  <2>. QED
    BY <2>1 DEF NoticesTypeOK, NoticeTypes
<1>. QED
  BY <1>1, NoticesInvariant, PTL

\* The two handlers of a domain event, which run side by side, tell the same
\* people: nobody finds a notice of an event or hears its push who is not
\* concerned, and not whoever did it, and notices are stored for all or none.
THEOREM HandlersAgreeOnTheAudience == NoticesSpec => []OneAudience
<1>1. NoticeInv => OneAudience
  <2> SUFFICES ASSUME NoticeInv, NEW h \in happened
               PROVE  /\ Told(h.about) \in {{}, Audience(h)}
                      /\ {p.user : p \in {q \in pushed : q.about = h.about}}
                           \subseteq Audience(h)
    BY DEF OneAudience, Told, Audience
  <2>. QED
    BY DEF NoticeInv, TheAudienceIsTold
<1>. QED
  BY <1>1, NoticesInvariant, PTL

\* A push of a broadcast goes to nobody who does not find its notice in the
\* app, save who joined after the users were read: the notices come first.
THEOREM PushesHaveNotices == NoticesSpec => []PushedHaveTheNotice
<1>1. NoticeTypes /\ NoticeInv => PushedHaveTheNotice
  <2> SUFFICES ASSUME NoticeTypes, NoticeInv, NEW p \in pushed, p.about \in Broadcasts
               PROVE  p \in after \/ \E n \in notices : n.user = p.user /\ n.about = p.about
    BY DEF PushedHaveTheNotice
  <2>1. p = [user |-> p.user, about |-> p.about]
    BY DEF NoticeTypes
  <2>2. p.user \in Told(p.about) \/ p \in after
    BY <2>1 DEF NoticeInv, PushedAreReached, Reached, JoinedSince
  <2>. QED
    BY <2>2 DEF Told
<1>. QED
  BY <1>1, NoticesInvariant, PTL

\* A notice that has been read stays read, at the time it was first read,
\* unless a request that found it otherwise is still to save its copy.
THEOREM ReadTimesStay == NoticesSpec => ReadTimeStays
<1> DEFINE A == \A n \in notices : n.readAt # 0 =>
                  /\ Stale(n) = {} => n \in notices'
                  /\ \E m \in notices' : SameRow(m, n) /\ m.readAt # 0
<1>1. NoticeTypes /\ NoticeInv /\ [NoticesNext]_noticeVars => [A]_noticeVars
  <2> SUFFICES ASSUME NoticeTypes, NoticeInv, [NoticesNext]_noticeVars,
                      NEW n \in notices, n.readAt # 0
               PROVE  /\ Stale(n) = {} => n \in notices'
                      /\ \E m \in notices' : SameRow(m, n) /\ m.readAt # 0
    OBVIOUS
  <2>0. SameRow(n, n)
    BY DEF SameRow
  <2>1. CASE notices \subseteq notices'
    BY <2>0, <2>1
  <2>2. ASSUME NEW x \in calls, ReadSaves(x)
        PROVE  /\ Stale(n) = {} => n \in notices'
               /\ \E m \in notices' : SameRow(m, n) /\ m.readAt # 0
    <3> DEFINE k == MarkAsRead(x.copy, Moment)
    <3>1. /\ x.pc = "reading"
          /\ notices' = {m \in notices : ~SameRow(m, x.copy)} \cup {k}
      BY <2>2 DEF ReadSaves
    <3>2. Moment \in Nat /\ Moment # 0 /\ x.copy \in Notice
      BY <3>1, MomentIsLater, OtherCalls DEF NoticeTypes
    <3>3. /\ SameRow(k, x.copy) /\ k.readAt # 0
          /\ x.copy.readAt # 0 => k = x.copy
      BY <3>2, MarkedNotice
    <3> HIDE DEF k
    <3>4. CASE SameRow(n, x.copy)
      <4>1. SameRow(x.copy, n) /\ SameRow(k, n)
        BY <3>3, <3>4 DEF SameRow
      <4>2. Stale(n) = {} => x.copy = n
        BY <3>1, <4>1 DEF Stale
      <4>. QED
        BY <3>1, <3>3, <4>1, <4>2
    <3>5. CASE ~SameRow(n, x.copy)
      BY <2>0, <3>1, <3>5
    <3>. QED
      BY <3>4, <3>5
  <2>3. ASSUME NEW u \in Users, MarkAllAsRead(u) PROVE n \in notices'
    <3> DEFINE f == [m \in notices |-> IF m.user = u THEN MarkAsRead(m, Moment) ELSE m]
    <3>1. Moment \in Nat
      BY MomentIsLater
    <3>2. f[n] = n
      BY <3>1, MarkedNotice DEF NoticeTypes
    <3>3. notices' = {f[m] : m \in notices}
      BY <2>3 DEF MarkAllAsRead
    <3> HIDE DEF f
    <3>. QED
      BY <3>2, <3>3
  <2>4. \/ notices \subseteq notices'
        \/ \E x \in calls : ReadSaves(x)
        \/ \E u \in Users : MarkAllAsRead(u)
    BY DEF NoticesNext, noticeVars, RegistersDevice, RemovesDevices, Announces,
       Pushes, Reads, Surroundings, RegisterValidates, RegisterFindsToken,
       RegisterEvicts, RegisterFindsUser, RegisterSaves, RegisterFails,
       RemoveDeviceToken, CleanupStaleTokens, BroadcastReads, Happens, Stores,
       Filters, ResolvesTokens, Sends, HandlesFailedTokens, ReadFinds, Joins,
       Chooses, Dies, ProcessEnds
  <2>. QED
    BY <2>0, <2>1, <2>2, <2>3, <2>4
<1>. QED
  BY <1>1, NoticesInvariant, PTL DEF NoticesSpec, ReadTimeStays

-----------------------------------------------------------------------------
(***************************************************************************)
(* The device tokens.  While no two registrations of a user overlap, one   *)
(* that is about to save takes the user's row; a row, or another           *)
(* registration, with its id is the user's; and a deletion on its way for  *)
(* an older failure takes no token that counts as kept, unless shot.       *)
(***************************************************************************)
Registers == {x \in calls : x.pc \in {"owner", "evict", "mine", "save"}}
Saving == {x \in calls : x.pc = "save"}
Failures == {x \in calls : x.pc = "failed"}

OneRegistration ==
  \A x, y \in Registers : x.user = y.user /\ x.user \notin doubled => x = y
OneRowEach ==
  \A d, e \in Rows : d.user = e.user /\ d.user \notin doubled => d = e
SavesTheRow ==
  \A x \in Saving, d \in Rows :
    d.user = x.user /\ x.user \notin doubled => d.id = x.id
IdsAreTheirs ==
  \A x \in Saving :
    /\ \A d \in Rows : d.id = x.id => d.user = x.user
    /\ \A y \in Saving : y.id = x.id => y.user = x.user
FailuresAreOld ==
  \A x \in Failures, k \in kept : k.token \in x.tokens => k.token \in shot

DeviceInv ==
  /\ OneRegistration /\ OneRowEach /\ SavesTheRow /\ IdsAreTheirs
  /\ FailuresAreOld /\ RegistrationLasts

\* Fewer rows, registrations, failures and kept tokens keep all but that the
\* kept tokens have their rows.
LEMMA FewerRowsKeep ==
  ASSUME DeviceInv, Registers' \subseteq Registers, Failures' \subseteq Failures,
         Rows' \subseteq Rows, kept' \subseteq kept, shot \subseteq shot',
         doubled \subseteq doubled', RegistrationLasts'
  PROVE  DeviceInv'
<1>1. Saving' \subseteq Saving
  BY DEF Saving, Registers
<1>. QED
  BY <1>1 DEF DeviceInv, OneRegistration, OneRowEach, SavesTheRow, IdsAreTheirs,
              FailuresAreOld

\* As long as it does not save, a registration may move on.
LEMMA MovingOnKeeps ==
  ASSUME DeviceInv, NEW x \in Registers, NEW y, y.user = x.user,
         y.pc \in {"evict", "mine"}, calls' = (calls \ {x}) \cup {y},
         Rows' \subseteq Rows, kept' \subseteq kept, UNCHANGED <<shot, doubled>>,
         RegistrationLasts'
  PROVE  DeviceInv'
<1>1. /\ Registers' = (Registers \ {x}) \cup {y} /\ Failures' \subseteq Failures
      /\ Saving' \subseteq Saving
  BY DEF Registers, Failures, Saving
<1>2. OneRegistration'
  BY <1>1 DEF DeviceInv, OneRegistration
<1>. QED
  BY <1>1, <1>2 DEF DeviceInv, OneRowEach, SavesTheRow, IdsAreTheirs, FailuresAreOld

\* What tells and what reads registers nothing and deletes nothing.
LEMMA TellingKeepsDevices ==
  ASSUME NoticeTypes, DeviceInv,
         \/ Announces \/ Reads
         \/ \E x \in calls : Filters(x) \/ ResolvesTokens(x)
         \/ \E u \in Users : Joins(u) \/ Chooses(u)
         \/ \E t \in Tokens : Dies(t)
         \/ ProcessEnds \/ UNCHANGED noticeVars
  PROVE  DeviceInv'
<1> USE DEF noticeHistory, Moves, Ends
<1>1. ASSUME UNCHANGED <<devices, kept, shot, doubled>>,
             \A y \in calls' : y \in calls
               \/ y.pc \in {"store", "filter", "tokens", "send", "reading"}
      PROVE  DeviceInv'
  <2>1. Rows' = Rows
    BY <1>1 DEF Rows
  <2>2. Registers' \subseteq Registers /\ Failures' \subseteq Failures
    BY <1>1 DEF Registers, Failures
  <2>3. RegistrationLasts'
    BY <1>1, <2>1 DEF DeviceInv, RegistrationLasts
  <2>. QED
    BY <1>1, <2>1, <2>2, <2>3, FewerRowsKeep
<1>2. CASE Announces
  <2>1. ASSUME NEW a \in Broadcasts, BroadcastReads(a) PROVE DeviceInv'
    BY <1>1, <2>1 DEF BroadcastReads
  <2>2. ASSUME NEW h \in Happening, Happens(h) PROVE DeviceInv'
    <3>1. \A x \in Handlers(h) : x.pc \in {"store", "filter", "tokens"}
      BY <2>2, HandlersAre DEF Happens
    <3>. QED
      BY <1>1, <2>2, <3>1 DEF Happens
  <2>3. ASSUME NEW x \in calls, NEW sendPush \in BOOLEAN, Stores(x, sendPush)
        PROVE  DeviceInv'
    BY <1>1, <2>3 DEF Stores, PushHandler
  <2>. QED
    BY <1>2, <2>1, <2>2, <2>3 DEF Announces
<1>3. CASE Reads
  BY <1>1, <1>3 DEF Reads, ReadFinds, ReadSaves, MarkAllAsRead
<1>4. ASSUME NEW x \in calls, Filters(x) PROVE DeviceInv'
  <2> DEFINE y == [x EXCEPT !.pc = "tokens", !.users = FindSubscribedAmong(x.users)]
  <2>1. x \in Call /\ x.pc = "filter" /\ FindSubscribedAmong(x.users) \in SUBSET Users
    BY <1>4 DEF Filters, FindSubscribedAmong, NoticeTypes
  <2>2. y = [pc |-> "tokens", about |-> x.about, users |-> FindSubscribedAmong(x.users)]
    BY <2>1, Tellings
  <2>3. y.pc = "tokens"
    BY <2>2
  <2>4. calls' \subseteq calls \cup {y}
    BY <1>4 DEF Filters
  <2> HIDE DEF y
  <2>. QED
    BY <1>1, <1>4, <2>3, <2>4 DEF Filters
<1>5. ASSUME NEW x \in calls, ResolvesTokens(x) PROVE DeviceInv'
  BY <1>1, <1>5 DEF ResolvesTokens
<1>6. CASE \/ \E u \in Users : Joins(u) \/ Chooses(u)
           \/ \E t \in Tokens : Dies(t)
           \/ ProcessEnds \/ UNCHANGED noticeVars
  BY <1>1, <1>6 DEF Joins, Chooses, Dies, ProcessEnds, noticeVars
<1>. QED
  BY <1>2, <1>3, <1>4, <1>5, <1>6

\* Rows are deleted, and what they kept counts no longer.
LEMMA LosingRowsKeeps ==
  ASSUME NoticeTypes, DeviceInv, NEW lost, devices' = Without(lost),
         \A k \in kept' : k \in kept /\
            (k.token \in shot \/ \A d \in lost : d.user # k.user \/ d.token # k.token)
  PROVE  /\ Rows' = Rows \ lost
         /\ UNCHANGED shot => RegistrationLasts'
<1>1. Rows' = Rows \ lost
  <2>1. RowsIn(devices') = Rows \ lost
    BY DeletingKeeps, RowsAreRowsIn DEF NoticeTypes, Without
  <2>. QED
    BY <2>1 DEF Rows, RowsIn
<1>. QED
  BY <1>1 DEF DeviceInv, RegistrationLasts

\* A second registration of a user is an overlap.
LEMMA ValidatingKeeps ==
  ASSUME NoticeTypes, DeviceInv, NEW u \in Users, NEW t \in Tokens,
         RegisterValidates(u, t)
  PROVE  DeviceInv'
<1> DEFINE y == [pc |-> "owner", user |-> u, token |-> t]
<1>1. /\ calls' = calls \cup {y} /\ y.pc = "owner" /\ y.user = u
      /\ doubled' = IF Registering(u) # {} THEN doubled \cup {u} ELSE doubled
      /\ UNCHANGED <<devices, kept, shot>>
  BY DEF RegisterValidates
<1> HIDE DEF y
<1>2. /\ Registers' = Registers \cup {y} /\ Saving' = Saving /\ Failures' = Failures
      /\ Rows' = Rows
  BY <1>1 DEF Registers, Saving, Failures, Rows
<1>3. OneRegistration'
  <2>1. \A x \in Registers : x.user = u => u \in doubled'
    BY <1>1 DEF Registers, Registering
  <2>. QED
    BY <1>1, <1>2, <2>1 DEF DeviceInv, OneRegistration
<1>. QED
  BY <1>1, <1>2, <1>3
     DEF DeviceInv, OneRowEach, SavesTheRow, IdsAreTheirs, FailuresAreOld, RegistrationLasts

\* The id is new, or that of the user's row used last.
LEMMA FindingUserKeeps ==
  ASSUME NoticeTypes, DeviceInv, NEW x \in calls, NEW i \in RowIds,
         RegisterFindsUser(x, i)
  PROVE  DeviceInv'
<1> DEFINE y == [pc |-> "save", user |-> x.user, token |-> x.token, id |-> i]
<1>1. /\ x.pc = "mine" /\ FindsByUserId(x.user, i) /\ calls' = (calls \ {x}) \cup {y}
      /\ y.pc = "save" /\ y.user = x.user /\ y.id = i
      /\ UNCHANGED <<devices, kept, shot, doubled>>
  BY DEF RegisterFindsUser, Moves, noticeHistory
<1> HIDE DEF y
<1>2. /\ Registers' = (Registers \ {x}) \cup {y} /\ Saving' = Saving \cup {y}
      /\ Failures' = Failures /\ Rows' = Rows /\ x \in Registers
  BY <1>1 DEF Registers, Saving, Failures, Rows
<1> USE DEF DeviceInv
<1>3. OneRegistration' /\ OneRowEach'
  BY <1>1, <1>2 DEF OneRegistration, OneRowEach
<1>4. /\ \A d \in Rows : d.id = i => d.user = x.user
      /\ \A z \in Saving : z.id = i => z.user = x.user
      /\ \A d \in Rows : d.user = x.user /\ x.user \notin doubled => d.id = i
  <2>1. CASE RowsOf(x.user) = {} /\ IsNew(i)
    BY <2>1 DEF RowsOf, IsNew, Saving
  <2>2. CASE \E m \in 1..Len(devices) : devices[m].user = x.user /\ devices[m].id = i
    <3>1. PICK e \in Rows : e.user = x.user /\ e.id = i
      BY <2>2 DEF Rows
    <3>2. \A d \in Rows : d.id = i => d = e
      BY <3>1, KeyedCount, RowsAreRowsIn DEF NoticeTypes
    <3>. QED
      BY <3>1, <3>2 DEF IdsAreTheirs, OneRowEach
  <2>. QED
    BY <1>1, <2>1, <2>2 DEF FindsByUserId
<1>5. SavesTheRow' /\ IdsAreTheirs'
  BY <1>1, <1>2, <1>4 DEF SavesTheRow, IdsAreTheirs
<1>. QED
  BY <1>1, <1>2, <1>3, <1>5 DEF FailuresAreOld, RegistrationLasts

\* The row saved takes the place of the one with its id.
LEMMA SavingRowKeeps ==
  ASSUME NoticeTypes, DeviceInv, NEW x \in calls, RegisterSaves(x)
  PROVE  DeviceInv'
<1> DEFINE d == [id |-> x.id, user |-> x.user, token |-> x.token]
           k0 == [user |-> x.user, token |-> x.token]
           w == Without({e \in Rows : e.id = x.id})
<1>1. /\ x.pc = "save" /\ ~TokenTaken(x) /\ devices' = Append(w, d)
      /\ kept' = {k \in kept : k.user # x.user /\ k.token # x.token} \cup {k0}
      /\ shot' = IF \E y \in calls : y.pc = "failed" /\ x.token \in y.tokens
                 THEN shot \cup {x.token} ELSE shot
      /\ calls' = calls \ {x} /\ UNCHANGED doubled
  BY DEF RegisterSaves, Ends
<1>2. /\ d \in Device /\ d.id = x.id /\ d.user = x.user /\ d.token = x.token
      /\ k0.user = x.user /\ k0.token = x.token
  BY <1>1, Registrations DEF Device, NoticeTypes
<1>3. Keyed(w) /\ RowsIn(w) = Rows \ {e \in Rows : e.id = x.id}
  BY DeletingKeeps, RowsAreRowsIn DEF Without, NoticeTypes
<1> HIDE DEF d, k0, w
<1>4. Rows' = {e \in Rows : e.id # x.id} \cup {d}
  <2>1. \A e \in RowsIn(w) : e.id # d.id /\ e.token # d.token
    BY <1>1, <1>2, <1>3 DEF TokenTaken
  <2>2. RowsIn(devices') = RowsIn(w) \cup {d}
    BY <1>1, <1>2, <1>3, <2>1, AddingKeeps
  <2>. QED
    BY <1>3, <2>2 DEF Rows, RowsIn
<1>5. /\ Registers' = Registers \ {x} /\ Saving' = Saving \ {x} /\ x \in Saving
      /\ Failures' = Failures /\ x \in Registers /\ Saving \subseteq Registers
  BY <1>1 DEF Registers, Saving, Failures
<1> USE DEF DeviceInv
<1>6. OneRegistration'
  BY <1>1, <1>5 DEF OneRegistration
<1>7. OneRowEach'
  <2>1. \A e \in Rows : e.user = x.user /\ x.user \notin doubled => e.id = x.id
    BY <1>5 DEF SavesTheRow
  <2>. QED
    BY <1>1, <1>2, <1>4, <2>1 DEF OneRowEach
<1>8. SavesTheRow'
  <2>1. \A y \in Saving \ {x} : y.user = x.user => x.user \in doubled
    BY <1>5 DEF OneRegistration
  <2>. QED
    BY <1>1, <1>2, <1>4, <1>5, <2>1 DEF SavesTheRow
<1>9. IdsAreTheirs'
  BY <1>2, <1>4, <1>5 DEF IdsAreTheirs
<1>10. FailuresAreOld'
  BY <1>1, <1>2, <1>5 DEF FailuresAreOld, Failures
<1>11. RegistrationLasts'
  <2> SUFFICES ASSUME NEW k \in kept'
               PROVE  k.token \in shot' \/ \E e \in Rows' : e.user = k.user /\ e.token = k.token
    BY DEF RegistrationLasts
  <2>1. CASE k = k0
    BY <1>2, <1>4, <2>1
  <2>2. CASE k # k0
    <3>1. k \in kept /\ k.user # x.user
      BY <1>1, <2>2
    <3>2. \A e \in Rows : e.id = x.id => e.user = x.user
      BY <1>5 DEF IdsAreTheirs
    <3>. QED
      BY <1>1, <1>4, <3>1, <3>2 DEF RegistrationLasts
  <2>. QED
    BY <2>1, <2>2
<1>. QED
  BY <1>6, <1>7, <1>8, <1>9, <1>10, <1>11

\* Every step keeps the device tokens' invariant.
LEMMA RegisteringKeepsDevices ==
  ASSUME NoticeTypes, DeviceInv, RegistersDevice
  PROVE  DeviceInv'
<1> USE DEF noticeHistory, Moves, Ends
<1>1. ASSUME NEW x \in calls, RegisterFindsToken(x) PROVE DeviceInv'
  <2> DEFINE y == [x EXCEPT !.pc = IF OwnsAlready(x) THEN "evict" ELSE "mine"]
  <2>1. x \in Registers /\ y.user = x.user /\ y.pc \in {"evict", "mine"}
    BY <1>1 DEF RegisterFindsToken, Registers, NoticeTypes, Call
  <2>2. calls' = (calls \ {x}) \cup {y} /\ UNCHANGED <<devices, kept, shot, doubled>>
    BY <1>1 DEF RegisterFindsToken
  <2> HIDE DEF y
  <2>3. Rows' = Rows /\ RegistrationLasts'
    BY <2>2 DEF Rows, DeviceInv, RegistrationLasts
  <2>. QED
    BY <2>1, <2>2, <2>3, MovingOnKeeps
<1>2. ASSUME NEW x \in calls, RegisterEvicts(x) PROVE DeviceInv'
  <2> DEFINE y == [x EXCEPT !.pc = "mine"]
             lost == {d \in Rows : d.token = x.token}
  <2>1. x \in Registers /\ y.user = x.user /\ y.pc \in {"evict", "mine"}
    BY <1>2 DEF RegisterEvicts, Registers, NoticeTypes, Call
  <2>2. /\ calls' = (calls \ {x}) \cup {y} /\ UNCHANGED <<shot, doubled>>
        /\ devices' = Without(lost) /\ kept' = {k \in kept : k.token # x.token}
    BY <1>2 DEF RegisterEvicts, DeleteByToken
  <2> HIDE DEF y
  <2>3. Rows' = Rows \ lost /\ RegistrationLasts'
    BY <2>2, LosingRowsKeeps
  <2>. QED
    BY <2>1, <2>2, <2>3, MovingOnKeeps
<1>3. ASSUME NEW x \in calls, RegisterFails(x) PROVE DeviceInv'
  <2>1. calls' \subseteq calls /\ UNCHANGED <<devices, kept, shot, doubled>>
    BY <1>3 DEF RegisterFails
  <2>2. Rows' = Rows /\ RegistrationLasts'
    BY <2>1 DEF Rows, DeviceInv, RegistrationLasts
  <2>. QED
    BY <2>1, <2>2, FewerRowsKeep DEF Registers, Failures
<1>. QED
  BY <1>1, <1>2, <1>3, ValidatingKeeps, FindingUserKeeps, SavingRowKeeps
     DEF RegistersDevice

LEMMA RemovingKeepsDevices ==
  ASSUME NoticeTypes, DeviceInv, RemovesDevices
  PROVE  DeviceInv'
<1>1. ASSUME NEW t \in Tokens, RemoveDeviceToken(t) PROVE DeviceInv'
  <2> DEFINE lost == {d \in Rows : d.token = t}
  <2>1. /\ UNCHANGED <<calls, shot, doubled>>
        /\ devices' = Without(lost) /\ kept' = {k \in kept : k.token # t}
    BY <1>1 DEF RemoveDeviceToken, DeleteByToken
  <2>2. Rows' = Rows \ lost /\ RegistrationLasts'
    BY <2>1, LosingRowsKeeps
  <2>. QED
    BY <2>1, <2>2, FewerRowsKeep DEF Registers, Failures
<1>2. ASSUME NEW m \in 1..Cardinality(RowIds), CleanupStaleTokens(m) PROVE DeviceInv'
  <2>1. /\ m \in Nat /\ m <= Len(devices) /\ UNCHANGED <<calls, shot, doubled>>
        /\ devices' = SubSeq(devices, m + 1, Len(devices))
        /\ kept' = {k \in kept : \A i \in 1..m : k.token # devices[i].token}
    BY <1>2 DEF CleanupStaleTokens, DropsOldest
  <2>2. Rows' = {devices[i] : i \in m + 1..Len(devices)}
    <3>1. RowsIn(devices') = {devices[i] : i \in m + 1..Len(devices)}
      BY <2>1, DroppingKeeps DEF NoticeTypes
    <3>. QED
      BY <3>1 DEF Rows, RowsIn
  <2>3. Len(devices) \in Nat
    BY DEF NoticeTypes, Keyed
  <2>4. \A i \in 1..Len(devices) : i \in 1..m \/ i \in m + 1..Len(devices)
    BY <2>1, <2>3
  <2>5. Rows' \subseteq Rows
    BY <2>1, <2>2, <2>3 DEF Rows
  <2>6. RegistrationLasts'
    <3>1. SUFFICES ASSUME NEW k \in kept, \A i \in 1..m : k.token # devices[i].token,
                          k.token \notin shot
                   PROVE  \E e \in Rows' : e.user = k.user /\ e.token = k.token
      BY <2>1 DEF RegistrationLasts
    <3>2. PICK e \in Rows : e.user = k.user /\ e.token = k.token
      BY <3>1 DEF DeviceInv, RegistrationLasts
    <3>3. PICK i \in 1..Len(devices) : e = devices[i]
      BY <3>2 DEF Rows
    <3>4. i \in m + 1..Len(devices)
      BY <2>4, <3>1, <3>2, <3>3
    <3>5. e \in {devices[j] : j \in m + 1..Len(devices)}
      BY <3>3, <3>4
    <3>. QED
      BY <2>2, <3>2, <3>5
  <2>. QED
    BY <2>1, <2>5, <2>6, FewerRowsKeep DEF Registers, Failures
<1>. QED
  BY <1>1, <1>2 DEF RemovesDevices

LEMMA SendingKeepsDevices ==
  ASSUME NoticeTypes, DeviceInv, NEW x \in calls, NEW failed \in SUBSET Tokens,
         Sends(x, failed)
  PROVE  DeviceInv'
<1> DEFINE y == [pc |-> "failed", tokens |-> failed]
<1>1. /\ y.pc = "failed" /\ y.tokens = failed /\ calls' \subseteq calls \cup {y}
      /\ kept' = {k \in kept : k.token \notin failed}
      /\ UNCHANGED <<devices, shot, doubled>>
  BY DEF Sends, Moves, Ends
<1> HIDE DEF y
<1>2. /\ Registers' \subseteq Registers /\ Saving' \subseteq Saving
      /\ Failures' \subseteq Failures \cup {y} /\ Rows' = Rows
  BY <1>1 DEF Registers, Saving, Failures, Rows
<1>3. FailuresAreOld'
  BY <1>1, <1>2 DEF DeviceInv, FailuresAreOld
<1>. QED
  BY <1>1, <1>2, <1>3 DEF DeviceInv, OneRegistration, OneRowEach, SavesTheRow,
     IdsAreTheirs, RegistrationLasts

\* A deletion for a failure takes no kept token that was not shot.
LEMMA DeletingFailedKeepsDevices ==
  ASSUME NoticeTypes, DeviceInv, NEW x \in calls, HandlesFailedTokens(x)
  PROVE  DeviceInv'
<1> DEFINE lost == {d \in Rows : d.token \in x.tokens}
<1>1. /\ x \in Failures /\ calls' \subseteq calls /\ devices' = Without(lost)
      /\ UNCHANGED <<kept, shot, doubled>>
  BY DEF HandlesFailedTokens, DeleteByTokens, Ends, noticeHistory, Failures
<1>2. \A k \in kept : k.token \in shot \/ \A d \in lost : d.token # k.token
  BY <1>1 DEF DeviceInv, FailuresAreOld
<1>3. Rows' = Rows \ lost /\ RegistrationLasts'
  BY <1>1, <1>2, LosingRowsKeeps
<1>. QED
  BY <1>1, <1>3, FewerRowsKeep DEF Registers, Failures

LEMMA DevicesStep ==
  NoticeTypes /\ DeviceInv /\ [NoticesNext]_noticeVars => DeviceInv'
<1> SUFFICES ASSUME NoticeTypes, DeviceInv, [NoticesNext]_noticeVars
             PROVE  DeviceInv'
  OBVIOUS
<1>1. CASE RegistersDevice \/ RemovesDevices
  BY <1>1, RegisteringKeepsDevices, RemovingKeepsDevices
<1>2. CASE Pushes
  BY <1>2, TellingKeepsDevices, SendingKeepsDevices, DeletingFailedKeepsDevices
     DEF Pushes
<1>3. CASE Announces \/ Reads \/ Surroundings \/ UNCHANGED noticeVars
  BY <1>3, TellingKeepsDevices DEF Surroundings
<1>. QED
  BY <1>1, <1>2, <1>3 DEF NoticesNext

LEMMA DevicesStart == NoticesInit => DeviceInv
BY DEF NoticesInit, DeviceInv, OneRegistration, OneRowEach, SavesTheRow,
       IdsAreTheirs, FailuresAreOld, RegistrationLasts, Registers, Saving, Failures, Rows

LEMMA DevicesInvariant == NoticesSpec => []DeviceInv
BY DevicesStart, DevicesStep, NoticesInvariant, PTL DEF NoticesSpec

-----------------------------------------------------------------------------
\* A token is in one row, and a user none of whose registrations have
\* overlapped has one, as the SPEC of device-token asks and no key of the table
\* does.
THEOREM UsersHaveOneToken == NoticesSpec => []OneTokenPerUser
<1>1. NoticeTypes /\ DeviceInv => OneTokenPerUser
  <2>0. ASSUME NoticeTypes PROVE \A d, e \in Rows : d.token = e.token => d = e
    BY <2>0, RowsAreRowsIn DEF NoticeTypes, Keyed, RowsIn
  <2> SUFFICES ASSUME NoticeTypes, DeviceInv, NEW u \in Users \ doubled
               PROVE  Cardinality(RowsOf(u)) <= 1
    BY <2>0 DEF OneTokenPerUser
  <2>1. \A d, e \in RowsOf(u) : d = e
    BY DEF RowsOf, DeviceInv, OneRowEach
  <2>2. CASE RowsOf(u) = {}
    BY <2>2, FS_EmptySet
  <2>3. CASE RowsOf(u) # {}
    <3>1. PICK d : RowsOf(u) = {d}
      BY <2>1, <2>3
    <3>2. Cardinality({d}) = 1
      BY FS_Singleton
    <3>. QED
      BY <3>1, <3>2
  <2>. QED
    BY <2>2, <2>3
<1>. QED
  BY <1>1, NoticesInvariant, DevicesInvariant, PTL

\* A registration lasts until the user or the token's new owner registers,
\* the token is removed, grows stale or is refused: other users' saves, other
\* tokens' failures and clean-ups leave its row, save the deletion for an
\* older failure of the same token.
THEOREM RegistrationsLast == NoticesSpec => []RegistrationLasts
<1>1. DeviceInv => RegistrationLasts
  BY DEF DeviceInv
<1>. QED
  BY <1>1, DevicesInvariant, PTL

-----------------------------------------------------------------------------
(***************************************************************************)
(* The pages of a list.  Newest first is a total order of rows with keys,  *)
(* and so each row has a rank: how many come before it.                    *)
(***************************************************************************)
Ordered(rows) ==
  /\ rows \subseteq ListedRow /\ IsFiniteSet(rows)
  /\ \A r, q \in rows : r.id = q.id => r = q

LEMMA NewestFirst ==
  ASSUME NEW rows, Ordered(rows)
  PROVE  /\ \A r \in rows : ~Before(r, r)
         /\ \A r, q \in rows : r # q => Before(r, q) \/ Before(q, r)
         /\ \A r, q, p \in rows : Before(r, q) /\ Before(q, p) => Before(r, p)
<1>1. \A r \in rows : r.id \in Nat /\ r.at \in Nat
  BY PageSizeIsPositive DEF Ordered, ListedRow
<1>. QED
  BY <1>1 DEF Ordered, Before

LEMMA SortedIs ==
  ASSUME NEW rows, Ordered(rows)
  PROVE  /\ Cardinality(rows) \in Nat
         /\ Sorted(rows) \in Seq(rows) /\ Len(Sorted(rows)) = Cardinality(rows)
         /\ \A i, j \in 1..Cardinality(rows) : i < j =>
              Before(Sorted(rows)[i], Sorted(rows)[j])
         /\ \A r \in rows : \E i \in 1..Cardinality(rows) : Sorted(rows)[i] = r
<1> DEFINE n == Cardinality(rows)
           rank(r) == Cardinality(Above(r, rows))
           place == [r \in rows |-> rank(r) + 1]
<1>1. IsFiniteSet(rows) /\ n \in Nat
  BY FS_CardinalityType DEF Ordered
<1>2. \A r \in rows : /\ Above(r, rows) \in SUBSET rows /\ r \notin Above(r, rows)
                      /\ IsFiniteSet(Above(r, rows))
                      /\ rank(r) \in Nat /\ rank(r) < n
  <2> TAKE r \in rows
  <2>1. Above(r, rows) \in SUBSET rows /\ r \notin Above(r, rows)
    BY NewestFirst DEF Above
  <2>2. IsFiniteSet(Above(r, rows)) /\ rank(r) \in Nat /\ rank(r) <= n /\ rank(r) # n
    BY <1>1, <2>1, FS_Subset, FS_CardinalityType
  <2> HIDE DEF rank, n
  <2>3. rank(r) < n
    BY <1>1, <2>2
  <2>. QED
    BY <2>1, <2>2, <2>3
<1>3. \A r, q \in rows : Before(r, q) => rank(r) < rank(q)
  <2> SUFFICES ASSUME NEW r \in rows, NEW q \in rows, Before(r, q)
               PROVE  rank(r) < rank(q)
    OBVIOUS
  <2>1. /\ Above(r, rows) \in SUBSET Above(q, rows)
        /\ r \in Above(q, rows) /\ r \notin Above(r, rows)
    BY NewestFirst DEF Above
  <2>2. rank(r) <= rank(q) /\ rank(q) # rank(r)
    BY <1>2, <2>1, FS_Subset
  <2>3. rank(r) \in Nat /\ rank(q) \in Nat
    BY <1>2
  <2> HIDE DEF rank
  <2>. QED
    BY <2>2, <2>3
<1> HIDE DEF rank, n
<1>4. \A r, q \in rows : rank(r) = rank(q) => r = q
  <2> SUFFICES ASSUME NEW r \in rows, NEW q \in rows, rank(r) = rank(q), r # q
               PROVE  FALSE
    OBVIOUS
  <2>1. Before(r, q) \/ Before(q, r)
    BY NewestFirst
  <2>. QED
    BY <1>2, <1>3, <2>1
<1>5. place \in Surjection(rows, 1..n)
  <2>1. place \in [rows -> 1..n]
    BY <1>1, <1>2
  <2>2. \A r, q \in rows : place[r] = place[q] => r = q
    BY <1>2, <1>4
  <2> HIDE DEF place
  <2>3. place \in Injection(rows, 1..n)
    BY <2>1, <2>2 DEF Injection, IsInjective
  <2>4. IsFiniteSet(1..n) /\ Cardinality(1..n) = n
    BY <1>1, FS_Interval
  <2>. QED
    BY <2>3, <2>4, FS_Injection DEF n
<1>6. \A i \in 1..n : \E r \in rows : rank(r) = i - 1
  <2> TAKE i \in 1..n
  <2>1. PICK r \in rows : place[r] = i
    BY <1>5 DEF Surjection
  <2>2. rank(r) + 1 = i /\ rank(r) \in Nat
    BY <1>2, <2>1
  <2>. QED
    BY <1>1, <2>2
<1> DEFINE nth(i) == CHOOSE r \in rows : rank(r) = i - 1
<1>7. \A i \in 1..n : nth(i) \in rows /\ rank(nth(i)) = i - 1
  BY <1>6
<1>8. \A r \in rows : rank(r) + 1 \in 1..n /\ nth(rank(r) + 1) = r
  <2> TAKE r \in rows
  <2>1. rank(r) + 1 \in 1..n /\ (rank(r) + 1) - 1 = rank(r)
    BY <1>1, <1>2
  <2>2. nth(rank(r) + 1) \in rows /\ rank(nth(rank(r) + 1)) = rank(r)
    BY <1>7, <2>1
  <2> HIDE DEF nth
  <2>. QED
    BY <1>4, <2>1, <2>2
<1>9. Sorted(rows) = [i \in 1..n |-> nth(i)]
  BY DEF Sorted, rank, n
<1> HIDE DEF nth
<1>10. Sorted(rows) \in Seq(rows) /\ Len(Sorted(rows)) = n
  BY <1>1, <1>7, <1>9, LenProperties, IsASeq
<1>11. \A i, j \in 1..n : i < j => Before(Sorted(rows)[i], Sorted(rows)[j])
  <2> SUFFICES ASSUME NEW i \in 1..n, NEW j \in 1..n, i < j
               PROVE  Before(nth(i), nth(j))
    BY <1>9
  <2>1. nth(i) \in rows /\ nth(j) \in rows /\ rank(nth(i)) < rank(nth(j))
    BY <1>1, <1>7
  <2>2. ~(rank(nth(j)) < rank(nth(i))) /\ nth(i) # nth(j)
    BY <1>2, <2>1
  <2>. QED
    BY <1>3, <2>1, <2>2, NewestFirst
<1>12. \A r \in rows : \E i \in 1..n : Sorted(rows)[i] = r
  BY <1>8, <1>9
<1>. QED
  BY <1>1, <1>10, <1>11, <1>12 DEF n

\* A walk: what it has given is in order and ends at the cursor, and what it
\* still owes comes after the cursor.
GivenInOrder == \A i, j \in 1..Len(walk) : i < j => Before(walk[i], walk[j])
Given(r) == \E i \in 1..Len(walk) : walk[i] = r
PageInv ==
  /\ Ordered(listed) /\ cursor \subseteq listed /\ target \subseteq listed
  /\ walk \in Seq(listed) /\ GivenInOrder
  /\ walk = <<>> => cursor = {}
  /\ ~ended /\ walk # <<>> => cursor = {walk[Len(walk)]}
  /\ \A r \in target : Given(r) \/ (~ended /\ r \in After(cursor))

LEMMA AfterTheCursor ==
  ASSUME PageInv
  PROVE  /\ Ordered(After(cursor)) /\ After(cursor) \subseteq listed
         /\ \A c : After({c}) = {r \in listed : Before(c, r)}
         /\ cursor = {} => After(cursor) = listed
<1>1. After(cursor) \subseteq listed
  BY DEF After
<1>2. Ordered(After(cursor))
  BY <1>1, FS_Subset DEF PageInv, Ordered
<1>3. \A c : After({c}) = {r \in listed : Before(c, r)}
  BY DEF After, Before
<1>4. cursor = {} => After(cursor) = listed
  BY DEF After
<1>. QED
  BY <1>1, <1>2, <1>3, <1>4

\* A page is the first rows after the cursor, and there is a next one when
\* they are not all.
LEMMA PageIs ==
  ASSUME PageInv
  PROVE  LET rest == After(cursor)
             n == Cardinality(rest)
             m == IF n > PageSize THEN PageSize ELSE n
             found == FindList(cursor, PageSize + 1)
             items == Items(found) IN
         /\ n \in Nat /\ m \in Nat
         /\ Len(found) > PageSize <=> n > PageSize
         /\ items \in Seq(rest) /\ Len(items) = m
         /\ \A i \in 1..m : items[i] = Sorted(rest)[i]
<1> DEFINE rest == After(cursor)
           n == Cardinality(rest)
           rows == Sorted(rest)
           k == IF Len(rows) < PageSize + 1 THEN Len(rows) ELSE PageSize + 1
           m == IF n > PageSize THEN PageSize ELSE n
           found == FindList(cursor, PageSize + 1)
           items == Items(found)
<1>1. n \in Nat /\ rows \in Seq(rest) /\ Len(rows) = n /\ PageSize \in Nat \ {0}
  BY AfterTheCursor, SortedIs, PageSizeIsPositive
<1>2. found = SubSeq(rows, 1, k)
  BY DEF FindList
<1>3. items = SubSeq(found, 1, IF Len(found) > PageSize THEN PageSize ELSE Len(found))
  BY DEF Items
<1> HIDE DEF rest, n, rows, found, items
<1>4. k \in Nat /\ k <= n /\ (n > PageSize => k = PageSize + 1)
      /\ (~(n > PageSize) => k = n)
  BY <1>1
<1> HIDE DEF k
<1>5. \A i \in 1..k : rows[i] \in rest
  BY <1>1, <1>4
<1>6. /\ Len(found) = k /\ found \in Seq(rest)
      /\ \A i \in 1..k : found[i] = rows[i]
  BY <1>2, <1>4, <1>5, SubSeqProperties
<1>7. items = SubSeq(found, 1, m) /\ m \in Nat /\ m <= k
  BY <1>1, <1>3, <1>4, <1>6
<1>8. Len(found) > PageSize <=> n > PageSize
  BY <1>1, <1>4, <1>6
<1> HIDE DEF m
<1>9. \A i \in 1..m : found[i] \in rest /\ found[i] = rows[i]
  BY <1>4, <1>5, <1>6, <1>7
<1>10. /\ items \in Seq(rest) /\ Len(items) = m
       /\ \A i \in 1..m : items[i] = found[i]
  BY <1>7, <1>9, SubSeqProperties
<1>11. \A i \in 1..m : items[i] = rows[i]
  BY <1>9, <1>10
<1>. QED
  BY <1>1, <1>7, <1>8, <1>10, <1>11 DEF rest, n, rows, found, items, m

LEMMA PageFollows ==
  ASSUME PageInv, GetsPage
  PROVE  PageInv'
<1> DEFINE rest == After(cursor)
           n == Cardinality(rest)
           m == IF n > PageSize THEN PageSize ELSE n
           items == Items(FindList(cursor, PageSize + 1))
           l == Len(walk)
<1>1. /\ n \in Nat /\ m \in Nat /\ items \in Seq(rest) /\ Len(items) = m
      /\ \A i \in 1..m : items[i] = Sorted(rest)[i]
  BY PageIs
<1>2. /\ walk' = walk \o items /\ ~ended /\ listed' = listed
      /\ target' = IF walk = <<>> THEN listed ELSE target
      /\ ended' = ~(n > PageSize)
      /\ cursor' = IF n > PageSize THEN {items[m]} ELSE {}
  <2>1. Len(FindList(cursor, PageSize + 1)) > PageSize <=> n > PageSize
    BY PageIs
  <2>. QED
    BY <1>1, <2>1 DEF GetsPage
<1>3. /\ \A i, j \in 1..n : i < j => Before(Sorted(rest)[i], Sorted(rest)[j])
      /\ \A r \in rest : \E i \in 1..n : Sorted(rest)[i] = r
      /\ \A i \in 1..n : Sorted(rest)[i] \in rest
  BY AfterTheCursor, SortedIs
<1>4. Ordered(listed) /\ rest \subseteq listed /\ walk \in Seq(listed) /\ l \in Nat
  BY AfterTheCursor DEF PageInv
<1>5. walk # <<>> => /\ l >= 1 /\ rest = {r \in listed : Before(walk[l], r)}
                     /\ walk[l] \in listed
  <2> SUFFICES ASSUME walk # <<>>
               PROVE  /\ l >= 1 /\ rest = {r \in listed : Before(walk[l], r)}
                      /\ walk[l] \in listed
    OBVIOUS
  <2>1. l >= 1
    BY <1>4
  <2>. QED
    BY <1>2, <1>4, <2>1, AfterTheCursor DEF PageInv
<1>6. walk = <<>> => l = 0 /\ rest = listed
  BY AfterTheCursor DEF PageInv
<1>7. PageSize \in Nat \ {0} /\ m <= n /\ (n > PageSize => m = PageSize)
      /\ (~(n > PageSize) => m = n)
  BY <1>1, PageSizeIsPositive
<1> HIDE DEF rest, n, m, items, l
<1>8. items \in Seq(listed)
  BY <1>1, <1>4
<1>9. /\ walk' \in Seq(listed) /\ Len(walk') = l + m
      /\ \A i \in 1..l : walk'[i] = walk[i]
      /\ \A i \in 1..m : walk'[l + i] = items[i]
  <2>1. /\ walk' \in Seq(listed) /\ Len(walk') = l + m
        /\ \A i \in 1..l + m : walk'[i] = IF i <= l THEN walk[i] ELSE items[i - l]
    <3> DEFINE longer == walk \o items
    <3>1. /\ longer \in Seq(listed) /\ Len(longer) = l + Len(items)
          /\ \A i \in 1..l + Len(items) :
               longer[i] = IF i <= l THEN walk[i] ELSE items[i - l]
      BY <1>4, <1>8, ConcatProperties DEF l
    <3>2. walk' = longer
      BY <1>2
    <3> HIDE DEF longer
    <3>. QED
      BY <1>1, <3>1, <3>2
  <2>2. \A i \in 1..l : walk'[i] = walk[i]
    BY <1>1, <1>4, <2>1
  <2>3. \A i \in 1..m : walk'[l + i] = items[i]
    <3> TAKE i \in 1..m
    <3>1. l + i \in 1..l + m /\ ~(l + i <= l) /\ (l + i) - l = i
      BY <1>1, <1>4
    <3>. QED
      BY <2>1, <3>1
  <2>. QED
    BY <2>1, <2>2, <2>3
<1>10. \A i \in 1..l + m : i \in 1..l \/ \E j \in 1..m : i = l + j
  <2> TAKE i \in 1..l + m
  <2>1. i \in 1..l \/ (i - l \in 1..m /\ i = l + (i - l))
    BY <1>1, <1>4
  <2>. QED
    BY <2>1
<1>11. \A i \in 1..m : items[i] \in rest
  BY <1>1, <1>3, <1>7
<1>12. GivenInOrder'
  <2> SUFFICES ASSUME NEW i \in 1..l + m, NEW j \in 1..l + m, i < j
               PROVE  Before(walk'[i], walk'[j])
    BY <1>9 DEF GivenInOrder
  <2>1. CASE j \in 1..l
    <3>1. i \in 1..l
      BY <1>4, <2>1
    <3>. QED
      BY <1>9, <2>1, <3>1 DEF PageInv, GivenInOrder, l
  <2>2. ASSUME NEW b \in 1..m, j = l + b, i \in 1..l
        PROVE  Before(walk'[i], walk'[j])
    <3>1. walk # <<>>
      BY <1>4, <1>6, <2>2
    <3>2. walk[l] \in listed /\ items[b] \in listed /\ Before(walk[l], items[b])
      BY <1>5, <1>11, <3>1
    <3>3. walk[i] \in listed /\ (i = l \/ Before(walk[i], walk[l]))
      BY <1>4, <2>2 DEF PageInv, GivenInOrder, l
    <3>4. Before(walk[i], items[b])
      BY <1>4, <3>2, <3>3, NewestFirst
    <3>. QED
      BY <1>9, <2>2, <3>4
  <2>3. ASSUME NEW a \in 1..m, NEW b \in 1..m, i = l + a, j = l + b
        PROVE  Before(walk'[i], walk'[j])
    <3>1. a < b /\ a \in 1..n /\ b \in 1..n
      BY <1>1, <1>4, <1>7, <2>3
    <3>2. walk'[i] = Sorted(rest)[a] /\ walk'[j] = Sorted(rest)[b]
      BY <1>1, <1>9, <2>3
    <3>3. Before(Sorted(rest)[a], Sorted(rest)[b])
      BY <1>3, <3>1
    <3>. QED
      BY <3>2, <3>3
  <2>. QED
    BY <1>4, <1>10, <2>1, <2>2, <2>3
<1>13. n > PageSize => /\ m >= 1 /\ walk'[Len(walk')] = items[m]
                       /\ items[m] \in rest /\ items[m] = Sorted(rest)[m]
  <2> SUFFICES ASSUME n > PageSize
               PROVE  /\ m >= 1 /\ walk'[Len(walk')] = items[m]
                      /\ items[m] \in rest /\ items[m] = Sorted(rest)[m]
    OBVIOUS
  <2>1. m >= 1 /\ m \in 1..m
    BY <1>7
  <2>. QED
    BY <1>1, <1>9, <1>11, <2>1
<1>14. target' \subseteq listed' /\ cursor' \subseteq listed'
  BY <1>2, <1>4, <1>13 DEF PageInv
<1>15. walk' = <<>> => cursor' = {}
  <2>1. walk' = <<>> => l + m = 0
    BY <1>9
  <2>. QED
    BY <1>1, <1>2, <1>4, <1>13, <2>1
<1>16. ~ended' /\ walk' # <<>> => cursor' = {walk'[Len(walk')]}
  BY <1>2, <1>13
<1>17. ASSUME NEW r \in target'
       PROVE  Given(r)' \/ (~ended' /\ r \in After(cursor)')
  <2>1. Given(r) => Given(r)'
    <3>1. \A i \in 1..l : i \in 1..l + m
      BY <1>1, <1>4
    <3>. QED
      BY <1>9, <3>1 DEF Given, l
  <2>2. ASSUME NEW i \in 1..m, r = items[i] PROVE Given(r)'
    <3>1. l + i \in 1..l + m
      BY <1>1, <1>4
    <3>. QED
      BY <1>9, <2>2, <3>1 DEF Given
  <2>3. ASSUME NEW i \in 1..n, r = Sorted(rest)[i], i > m, n > PageSize
        PROVE  r \in After(cursor)'
    <3>1. m \in 1..n /\ Before(Sorted(rest)[m], r) /\ r \in listed
      BY <1>1, <1>3, <1>4, <1>7, <1>13, <2>3
    <3>2. cursor' = {Sorted(rest)[m]}
      BY <1>2, <1>13, <2>3
    <3>. QED
      BY <1>2, <3>1, <3>2 DEF After, Before
  <2>4. Given(r) \/ r \in rest
    BY <1>2, <1>6, <1>17 DEF PageInv, rest
  <2>5. ASSUME r \in rest PROVE Given(r)' \/ (~ended' /\ r \in After(cursor)')
    <3>1. PICK i \in 1..n : Sorted(rest)[i] = r
      BY <1>3, <2>5
    <3>2. CASE i \in 1..m
      BY <1>1, <2>2, <3>1, <3>2
    <3>3. CASE ~(i \in 1..m)
      <4>1. i > m /\ n > PageSize
        BY <1>1, <1>7, <3>1, <3>3
      <4>. QED
        BY <1>2, <2>3, <3>1, <4>1
    <3>. QED
      BY <3>2, <3>3
  <2>. QED
    BY <2>1, <2>4, <2>5
<1>. QED
  BY <1>2, <1>4, <1>9, <1>12, <1>14, <1>15, <1>16, <1>17 DEF PageInv

LEMMA ArrivalsLeaveTheWalk ==
  ASSUME PageInv, NEW r \in ListedRow, Arrives(r)
  PROVE  PageInv'
<1>1. /\ listed' = listed \cup {r} /\ \A q \in listed : q.id # r.id
      /\ UNCHANGED <<cursor, walk, target, ended>>
  BY DEF Arrives
<1>2. Ordered(listed')
  <2>1. IsFiniteSet(listed')
    BY <1>1, FS_AddElement DEF PageInv, Ordered
  <2>. QED
    BY <1>1, <2>1 DEF PageInv, Ordered
<1>3. walk \in Seq(listed')
  <2>1. \A i \in 1..Len(walk) : walk[i] \in listed'
    BY <1>1 DEF PageInv
  <2>. QED
    BY <2>1 DEF PageInv
<1>4. After(cursor) \subseteq After(cursor)'
  BY <1>1 DEF After
<1>. QED
  BY <1>1, <1>2, <1>3, <1>4 DEF PageInv, GivenInOrder, Given

LEMMA PagesInvariant == PageSpec => []PageInv
<1>1. PageInit => PageInv
  <2> SUFFICES ASSUME PageInit PROVE PageInv
    OBVIOUS
  <2>1. Ordered({})
    BY FS_EmptySet DEF Ordered
  <2>. QED
    BY <2>1 DEF PageInit, PageInv, GivenInOrder
<1>2. PageInv /\ [PageNext]_pageVars => PageInv'
  <2> SUFFICES ASSUME PageInv, [PageNext]_pageVars PROVE PageInv'
    OBVIOUS
  <2>1. CASE UNCHANGED pageVars
    BY <2>1 DEF pageVars, PageInv, GivenInOrder, Given, After
  <2>. QED
    BY <2>1, PageFollows, ArrivalsLeaveTheWalk DEF PageNext
<1>. QED
  BY <1>1, <1>2, PTL DEF PageSpec

\* For every size of page and however many rows share a time: a walk gives
\* each row there was when it began, once and in order, while others arrive.
THEOREM WalksAreExact == PageSpec => []WalkIsExact
<1>1. PageInv => WalkIsExact
  BY DEF PageInv, GivenInOrder, Given, WalkIsExact
<1>. QED
  BY <1>1, PagesInvariant, PTL

=============================================================================
