--------------------------- MODULE ChatInboxProofs ---------------------------
(***************************************************************************)
(* Theorems about ChatInbox for every set of messages, every set of        *)
(* capacities and every number of claims: what the statements of ChatInbox *)
(* do to a table of any size, the invariants, and that the inbox           *)
(* implements DisplayQueue: every step of it is a step of DisplayQueue or  *)
(* leaves the queue alone.                                                 *)
(***************************************************************************)
EXTENDS ChatInbox, FiniteSetTheorems, TLAPS

----------------------------------------------------------------------------
(* Rows ordered by their AUTOINCREMENT id *)

\* A finite table in which the id is a key.
Keyed(table) ==
  /\ table \subseteq Row /\ IsFiniteSet(table)
  /\ \A r, s \in table : r.id = s.id => r = s

Older(table, r) == {s \in table : s.id < r.id}

----------------------------------------------------------------------------
(* Every set of natural numbers that is not empty has a least element. *)
LEMMA LeastNumber ==
  ASSUME NEW S, S \subseteq Nat, S # {}
  PROVE  \E n \in S : \A m \in S : n <= m
<1> DEFINE R == OpToRel(<, Nat)
<1>1. IsWellFoundedOn(R, Nat)
  BY NatLessThanWellFounded
<1> HIDE DEF R
<1>2. PICK n \in S : \A m \in S : <<m, n>> \notin R
  BY <1>1, WFMin
<1>3. \A m \in S : m < n => <<m, n>> \in R
  BY DEF R, OpToRel
<1>4. \A m \in S : ~(m < n)
  BY <1>2, <1>3
<1> QED
  BY <1>4

(* Every set of rows that is not empty has an oldest row. *)
LEMMA OldestRow ==
  ASSUME NEW T, T \subseteq Row, T # {}
  PROVE  \E r \in T : \A s \in T : r.id <= s.id
<1> DEFINE Ids == {r.id : r \in T}
<1>1. Ids \subseteq Nat /\ Ids # {}
  BY DEF Row
<1>2. PICK n \in Ids : \A m \in Ids : n <= m
  BY <1>1, LeastNumber
<1> QED
  BY <1>2

(* The rows older than a row of a finite table are finitely many, and fewer *)
(* than the table has.                                                      *)
LEMMA OlderFinite ==
  ASSUME NEW T, Keyed(T), NEW r \in T
  PROVE  /\ IsFiniteSet(Older(T, r))
         /\ Cardinality(Older(T, r)) \in Nat
         /\ Cardinality(Older(T, r)) < Cardinality(T)
<1>1. r.id \in Nat
  BY DEF Keyed, Row
<1>2. Older(T, r) \subseteq T \ {r}
  BY <1>1 DEF Older
<1>3. /\ IsFiniteSet(T \ {r})
      /\ Cardinality(T \ {r}) = Cardinality(T) - 1
  BY FS_RemoveElement DEF Keyed
<1>4. Cardinality(T) \in Nat
  BY FS_CardinalityType DEF Keyed
<1>5. /\ IsFiniteSet(Older(T, r))
      /\ Cardinality(Older(T, r)) <= Cardinality(T \ {r})
  BY <1>2, <1>3, FS_Subset
<1>6. Cardinality(Older(T, r)) \in Nat
  BY <1>5, FS_CardinalityType
<1> QED
  BY <1>3, <1>4, <1>5, <1>6

(* OFFSET counts from the oldest row: it determines the row. *)
LEMMA OlderCounts ==
  ASSUME NEW T, Keyed(T), NEW r \in T, NEW s \in T, r.id < s.id
  PROVE  Cardinality(Older(T, r)) < Cardinality(Older(T, s))
<1>1. r.id \in Nat /\ s.id \in Nat /\ \A x \in T : x.id \in Nat
  BY DEF Keyed, Row
<1>2. Older(T, r) \subseteq Older(T, s) /\ r \in Older(T, s) /\ r \notin Older(T, r)
  BY <1>1 DEF Older
<1>3. /\ IsFiniteSet(Older(T, s)) /\ Cardinality(Older(T, s)) \in Nat
      /\ Cardinality(Older(T, r)) \in Nat
  BY OlderFinite
<1>4. /\ Cardinality(Older(T, r)) <= Cardinality(Older(T, s))
      /\ Cardinality(Older(T, r)) # Cardinality(Older(T, s))
  BY <1>2, <1>3, FS_Subset
<1> QED
  BY <1>3, <1>4

LEMMA AtOffsetUnique ==
  ASSUME NEW T, Keyed(T), NEW k, NEW r \in AtOffset(T, k), NEW s \in AtOffset(T, k)
  PROVE  r = s
<1>1. /\ r \in T /\ s \in T
      /\ Cardinality(Older(T, r)) = k /\ Cardinality(Older(T, s)) = k
  BY DEF AtOffset, Older
<1>2. r.id \in Nat /\ s.id \in Nat
  BY <1>1 DEF Keyed, Row
<1>3. k \in Nat
  BY <1>1, OlderFinite
<1>4. ~(r.id < s.id) /\ ~(s.id < r.id)
  BY <1>1, <1>3, OlderCounts
<1> QED
  BY <1>1, <1>2, <1>4 DEF Keyed

(* There is a row at every offset below the number of rows: the offsets    *)
(* without one, if any, would have a least, and the row after the row at   *)
(* the offset before it would be there.                                    *)
LEMMA AtOffsetExists ==
  ASSUME NEW T, Keyed(T), NEW k \in Nat, k < Cardinality(T)
  PROVE  AtOffset(T, k) # {}
<1> DEFINE Missing == {j \in Nat : j < Cardinality(T) /\ AtOffset(T, j) = {}}
<1>1. SUFFICES ASSUME Missing # {} PROVE FALSE
  OBVIOUS
<1>2. PICK j \in Missing : \A i \in Missing : j <= i
  BY <1>1, LeastNumber
<1>3. Cardinality(T) \in Nat /\ IsFiniteSet(T) /\ \A r \in T : r.id \in Nat
  BY FS_CardinalityType DEF Keyed, Row
<1>4. SUFFICES ASSUME NEW Below, Below \subseteq T, IsFiniteSet(Below),
                      Cardinality(Below) = j,
                      \A r \in Below, s \in T \ Below : r.id < s.id
               PROVE  FALSE
  <2>1. CASE j = 0
    <3>1. IsFiniteSet({}) /\ Cardinality({}) = 0
      BY FS_EmptySet
    <3> QED
      BY <1>4, <2>1, <3>1
  <2>2. CASE j # 0
    <3>1. j - 1 \in Nat /\ j - 1 < Cardinality(T) /\ ~(j <= j - 1)
      BY <1>2, <1>3, <2>2
    <3>2. j - 1 \notin Missing
      BY <1>2, <3>1
    <3>3. PICK r \in T : Cardinality(Older(T, r)) = j - 1
      BY <3>1, <3>2 DEF AtOffset, Older
    <3> DEFINE Below == Older(T, r) \cup {r}
    <3>4. IsFiniteSet(Older(T, r)) /\ r \notin Older(T, r)
      BY <1>3, OlderFinite DEF Older
    <3>5. IsFiniteSet(Below) /\ Cardinality(Below) = j
      BY <1>2, <3>3, <3>4, FS_AddElement
    <3>6. Below \subseteq T
      BY DEF Older
    <3>7. \A x \in Below, s \in T \ Below : x.id < s.id
      BY <1>3, <3>6 DEF Older, Keyed
    <3> QED
      BY <1>4, <3>5, <3>6, <3>7
  <2> QED
    BY <2>1, <2>2
<1>5. T \ Below # {}
  <2>1. Below # T
    BY <1>2, <1>4
  <2> QED
    BY <1>4, <2>1
<1>6. PICK r \in T \ Below : \A s \in T \ Below : r.id <= s.id
  <2>1. T \ Below \subseteq Row
    BY DEF Keyed
  <2> QED
    BY <1>5, <2>1, OldestRow
<1>7. Older(T, r) = Below
  BY <1>3, <1>4, <1>6 DEF Older
<1>8. r \in AtOffset(T, j)
  BY <1>4, <1>6, <1>7 DEF AtOffset, Older
<1> QED
  BY <1>2, <1>8

(* Offsets end where the table ends. *)
LEMMA AtOffsetBelow ==
  ASSUME NEW T, Keyed(T), NEW k, NEW r \in AtOffset(T, k)
  PROVE  k \in Nat /\ k < Cardinality(T)
<1>1. r \in T /\ Cardinality(Older(T, r)) = k
  BY DEF AtOffset, Older
<1> QED
  BY <1>1, OlderFinite

----------------------------------------------------------------------------
(* The row on air, at offset 0, is the oldest row. *)
LEMMA OnAirIsOldest ==
  ASSUME NEW T, Keyed(T), NEW r
  PROVE  r \in AtOffset(T, 0) <=> r \in T /\ \A s \in T : r.id <= s.id
<1>1. \A s \in T : s.id \in Nat
  BY DEF Keyed, Row
<1>2. ASSUME r \in T
      PROVE  Cardinality(Older(T, r)) = 0 <=> Older(T, r) = {}
  <2>1. IsFiniteSet(Older(T, r))
    BY <1>2, OlderFinite
  <2> QED
    BY <2>1, FS_EmptySet
<1>3. ASSUME r \in T
      PROVE  Older(T, r) = {} <=> \A s \in T : r.id <= s.id
  BY <1>1, <1>3 DEF Older
<1> QED
  BY <1>2, <1>3 DEF AtOffset, Older

(* A table keeps its key when rows go. *)
LEMMA KeyedSubset ==
  ASSUME NEW T, Keyed(T), NEW U, U \subseteq T
  PROVE  Keyed(U) /\ Cardinality(U) \in Nat /\ Cardinality(U) <= Cardinality(T)
BY FS_Subset, FS_CardinalityType DEF Keyed

(* A new row with an id above all others is the newest of the table. *)
LEMMA KeyedInsert ==
  ASSUME NEW T, Keyed(T), NEW row \in Row, \A r \in T : r.id < row.id
  PROVE  /\ Keyed(T \cup {row})
         /\ Cardinality(T \cup {row}) = Cardinality(T) + 1
<1>1. row \notin T /\ row.id \in Nat /\ \A r \in T : r.id \in Nat
  BY DEF Row, Keyed
<1>2. \A r, s \in T \cup {row} : r.id = s.id => r = s
  BY <1>1 DEF Keyed
<1>3. /\ IsFiniteSet(T \cup {row})
      /\ Cardinality(T \cup {row}) = Cardinality(T) + 1
  BY <1>1, FS_AddElement DEF Keyed
<1> QED
  BY <1>2, <1>3 DEF Keyed

(* The row on air stays on air while newer rows come and go. *)
LEMMA OnAirStays ==
  ASSUME NEW T, Keyed(T), NEW U, Keyed(U), NEW r \in AtOffset(T, 0), r \in U,
         \A s \in U \ T : r.id <= s.id
  PROVE  r \in AtOffset(U, 0)
BY OnAirIsOldest

----------------------------------------------------------------------------
(* delete_oldest_waiting_messages deletes exactly the requested number of  *)
(* rows and never the row on air.                                          *)
LEMMA EvictExactly ==
  ASSUME NEW T, Keyed(T), NEW amount \in Nat, CanEvict(T, amount)
  PROVE  /\ EvictOldestWaiting(T, amount) \subseteq T
         /\ Cardinality(EvictOldestWaiting(T, amount)) = Cardinality(T) - amount
         /\ AtOffset(T, 0) \subseteq EvictOldestWaiting(T, amount)
<1> DEFINE Kept == EvictOldestWaiting(T, amount)
<1>1. IsFiniteSet(T) /\ Cardinality(T) \in Nat /\ \A r \in T : r.id \in Nat
  BY FS_CardinalityType DEF Keyed, Row
<1>2. CASE amount = 0
  BY <1>1, <1>2 DEF EvictOldestWaiting, AtOffset
<1>3. CASE amount # 0
  <2>1. PICK boundary \in T : boundary \in AtOffset(T, amount + 1)
    BY <1>3 DEF CanEvict, AtOffset
  <2>2. amount + 1 < Cardinality(T)
    BY <2>1, AtOffsetBelow
  <2>3. PICK current \in T : current \in AtOffset(T, 0)
    BY <1>1, <2>2, AtOffsetExists DEF AtOffset
  <2>4. AtOffset(T, amount + 1) = {boundary} /\ AtOffset(T, 0) = {current}
    BY <2>1, <2>3, AtOffsetUnique
  <2>5. Kept = T \ (Older(T, boundary) \ {current})
    <3>1. Kept = {r \in T : ~(current.id < r.id /\ r.id < boundary.id)}
      BY <1>3, <2>4 DEF EvictOldestWaiting, Delete
    <3>2. \A r \in T : current.id < r.id <=> r # current
      BY <1>1, <2>3, OnAirIsOldest DEF Keyed
    <3> QED
      BY <3>1, <3>2 DEF Older
  <2>6. /\ Cardinality(Older(T, boundary)) = amount + 1
        /\ IsFiniteSet(Older(T, boundary))
    BY <2>1, OlderFinite DEF AtOffset, Older
  <2>7. current \in Older(T, boundary)
    <3>1. current # boundary
      BY <1>3, <2>1, <2>3, <2>4 DEF AtOffset
    <3>2. current.id <= boundary.id
      BY <2>3, OnAirIsOldest
    <3>3. current.id # boundary.id
      BY <3>1 DEF Keyed
    <3> QED
      BY <1>1, <3>2, <3>3 DEF Older
  <2> DEFINE Gone == Older(T, boundary) \ {current}
  <2>8. Cardinality(Gone) = amount
    BY <2>6, <2>7, FS_RemoveElement
  <2>9. Gone \subseteq T /\ T \cap Gone = Gone
    BY DEF Older
  <2> HIDE DEF Gone
  <2>10. Cardinality(T \ Gone) = Cardinality(T) - amount
    BY <1>1, <2>8, <2>9, FS_Difference
  <2> QED
    BY <2>4, <2>5, <2>10 DEF Gone
<1> QED
  BY <1>2, <1>3

(* The row the trim looks for exists unless the queue has room for one row *)
(* only: the excess over a larger capacity can always be evicted.          *)
LEMMA ExcessCanGo ==
  ASSUME NEW T, Keyed(T), NEW cap \in Nat \ {0}
  PROVE  /\ Excess(T, cap) \in Nat
         /\ cap > 1 => CanEvict(T, Excess(T, cap))
<1>1. Cardinality(T) \in Nat
  BY FS_CardinalityType DEF Keyed
<1>2. Excess(T, cap) \in Nat
  BY <1>1 DEF Excess
<1>3. ASSUME cap > 1, Excess(T, cap) # 0
      PROVE  AtOffset(T, Excess(T, cap) + 1) # {}
  <2>1. Excess(T, cap) + 1 < Cardinality(T)
    BY <1>1, <1>3 DEF Excess
  <2> QED
    BY <1>2, <2>1, AtOffsetExists
<1> QED
  BY <1>2, <1>3 DEF CanEvict

(* trim_seen keeps the newest row. *)
LEMMA NewestSeenStays ==
  ASSUME NEW T, Keyed(T), NEW keep, NEW newest \in T, \A r \in T : r.id <= newest.id
  PROVE  newest \in TrimSeen(T, keep)
BY DEF TrimSeen, AtOffset, Keyed, Row

(* trim_seen on a table longer than the window deletes at least one row. *)
LEMMA TrimSeenShortens ==
  ASSUME NEW T, Keyed(T), NEW keep \in Nat \ {0}, keep < Cardinality(T)
  PROVE  Cardinality(TrimSeen(T, keep)) < Cardinality(T)
<1>1. PICK boundary \in T : boundary \in AtOffset(T, keep)
  BY AtOffsetExists DEF AtOffset
<1>2. IsFiniteSet(Older(T, boundary)) /\ Cardinality(Older(T, boundary)) = keep
  BY <1>1, OlderFinite DEF AtOffset, Older
<1>3. PICK x \in Older(T, boundary) : TRUE
  BY <1>2, FS_EmptySet
<1>4. x \in T /\ x.id < boundary.id /\ x.id \in Nat /\ boundary.id \in Nat
  BY <1>3 DEF Older, Keyed, Row
<1>5. TrimSeen(T, keep) \subseteq T \ {x}
  BY <1>1, <1>4 DEF TrimSeen
<1>6. IsFiniteSet(T) /\ Cardinality(T) \in Nat
  BY FS_CardinalityType DEF Keyed
<1>7. IsFiniteSet(T \ {x}) /\ Cardinality(T \ {x}) = Cardinality(T) - 1
  BY <1>4, <1>6, FS_RemoveElement
<1>8. Cardinality(TrimSeen(T, keep)) <= Cardinality(T \ {x})
  BY <1>5, <1>7, FS_Subset
<1>9. Cardinality(TrimSeen(T, keep)) \in Nat
  BY <1>5, <1>6, KeyedSubset
<1> QED
  BY <1>6, <1>7, <1>8, <1>9

(* What is evicted is waiting, and is the oldest of what waits. *)
LEMMA EvictOldestFirst ==
  ASSUME NEW T, Keyed(T), NEW amount \in Nat, CanEvict(T, amount),
         NEW gone \in T \ EvictOldestWaiting(T, amount), NEW s \in T, s.id < gone.id
  PROVE  s \in AtOffset(T, 0) \/ s \notin EvictOldestWaiting(T, amount)
<1>1. \A r \in T : r.id \in Nat
  BY DEF Keyed, Row
<1>2. amount # 0
  BY DEF EvictOldestWaiting
<1>3. PICK boundary, current :
        /\ AtOffset(T, amount + 1) = {boundary} /\ boundary \in T
        /\ AtOffset(T, 0) = {current} /\ current \in T
        /\ current.id < gone.id /\ gone.id < boundary.id
  <2>1. PICK current \in AtOffset(T, 0), boundary \in AtOffset(T, amount + 1) :
          gone \notin Delete(T, current.id, boundary.id)
    BY <1>2 DEF EvictOldestWaiting
  <2>2. current \in T /\ boundary \in T
    BY DEF AtOffset
  <2>3. AtOffset(T, 0) = {current} /\ AtOffset(T, amount + 1) = {boundary}
    BY <2>1, AtOffsetUnique
  <2> QED
    BY <1>1, <2>1, <2>2, <2>3 DEF Delete
<1>4. CASE s = current
  BY <1>3, <1>4
<1>5. CASE s # current
  <2>1. current.id < s.id
    BY <1>1, <1>3, <1>5, OnAirIsOldest DEF Keyed
  <2>2. s.id < boundary.id
    BY <1>1, <1>3
  <2> QED
    BY <1>2, <1>3, <2>1, <2>2 DEF EvictOldestWaiting, Delete
<1> QED
  BY <1>4, <1>5

----------------------------------------------------------------------------
(* The ids of a table stand for its rows. *)

Ids(table) == {r.id : r \in table}

LEMMA IdsCount ==
  ASSUME NEW T, Keyed(T)
  PROVE  IsFiniteSet(Ids(T)) /\ Cardinality(Ids(T)) = Cardinality(T)
<1> DEFINE f == [r \in T |-> r.id]
<1>1. f \in Bijection(T, Ids(T))
  BY DEF Ids, Keyed, Bijection, Injection, Surjection, IsInjective
<1> QED
  BY <1>1, FS_Bijection DEF ExistsBijection, Keyed

LEMMA IdsDifference ==
  ASSUME NEW T, Keyed(T), NEW U, U \subseteq T
  PROVE  Ids(T) \ Ids(T \ U) = Ids(U) /\ Ids(T \ U) = Ids(T) \ Ids(U)
BY DEF Ids, Keyed

LEMMA IdsOnAir ==
  ASSUME NEW T, Keyed(T), NEW r \in T
  PROVE  r \in AtOffset(T, 0) <=> \A t \in Ids(T) : r.id <= t
BY OnAirIsOldest DEF Ids

LEMMA IdsInsert ==
  ASSUME NEW T, NEW id, NEW m
  PROVE  Ids(T \cup {[id |-> id, msg |-> m]}) = Ids(T) \cup {id}
<1> DEFINE row == [id |-> id, msg |-> m]
<1>1. row.id = id
  OBVIOUS
<1> HIDE DEF row
<1>2. Ids(T \cup {row}) = Ids(T) \cup {row.id}
  BY DEF Ids
<1> QED
  BY <1>1, <1>2 DEF row

----------------------------------------------------------------------------
(* Tables *)

LEMMA WellFormedKeyed ==
  ASSUME NEW T, NEW next, WellFormed(T, next)
  PROVE  Keyed(T) /\ Cardinality(T) \in Nat
BY FS_CardinalityType DEF WellFormed, Keyed

LEMMA WellFormedSubset ==
  ASSUME NEW T, NEW next, WellFormed(T, next), NEW U, U \subseteq T
  PROVE  WellFormed(U, next)
BY FS_Subset DEF WellFormed

LEMMA WellFormedInsert ==
  ASSUME NEW T, NEW next \in Nat \ {0}, WellFormed(T, next), NEW m \in Message
  PROVE  /\ WellFormed(T \cup {[id |-> next, msg |-> m]}, next + 1)
         /\ Cardinality(T \cup {[id |-> next, msg |-> m]}) = Cardinality(T) + 1
<1> DEFINE row == [id |-> next, msg |-> m]
<1>1. row \in Row /\ row.id = next
  BY DEF Row
<1> HIDE DEF row
<1>2. Keyed(T) /\ \A r \in T : r.id < row.id
  <2>1. Keyed(T)
    BY WellFormedKeyed
  <2>2. \A r \in T : r.id < next
    BY DEF WellFormed
  <2> QED
    BY <1>1, <2>1, <2>2
<1>3. /\ Keyed(T \cup {row})
      /\ Cardinality(T \cup {row}) = Cardinality(T) + 1
  BY <1>1, <1>2, KeyedInsert
<1>4. \A r \in T \cup {row} : r.id \in 1 .. (next + 1) - 1
  BY <1>1 DEF WellFormed
<1> QED
  BY <1>3, <1>4 DEF WellFormed, Keyed, row

LEMMA TrimSeenSubset ==
  ASSUME NEW T, NEW keep
  PROVE  TrimSeen(T, keep) \subseteq T
BY DEF TrimSeen

----------------------------------------------------------------------------
(* The parts of the actions *)

LEMMA CapacityIsPositive ==
  ASSUME TypeOK
  PROVE  /\ capacity \in Nat \ {0}
         /\ settings.queue_capacity \in Nat \ {0}
         /\ settings.queue_capacity \in Capacities
         /\ settings.queue_mode \in BOOLEAN
         /\ \A s \in Settings : s.queue_capacity \in Nat \ {0}
BY CapacitiesAssumption DEF TypeOK, Settings

\* claim_message and trim_seen: the table stays well formed and has the claim.
LEMMA ClaimEffect ==
  ASSUME TypeOK, NEW m \in Message, Claim(m)
  PROVE  /\ WellFormed(chat_seen', nextSeenId')
         /\ nextSeenId' \in Nat \ {0}
         /\ LatestClaimRemembered'
<1> DEFINE row == [id |-> nextSeenId, msg |-> m]
           table == chat_seen \cup {row}
<1>1. nextSeenId \in Nat \ {0} /\ WellFormed(chat_seen, nextSeenId)
  BY DEF TypeOK
<1>2. WellFormed(table, nextSeenId + 1)
  BY <1>1, WellFormedInsert
<1>3. chat_seen' = TrimSeen(table, SeenFactor * capacity) /\ nextSeenId' = nextSeenId + 1
  BY DEF Claim
<1>4. WellFormed(chat_seen', nextSeenId')
  BY <1>2, <1>3, TrimSeenSubset, WellFormedSubset
<1>5. row \in chat_seen'
  <2>1. \A r \in table : r.id <= row.id
    BY <1>1 DEF WellFormed
  <2>2. Keyed(table)
    BY <1>2, WellFormedKeyed
  <2> QED
    BY <1>3, <2>1, <2>2, NewestSeenStays
<1>6. LatestClaimRemembered'
  BY <1>1, <1>3, <1>5 DEF LatestClaimRemembered
<1> QED
  BY <1>1, <1>3, <1>4, <1>6

\* trim_to_capacity: what leaves the table is counted, the message on air
\* stays, and what is left fits.
LEMMA TrimToCapacityEffect ==
  ASSUME TypeOK, NEW cap \in Nat \ {0}, TrimToCapacity(cap)
  PROVE  /\ chat_messages' \subseteq chat_messages
         /\ WellFormed(chat_messages', nextMessageId)
         /\ dropped' \in Nat
         /\ Cardinality(chat_messages') + dropped' = Cardinality(chat_messages) + dropped
         /\ Cardinality(chat_messages') <= cap
         /\ AtOffset(chat_messages, 0) \subseteq AtOffset(chat_messages', 0)
<1> DEFINE excess == Excess(chat_messages, cap)
<1>1. /\ WellFormed(chat_messages, nextMessageId)
      /\ Keyed(chat_messages) /\ Cardinality(chat_messages) \in Nat /\ dropped \in Nat
  BY WellFormedKeyed DEF TypeOK
<1>2. excess \in Nat
  BY <1>1, ExcessCanGo
<1>3. /\ chat_messages' = EvictOldestWaiting(chat_messages, excess)
      /\ CanEvict(chat_messages, excess)
      /\ dropped' = dropped + excess
  BY DEF TrimToCapacity
<1>4. /\ chat_messages' \subseteq chat_messages
      /\ Cardinality(chat_messages') = Cardinality(chat_messages) - excess
      /\ AtOffset(chat_messages, 0) \subseteq chat_messages'
  BY <1>1, <1>2, <1>3, EvictExactly
<1>5. WellFormed(chat_messages', nextMessageId)
  BY <1>1, <1>4, WellFormedSubset
<1>6. Cardinality(chat_messages') <= cap
  BY <1>1, <1>4 DEF Excess
<1>7. AtOffset(chat_messages, 0) \subseteq AtOffset(chat_messages', 0)
  BY <1>1, <1>4, <1>5, WellFormedKeyed, OnAirStays
<1> QED
  BY <1>1, <1>2, <1>3, <1>4, <1>5, <1>6, <1>7

----------------------------------------------------------------------------
(* Type correctness *)

\* Every handler, start-up and crash keeps the tables keyed by their
\* AUTOINCREMENT id, with ids below the counters.
THEOREM TypeCorrect == Spec => []TypeOK
<1>1. Init => TypeOK
  <2>1. IsFiniteSet({})
    BY FS_EmptySet
  <2> QED
    BY <2>1, CapacitiesAssumption DEF Init, TypeOK, WellFormed, Settings
<1>2. TypeOK /\ [Next]_vars => TypeOK'
  <2> SUFFICES ASSUME TypeOK, [Next]_vars PROVE TypeOK'
    OBVIOUS
  <2> USE DEF durable, process, history
  <2>0. /\ Cardinality(chat_messages) \in Nat
        /\ \A keep : WellFormed(TrimSeen(chat_seen, keep), nextSeenId)
    BY WellFormedKeyed, TrimSeenSubset, WellFormedSubset DEF TypeOK
  <2>1. ASSUME NEW m \in Message, EnqueueAppend(m) PROVE TypeOK'
    <3>1. WellFormed(chat_messages', nextMessageId')
      BY <2>1, WellFormedInsert DEF EnqueueAppend, Insert, TypeOK
    <3> QED
      BY <2>1, <3>1, ClaimEffect DEF EnqueueAppend, Insert, TypeOK
  <2>2. ASSUME NEW m \in Message, EnqueueEvict(m) PROVE TypeOK'
    <3>1. WellFormed(chat_messages \ OldestWaiting, nextMessageId)
      BY WellFormedSubset DEF TypeOK
    <3>2. WellFormed(chat_messages', nextMessageId')
      BY <2>2, <3>1, WellFormedInsert DEF EnqueueEvict, Insert, TypeOK
    <3> QED
      BY <2>2, <3>2, ClaimEffect DEF EnqueueEvict, Insert, TypeOK
  <2>3. ASSUME NEW m \in Message, EnqueueDrop(m) PROVE TypeOK'
    BY <2>3, ClaimEffect DEF EnqueueDrop, TypeOK
  <2>4. ASSUME NEW m \in Message, RecordPollVote(m) PROVE TypeOK'
    BY <2>4, ClaimEffect DEF RecordPollVote, TypeOK
  <2>5. ASSUME NEW expected, Acknowledge(expected) PROVE TypeOK'
    <3>1. chat_messages' \subseteq chat_messages
      BY <2>5 DEF Acknowledge
    <3>2. WellFormed(chat_messages', nextMessageId)
      BY <3>1, WellFormedSubset DEF TypeOK
    <3> QED
      BY <2>5, <3>2 DEF Acknowledge, TypeOK
  <2>6. CASE ClearMessages
    <3>1. WellFormed({}, nextMessageId)
      BY WellFormedSubset DEF TypeOK
    <3> QED
      BY <2>0, <2>6, <3>1 DEF ClearMessages, TypeOK
  <2>7. ASSUME NEW s \in Settings, SaveSettings(s) PROVE TypeOK'
    BY <2>7 DEF SaveSettings, TypeOK
  <2>8. ASSUME NEW s \in Settings, ApplyConfig(s) PROVE TypeOK'
    <3>1. WellFormed(chat_messages', nextMessageId) /\ dropped' \in Nat
      BY <2>8, CapacityIsPositive, TrimToCapacityEffect DEF ApplyConfig, TypeOK
    <3>2. chat_seen' \subseteq chat_seen
      BY <2>8, TrimSeenSubset DEF ApplyConfig
    <3>3. WellFormed(chat_seen', nextSeenId)
      BY <3>2, WellFormedSubset DEF TypeOK
    <3> QED
      BY <2>8, <3>1, <3>3 DEF ApplyConfig, TypeOK, Settings
  <2>9. ASSUME NEW s \in Settings, ApplyConfigFails(s) PROVE TypeOK'
    BY <2>9 DEF ApplyConfigFails, TypeOK, Settings
  <2>10. CASE Crash
    BY <2>10 DEF Crash, TypeOK
  <2>11. CASE Open
    <3>1. WellFormed(chat_messages', nextMessageId) /\ dropped' \in Nat
      BY <2>11, CapacityIsPositive, TrimToCapacityEffect DEF Open
    <3> QED
      BY <2>0, <2>11, <3>1, CapacityIsPositive DEF Open, TypeOK
  <2>12. CASE StartUp
    <3>1. WellFormed(chat_messages', nextMessageId) /\ dropped' \in Nat
      BY <2>12, CapacityIsPositive, TrimToCapacityEffect DEF StartUp
    <3>2. chat_seen' \subseteq chat_seen
      BY <2>12, TrimSeenSubset DEF StartUp
    <3>3. WellFormed(chat_seen', nextSeenId)
      BY <3>2, WellFormedSubset DEF TypeOK
    <3> QED
      BY <2>12, <3>1, <3>3, CapacityIsPositive DEF StartUp, TypeOK
  <2>13. CASE UNCHANGED vars
    BY <2>13 DEF vars, TypeOK
  <2> QED
    BY <2>1, <2>2, <2>3, <2>4, <2>5, <2>6, <2>7, <2>8, <2>9, <2>10, <2>11, <2>12, <2>13
       DEF Next, Enqueue
<1> QED
  BY <1>1, <1>2, PTL DEF Spec

----------------------------------------------------------------------------
(* Claims *)

\* Steps that trim chat_seen keep its newest claim.
LEMMA TrimSeenKeepsLatest ==
  ASSUME NEW T, NEW next \in Nat \ {0}, WellFormed(T, next), NEW keep,
         NEW latest \in T, latest.id = next - 1
  PROVE  latest \in TrimSeen(T, keep) /\ WellFormed(TrimSeen(T, keep), next)
<1>1. \A r \in T : r.id <= latest.id
  BY DEF WellFormed
<1>2. Keyed(T)
  BY WellFormedKeyed
<1> QED
  BY <1>1, <1>2, NewestSeenStays, TrimSeenSubset, WellFormedSubset

\* The immediate redelivery of the message claimed last is recognised, also
\* after any sequence of resizes and restarts.
THEOREM LatestClaimAlwaysRemembered == Spec => []LatestClaimRemembered
<1>1. Init => LatestClaimRemembered
  BY DEF Init, LatestClaimRemembered
<1>2. TypeOK /\ LatestClaimRemembered /\ [Next]_vars => LatestClaimRemembered'
  <2> SUFFICES ASSUME TypeOK, LatestClaimRemembered, [Next]_vars
               PROVE  LatestClaimRemembered'
    OBVIOUS
  <2> USE DEF durable, process, history
  <2>1. ASSUME NEW m \in Message, Claim(m) PROVE LatestClaimRemembered'
    BY <2>1, ClaimEffect
  <2>2. ASSUME UNCHANGED nextSeenId, nextSeenId > 1,
               NEW keep, chat_seen' \in {chat_seen, TrimSeen(chat_seen, keep),
                                         TrimSeen(TrimSeen(chat_seen, keep), keep)}
        PROVE  LatestClaimRemembered'
    <3>1. /\ WellFormed(chat_seen, nextSeenId) /\ nextSeenId \in Nat \ {0}
      BY DEF TypeOK
    <3>2. PICK latest \in chat_seen : latest.id = nextSeenId - 1
      BY <2>2 DEF LatestClaimRemembered
    <3>3. /\ latest \in TrimSeen(chat_seen, keep)
          /\ WellFormed(TrimSeen(chat_seen, keep), nextSeenId)
      BY <3>1, <3>2, TrimSeenKeepsLatest
    <3>4. latest \in TrimSeen(TrimSeen(chat_seen, keep), keep)
      BY <3>1, <3>2, <3>3, TrimSeenKeepsLatest
    <3>5. latest \in chat_seen'
      BY <2>2, <3>2, <3>3, <3>4
    <3> QED
      BY <2>2, <3>2, <3>5 DEF LatestClaimRemembered
  <2>3. CASE UNCHANGED nextSeenId /\ UNCHANGED chat_seen
    BY <2>3 DEF LatestClaimRemembered
  <2>4. ASSUME NEW s \in Settings, ApplyConfig(s) PROVE LatestClaimRemembered'
    <3> DEFINE keep == SeenFactor * s.queue_capacity
    <3> HIDE DEF keep
    <3>1. chat_seen' \in {chat_seen, TrimSeen(chat_seen, keep),
                          TrimSeen(TrimSeen(chat_seen, keep), keep)}
      BY <2>4 DEF ApplyConfig, keep
    <3>2. UNCHANGED nextSeenId
      BY <2>4 DEF ApplyConfig
    <3> QED
      BY <2>2, <3>1, <3>2 DEF LatestClaimRemembered
  <2>5. CASE Open
    <3>1. chat_seen' = TrimSeen(chat_seen, SeenFactor * settings.queue_capacity)
      BY <2>5 DEF Open
    <3>2. UNCHANGED nextSeenId
      BY <2>5 DEF Open
    <3> QED
      BY <2>2, <3>1, <3>2 DEF LatestClaimRemembered
  <2>6. CASE StartUp
    <3> DEFINE keep == SeenFactor * settings.queue_capacity
    <3> HIDE DEF keep
    <3>1. chat_seen' \in {TrimSeen(chat_seen, keep),
                          TrimSeen(TrimSeen(chat_seen, keep), keep)}
      BY <2>6 DEF StartUp, keep
    <3>2. UNCHANGED nextSeenId
      BY <2>6 DEF StartUp
    <3> QED
      BY <2>2, <3>1, <3>2 DEF LatestClaimRemembered
  <2> QED
    BY <2>1, <2>3, <2>4, <2>5, <2>6
       DEF Next, Enqueue, EnqueueAppend, EnqueueEvict, EnqueueDrop, RecordPollVote,
           Acknowledge, ClearMessages, SaveSettings, ApplyConfigFails, Crash, vars
<1> QED
  BY <1>1, <1>2, TypeCorrect, PTL DEF Spec

\* The memory of claims stays within the largest window that was ever in
\* force, whatever order claims, resizes and restarts come in.
THEOREM SeenAlwaysBounded == Spec => []SeenBounded
<1> USE SeenFactorAssumption
<1>1. Init => SeenBounded
  <2> SUFFICES ASSUME Init PROVE SeenBounded
    OBVIOUS
  <2>1. settings.queue_capacity \in Nat \ {0} /\ settings.queue_capacity \in Capacities
    BY CapacitiesAssumption DEF Init, Settings
  <2>2. SeenFactor * settings.queue_capacity >= 0
    BY <2>1
  <2>3. Cardinality(chat_seen) = 0
    BY FS_EmptySet DEF Init
  <2> QED
    BY <2>1, <2>2, <2>3 DEF SeenBounded
<1>2. TypeOK /\ SeenBounded /\ [Next]_vars => SeenBounded'
  <2> SUFFICES ASSUME TypeOK, SeenBounded, [Next]_vars PROVE SeenBounded'
    OBVIOUS
  <2> USE DEF durable, process, history
  <2>0. /\ WellFormed(chat_seen, nextSeenId) /\ Keyed(chat_seen)
        /\ Cardinality(chat_seen) \in Nat /\ nextSeenId \in Nat \ {0}
    BY WellFormedKeyed DEF TypeOK
  <2>1. ASSUME chat_seen' \subseteq chat_seen PROVE SeenBounded'
    <3>1. PICK c \in Capacities : Cardinality(chat_seen) <= SeenFactor * c
      BY DEF SeenBounded
    <3>2. /\ Cardinality(chat_seen') \in Nat
          /\ Cardinality(chat_seen') <= Cardinality(chat_seen)
      BY <2>0, <2>1, KeyedSubset
    <3>3. SeenFactor * c \in Nat
      BY CapacitiesAssumption
    <3>4. Cardinality(chat_seen') <= SeenFactor * c
      BY <2>0, <3>1, <3>2, <3>3
    <3> QED
      BY <3>4 DEF SeenBounded
  <2>2. ASSUME NEW m \in Message, Claim(m) PROVE SeenBounded'
    <3> DEFINE keep == SeenFactor * capacity
               table == chat_seen \cup {[id |-> nextSeenId, msg |-> m]}
    <3>1. keep \in Nat \ {0}
      BY CapacityIsPositive
    <3>2. WellFormed(table, nextSeenId + 1) /\ Cardinality(table) = Cardinality(chat_seen) + 1
      BY <2>0, WellFormedInsert
    <3>3. chat_seen' = TrimSeen(table, keep)
      BY <2>2 DEF Claim
    <3> HIDE DEF keep, table
    <3>4. Keyed(table) /\ Cardinality(table) \in Nat
      BY <3>2, WellFormedKeyed
    <3>5. /\ Cardinality(chat_seen') \in Nat
          /\ Cardinality(chat_seen') <= Cardinality(table)
      BY <3>3, <3>4, TrimSeenSubset, KeyedSubset
    <3>6. CASE Cardinality(table) <= keep
      <4>1. Cardinality(chat_seen') <= keep
        BY <3>1, <3>4, <3>5, <3>6
      <4>2. capacity \in Capacities
        BY DEF TypeOK
      <4> QED
        BY <4>1, <4>2 DEF SeenBounded, keep
    <3>7. CASE keep < Cardinality(table)
      <4>1. Cardinality(chat_seen') <= Cardinality(chat_seen)
        BY <2>0, <3>1, <3>2, <3>3, <3>4, <3>5, <3>7, TrimSeenShortens
      <4>2. PICK c \in Capacities : Cardinality(chat_seen) <= SeenFactor * c
        BY DEF SeenBounded
      <4>3. SeenFactor * c \in Nat
        BY CapacitiesAssumption
      <4>4. Cardinality(chat_seen') <= SeenFactor * c
        BY <2>0, <3>5, <4>1, <4>2, <4>3
      <4> QED
        BY <4>4 DEF SeenBounded
    <3> QED
      BY <3>1, <3>4, <3>6, <3>7
  <2>3. ASSUME NEW s \in Settings, ApplyConfig(s) PROVE SeenBounded'
    BY <2>1, <2>3, TrimSeenSubset DEF ApplyConfig
  <2>4. CASE Open
    BY <2>1, <2>4, TrimSeenSubset DEF Open
  <2>5. CASE StartUp
    BY <2>1, <2>5, TrimSeenSubset DEF StartUp
  <2>6. CASE UNCHANGED chat_seen
    BY <2>1, <2>6
  <2> QED
    BY <2>2, <2>3, <2>4, <2>5, <2>6
       DEF Next, Enqueue, EnqueueAppend, EnqueueEvict, EnqueueDrop, RecordPollVote,
           Acknowledge, ClearMessages, SaveSettings, ApplyConfigFails, Crash, vars
<1> QED
  BY <1>1, <1>2, TypeCorrect, PTL DEF Spec

----------------------------------------------------------------------------
(* Accounting and capacity *)

\* remove_oldest_waiting takes one row, and not the one on air.
LEMMA OldestWaitingIsOne ==
  ASSUME TypeOK, Full, capacity # 1
  PROVE  /\ WellFormed(chat_messages \ OldestWaiting, nextMessageId)
         /\ Cardinality(chat_messages \ OldestWaiting) = Cardinality(chat_messages) - 1
         /\ AtOffset(chat_messages, 0) \subseteq chat_messages \ OldestWaiting
<1>1. /\ WellFormed(chat_messages, nextMessageId) /\ Keyed(chat_messages)
      /\ Cardinality(chat_messages) \in Nat /\ IsFiniteSet(chat_messages)
  BY WellFormedKeyed DEF TypeOK, Keyed
<1>2. 1 < Cardinality(chat_messages)
  BY <1>1, CapacityIsPositive DEF Full
<1>3. PICK r \in chat_messages : OldestWaiting = {r}
  <2>1. PICK r \in OldestWaiting : TRUE
    BY <1>1, <1>2, AtOffsetExists DEF OldestWaiting
  <2>2. \A s \in OldestWaiting : s = r
    BY <1>1, <2>1, AtOffsetUnique DEF OldestWaiting
  <2> QED
    BY <2>1, <2>2 DEF OldestWaiting, AtOffset
<1>4. Cardinality(chat_messages \ {r}) = Cardinality(chat_messages) - 1
  BY <1>1, FS_RemoveElement
<1>5. AtOffset(chat_messages, 0) \subseteq chat_messages \ OldestWaiting
  BY DEF OldestWaiting, AtOffset
<1> QED
  BY <1>1, <1>3, <1>4, <1>5, WellFormedSubset

\* Every message the inbox took is queued, released or counted as dropped.
THEOREM AlwaysAccounted == Spec => []EveryMessageAccounted
<1>1. Init => EveryMessageAccounted
  BY FS_EmptySet DEF Init, EveryMessageAccounted
<1>2. TypeOK /\ EveryMessageAccounted /\ [Next]_vars => EveryMessageAccounted'
  <2> SUFFICES ASSUME TypeOK, EveryMessageAccounted, [Next]_vars
               PROVE  EveryMessageAccounted'
    OBVIOUS
  <2> USE DEF durable, process, history
  <2>0. /\ WellFormed(chat_messages, nextMessageId) /\ Cardinality(chat_messages) \in Nat
        /\ IsFiniteSet(chat_messages) /\ nextMessageId \in Nat \ {0}
        /\ dropped \in Nat /\ offered \in Nat /\ released \in Nat
    BY WellFormedKeyed DEF TypeOK, Keyed
  <2>1. ASSUME NEW m \in Message, EnqueueAppend(m) PROVE EveryMessageAccounted'
    <3>1. Cardinality(chat_messages') = Cardinality(chat_messages) + 1
      BY <2>0, <2>1, WellFormedInsert DEF EnqueueAppend, Insert
    <3> QED
      BY <2>0, <2>1, <3>1 DEF EnqueueAppend, EveryMessageAccounted
  <2>2. ASSUME NEW m \in Message, EnqueueEvict(m) PROVE EveryMessageAccounted'
    <3>1. /\ WellFormed(chat_messages \ OldestWaiting, nextMessageId)
          /\ Cardinality(chat_messages \ OldestWaiting) = Cardinality(chat_messages) - 1
      BY <2>2, OldestWaitingIsOne DEF EnqueueEvict
    <3>2. Cardinality(chat_messages') = Cardinality(chat_messages \ OldestWaiting) + 1
      BY <2>0, <2>2, <3>1, WellFormedInsert DEF EnqueueEvict, Insert
    <3> QED
      BY <2>0, <2>2, <3>1, <3>2 DEF EnqueueEvict, EveryMessageAccounted
  <2>3. ASSUME NEW m \in Message, EnqueueDrop(m) PROVE EveryMessageAccounted'
    BY <2>0, <2>3 DEF EnqueueDrop, EveryMessageAccounted
  <2>4. ASSUME NEW expected, Acknowledge(expected) PROVE EveryMessageAccounted'
    <3>1. PICK r \in chat_messages : chat_messages' = chat_messages \ {r}
      BY <2>4 DEF Acknowledge, AtOffset
    <3>2. Cardinality(chat_messages') = Cardinality(chat_messages) - 1
      BY <2>0, <3>1, FS_RemoveElement
    <3> QED
      BY <2>0, <2>4, <3>2 DEF Acknowledge, EveryMessageAccounted
  <2>5. CASE ClearMessages
    BY <2>0, <2>5, FS_EmptySet DEF ClearMessages, EveryMessageAccounted
  <2>6. ASSUME NEW cap \in Nat \ {0}, TrimToCapacity(cap), UNCHANGED <<offered, released>>
        PROVE  EveryMessageAccounted'
    BY <2>0, <2>6, TrimToCapacityEffect DEF EveryMessageAccounted
  <2>7. CASE UNCHANGED <<chat_messages, dropped, offered, released>>
    BY <2>7 DEF EveryMessageAccounted
  <2>8. ASSUME NEW s \in Settings, ApplyConfig(s) PROVE EveryMessageAccounted'
    BY <2>6, <2>7, <2>8, CapacityIsPositive DEF ApplyConfig
  <2>9. CASE Open
    BY <2>6, <2>9, CapacityIsPositive DEF Open
  <2>10. CASE StartUp
    BY <2>6, <2>10, CapacityIsPositive DEF StartUp
  <2> QED
    BY <2>1, <2>2, <2>3, <2>4, <2>5, <2>7, <2>8, <2>9, <2>10
       DEF Next, Enqueue, RecordPollVote, SaveSettings, ApplyConfigFails, Crash, vars
<1> QED
  BY <1>1, <1>2, TypeCorrect, PTL DEF Spec

\* Between from_database and the first configuration the inbox is in queue
\* mode: what makes the bound survive the start-up.
OpenedInQueueMode == phase = "opened" => queueMode

LEMMA OpenedIsQueueMode == Spec => []OpenedInQueueMode
<1>1. Init => OpenedInQueueMode
  BY DEF Init, OpenedInQueueMode
<1>2. OpenedInQueueMode /\ [Next]_vars => OpenedInQueueMode'
  BY DEF OpenedInQueueMode, vars, process, Next, Enqueue, EnqueueAppend, EnqueueEvict,
         EnqueueDrop, RecordPollVote, Acknowledge, ClearMessages, SaveSettings, ApplyConfig,
         ApplyConfigFails, Crash, Open, StartUp
<1> QED
  BY <1>1, <1>2, PTL DEF Spec

\* In queue mode the inbox holds no more than its capacity, above capacity 1.
THEOREM AlwaysBounded == Spec => []QueueBounded
<1>1. Init => QueueBounded
  BY DEF Init, QueueBounded
<1>2. TypeOK /\ OpenedInQueueMode /\ QueueBounded /\ [Next]_vars => QueueBounded'
  <2> SUFFICES ASSUME TypeOK, OpenedInQueueMode, QueueBounded, [Next]_vars
               PROVE  QueueBounded'
    OBVIOUS
  <2> USE DEF durable, process, history
  <2>0. /\ WellFormed(chat_messages, nextMessageId) /\ Cardinality(chat_messages) \in Nat
        /\ Keyed(chat_messages) /\ nextMessageId \in Nat \ {0}
        /\ capacity \in Nat \ {0}
    BY WellFormedKeyed, CapacityIsPositive DEF TypeOK
  <2>1. ASSUME NEW m \in Message, EnqueueAppend(m) PROVE QueueBounded'
    <3>1. Cardinality(chat_messages') = Cardinality(chat_messages) + 1
      BY <2>0, <2>1, WellFormedInsert DEF EnqueueAppend, Insert
    <3> QED
      BY <2>0, <2>1, <3>1 DEF EnqueueAppend, Full, QueueBounded
  <2>2. ASSUME NEW m \in Message, EnqueueEvict(m) PROVE QueueBounded'
    <3>1. /\ WellFormed(chat_messages \ OldestWaiting, nextMessageId)
          /\ Cardinality(chat_messages \ OldestWaiting) = Cardinality(chat_messages) - 1
      BY <2>2, OldestWaitingIsOne DEF EnqueueEvict
    <3>2. Cardinality(chat_messages') = Cardinality(chat_messages \ OldestWaiting) + 1
      BY <2>0, <2>2, <3>1, WellFormedInsert DEF EnqueueEvict, Insert
    <3> QED
      BY <2>0, <2>2, <3>1, <3>2 DEF EnqueueEvict, QueueBounded
  <2>3. ASSUME UNCHANGED <<phase, capacity, queueMode>>, chat_messages' \subseteq chat_messages
        PROVE  QueueBounded'
    <3>1. /\ Cardinality(chat_messages') \in Nat
          /\ Cardinality(chat_messages') <= Cardinality(chat_messages)
      BY <2>0, <2>3, KeyedSubset
    <3> QED
      BY <2>0, <2>3, <3>1 DEF QueueBounded
  <2>4. ASSUME NEW s \in Settings, ApplyConfig(s) PROVE QueueBounded'
    <3>1. CASE queueMode'
      BY <2>4, <3>1, CapacityIsPositive, TrimToCapacityEffect DEF ApplyConfig, QueueBounded
    <3> QED
      BY <3>1 DEF QueueBounded
  <2>5. ASSUME NEW s \in Settings, ApplyConfigFails(s) PROVE QueueBounded'
    BY <2>0, <2>5, ExcessCanGo, CapacityIsPositive
       DEF ApplyConfigFails, CanTrim, QueueBounded
  <2>6. CASE Open
    BY <2>6, CapacityIsPositive, TrimToCapacityEffect DEF Open, QueueBounded
  <2>7. CASE Crash
    BY <2>7 DEF Crash, QueueBounded
  <2>8. CASE StartUp
    <3>1. TrimToCapacity(settings.queue_capacity) /\ capacity' = capacity /\ phase = "opened"
      BY <2>8 DEF StartUp
    <3>2. chat_messages' \subseteq chat_messages
      BY <3>1, CapacityIsPositive, TrimToCapacityEffect
    <3>3. /\ Cardinality(chat_messages') \in Nat
          /\ Cardinality(chat_messages') <= Cardinality(chat_messages)
      BY <2>0, <3>2, KeyedSubset
    <3>4. queueMode
      BY <3>1 DEF OpenedInQueueMode
    <3> QED
      BY <2>0, <3>1, <3>3, <3>4 DEF QueueBounded
  <2> QED
    BY <2>1, <2>2, <2>3, <2>4, <2>5, <2>6, <2>7, <2>8
       DEF Next, Enqueue, EnqueueDrop, RecordPollVote, Acknowledge, ClearMessages,
           SaveSettings, vars
<1> QED
  BY <1>1, <1>2, TypeCorrect, OpenedIsQueueMode, PTL DEF Spec

\* A restart is possible whenever the saved capacity is above 1.
THEOREM RestartAlwaysPossibleAbove1 == Spec => []RestartPossible
<1>1. TypeOK => RestartPossible
  <2> SUFFICES ASSUME TypeOK, settings.queue_capacity > 1
               PROVE  CanTrim(settings.queue_capacity)
    BY DEF RestartPossible
  <2>1. Keyed(chat_messages)
    BY WellFormedKeyed DEF TypeOK
  <2> QED
    BY <2>1, CapacityIsPositive, ExcessCanGo DEF CanTrim
<1> QED
  BY <1>1, TypeCorrect, PTL

----------------------------------------------------------------------------
(* The message on air *)

\* A step that is neither the acknowledgement of the message on air nor a
\* clear leaves that message on air.
THEOREM OnAirIsTheOperators == Spec => OnAirMovesOnlyByOperator
<1> DEFINE Stays == \A r \in AtOffset(chat_messages, 0) :
                      \/ r \in AtOffset(chat_messages', 0)
                      \/ Acknowledge(r.id)
                      \/ ClearMessages
<1>1. TypeOK /\ TypeOK' /\ [Next]_vars => [Stays]_vars
  <2> SUFFICES ASSUME TypeOK, TypeOK', Next,
                      NEW r \in AtOffset(chat_messages, 0)
               PROVE  \/ r \in AtOffset(chat_messages', 0)
                      \/ Acknowledge(r.id)
                      \/ ClearMessages
    OBVIOUS
  <2> USE DEF durable, process, history
  <2>0. /\ Keyed(chat_messages) /\ Keyed(chat_messages')
        /\ r \in chat_messages
        /\ r.id <= nextMessageId
    <3>1. /\ WellFormed(chat_messages, nextMessageId)
          /\ WellFormed(chat_messages', nextMessageId')
          /\ nextMessageId \in Nat \ {0}
      BY DEF TypeOK
    <3>2. Keyed(chat_messages) /\ Keyed(chat_messages')
      BY <3>1, WellFormedKeyed
    <3>3. r \in chat_messages
      BY DEF AtOffset
    <3>4. r.id <= nextMessageId
      BY <3>1, <3>3 DEF WellFormed
    <3> QED
      BY <3>2, <3>3, <3>4
  <2>1. ASSUME r \in chat_messages', \A s \in chat_messages' \ chat_messages : r.id <= s.id
        PROVE  r \in AtOffset(chat_messages', 0)
    BY <2>0, <2>1, OnAirStays
  <2>2. ASSUME NEW m \in Message, EnqueueAppend(m)
        PROVE  r \in AtOffset(chat_messages', 0)
    <3>1. chat_messages' = chat_messages \cup {[id |-> nextMessageId, msg |-> m]}
      BY <2>2 DEF EnqueueAppend, Insert
    <3> QED
      BY <2>0, <2>1, <3>1
  <2>3. ASSUME NEW m \in Message, EnqueueEvict(m)
        PROVE  r \in AtOffset(chat_messages', 0)
    <3>1. r \in chat_messages \ OldestWaiting
      BY <2>3, OldestWaitingIsOne DEF EnqueueEvict
    <3>2. chat_messages' = (chat_messages \ OldestWaiting)
                             \cup {[id |-> nextMessageId, msg |-> m]}
      BY <2>3 DEF EnqueueEvict, Insert
    <3> QED
      BY <2>0, <2>1, <3>1, <3>2
  <2>4. ASSUME NEW expected, Acknowledge(expected) PROVE Acknowledge(r.id)
    <3>1. PICK s \in AtOffset(chat_messages, 0) : s.id = expected
      BY <2>4 DEF Acknowledge
    <3>2. s = r
      BY <2>0, <3>1, AtOffsetUnique
    <3> QED
      BY <2>4, <3>1, <3>2
  <2>5. ASSUME NEW cap \in Nat \ {0}, TrimToCapacity(cap)
        PROVE  r \in AtOffset(chat_messages', 0)
    BY <2>5, TrimToCapacityEffect
  <2>6. CASE UNCHANGED chat_messages
    BY <2>6
  <2>7. ASSUME NEW s \in Settings, ApplyConfig(s)
        PROVE  r \in AtOffset(chat_messages', 0)
    BY <2>5, <2>6, <2>7, CapacityIsPositive DEF ApplyConfig
  <2>8. CASE Open
    BY <2>5, <2>8, CapacityIsPositive DEF Open
  <2>9. CASE StartUp
    BY <2>5, <2>9, CapacityIsPositive DEF StartUp
  <2> QED
    BY <2>2, <2>3, <2>4, <2>6, <2>7, <2>8, <2>9
       DEF Next, Enqueue, EnqueueDrop, RecordPollVote, SaveSettings, ApplyConfigFails, Crash
<1> QED
  BY <1>1, TypeCorrect, PTL DEF Spec, OnAirMovesOnlyByOperator

----------------------------------------------------------------------------
(* The abstract state of a table *)

\* DisplayQueue counts as ChatInbox does.
LEMMA SameCardinality == \A S : Display!Cardinality(S) = Cardinality(S)
BY DEF Display!Cardinality, Cardinality, Display!IsFiniteSet, IsFiniteSet


LEMMA AbstractQueue ==
  ASSUME TypeOK
  PROVE  /\ Keyed(chat_messages)
         /\ dropped \in Nat /\ nextMessageId \in Nat \ {0}
         /\ \A r \in chat_messages :
              r \in AtOffset(chat_messages, 0) <=> Display!OnAir(r.id)
<1>1. /\ WellFormed(chat_messages, nextMessageId) /\ dropped \in Nat
      /\ nextMessageId \in Nat \ {0}
  BY DEF TypeOK
<1>2. Keyed(chat_messages)
  BY <1>1, WellFormedKeyed
<1>3. \A r \in chat_messages :
        r \in AtOffset(chat_messages, 0) <=> Display!OnAir(r.id)
  BY <1>2, IdsOnAir DEF Display!OnAir, Ids
<1> QED
  BY <1>1, <1>2, <1>3

\* trim_to_capacity sheds the oldest waiting tickets, or nothing.
LEMMA TrimSheds ==
  ASSUME TypeOK, NEW cap \in Nat \ {0}, TrimToCapacity(cap), UNCHANGED nextMessageId
  PROVE  Display!Shed \/ UNCHANGED Display!vars
<1> DEFINE amount == Excess(chat_messages, cap)
           Gone == chat_messages \ chat_messages'
           gone == Ids(Gone)
<1>1. Keyed(chat_messages) /\ dropped \in Nat
  BY AbstractQueue
<1>2. /\ chat_messages' = EvictOldestWaiting(chat_messages, amount)
      /\ CanEvict(chat_messages, amount)
      /\ dropped' = dropped + amount
  BY DEF TrimToCapacity
<1>3. amount \in Nat
  BY <1>1, ExcessCanGo
<1>4. /\ chat_messages' \subseteq chat_messages
      /\ Cardinality(chat_messages') = Cardinality(chat_messages) - amount
      /\ AtOffset(chat_messages, 0) \subseteq chat_messages'
  BY <1>1, <1>2, <1>3, EvictExactly
<1>5. CASE amount = 0
  <2>1. chat_messages' = chat_messages
    BY <1>2, <1>5 DEF EvictOldestWaiting
  <2> QED
    BY <1>1, <1>2, <1>5, <2>1 DEF Display!vars
<1>6. CASE amount # 0
  <2>1. /\ Keyed(Gone) /\ Gone \subseteq chat_messages
        /\ Cardinality(Gone) = amount
    <3>1. IsFiniteSet(chat_messages) /\ Cardinality(chat_messages) \in Nat
      BY <1>1, FS_CardinalityType DEF Keyed
    <3>2. chat_messages \cap chat_messages' = chat_messages'
      BY <1>4
    <3>3. Cardinality(Gone) = Cardinality(chat_messages) - Cardinality(chat_messages')
      BY <3>1, <3>2, FS_Difference
    <3> QED
      BY <1>1, <1>3, <1>4, <3>1, <3>3, KeyedSubset
  <2>2. Display!Cardinality(gone) = amount
    BY <2>1, IdsCount, SameCardinality
  <2>3. gone # {}
    BY <1>6, <2>2, FS_EmptySet, SameCardinality
  <2>4. gone \subseteq Ids(chat_messages)
    BY <2>1 DEF Ids
  <2>5. Ids(chat_messages') = Ids(chat_messages) \ gone
    <3>1. chat_messages' = chat_messages \ Gone
      BY <1>4
    <3> QED
      BY <1>1, <2>1, <3>1, IdsDifference
  <2>6. \A t \in gone : ~Display!OnAir(t)
    BY <1>4, AbstractQueue DEF Ids
  <2>7. ASSUME NEW t \in gone, NEW u \in Ids(chat_messages), u < t
        PROVE  Display!OnAir(u) \/ u \in gone
    <3>1. PICK g \in Gone, s \in chat_messages : t = g.id /\ u = s.id
      BY DEF Ids
    <3>2. s \in AtOffset(chat_messages, 0) \/ s \notin chat_messages'
      BY <1>1, <1>2, <1>3, <2>7, <3>1, EvictOldestFirst
    <3> QED
      BY <3>1, <3>2, AbstractQueue DEF Ids
  <2>8. Display!OldestWaiting(gone)
    BY <2>4, <2>6, <2>7 DEF Display!OldestWaiting, Ids
  <2> HIDE DEF gone
  <2> QED
    BY <1>2, <2>2, <2>3, <2>4, <2>5, <2>8 DEF Display!Shed, Ids
<1> QED
  BY <1>5, <1>6

----------------------------------------------------------------------------
(* The steps *)

LEMMA AppendJoins ==
  ASSUME TypeOK, NEW m \in Message, EnqueueAppend(m)
  PROVE  Display!Join
<1>1. /\ Ids(chat_messages') = Ids(chat_messages) \cup {nextMessageId}
      /\ nextMessageId' = nextMessageId + 1 /\ dropped' = dropped
  BY IdsInsert DEF EnqueueAppend, Insert
<1>2. nextMessageId \in Nat \ {0} /\ dropped \in Nat
  BY AbstractQueue
<1>3. Display!OldestWaiting({}) /\ Display!Cardinality({}) = 0
  BY FS_EmptySet, SameCardinality DEF Display!OldestWaiting
<1>4. Ids(chat_messages') = (Ids(chat_messages) \ {}) \cup {nextMessageId - 1 + 1}
  BY <1>1, <1>2
<1> QED
  BY <1>1, <1>2, <1>3, <1>4 DEF Display!Join, Ids

LEMMA EvictJoins ==
  ASSUME TypeOK, NEW m \in Message, EnqueueEvict(m)
  PROVE  Display!Join
<1>1. Keyed(chat_messages) /\ nextMessageId \in Nat \ {0} /\ dropped \in Nat
  BY AbstractQueue
<1>2. Full /\ capacity # 1
  BY DEF EnqueueEvict
<1>3. /\ Cardinality(chat_messages \ OldestWaiting) = Cardinality(chat_messages) - 1
      /\ AtOffset(chat_messages, 0) \subseteq chat_messages \ OldestWaiting
  BY <1>2, OldestWaitingIsOne
<1>4. PICK victim \in chat_messages : OldestWaiting = {victim}
  <2>1. OldestWaiting # {}
    <3>1. Cardinality(chat_messages) \in Nat
      BY <1>1, FS_CardinalityType DEF Keyed
    <3>2. ASSUME OldestWaiting = {} PROVE FALSE
      <4>1. chat_messages \ OldestWaiting = chat_messages
        BY <3>2
      <4> QED
        BY <1>3, <3>1, <4>1
    <3> QED
      BY <3>2
  <2>2. \A r, s \in OldestWaiting : r = s
    BY <1>1, AtOffsetUnique DEF OldestWaiting
  <2>3. OldestWaiting \subseteq chat_messages
    BY DEF OldestWaiting, AtOffset
  <2> QED
    BY <2>1, <2>2, <2>3
<1> DEFINE gone == {victim.id}
<1>5. ~Display!OnAir(victim.id)
  BY <1>3, <1>4, AbstractQueue
<1>6. ASSUME NEW s \in chat_messages, s.id < victim.id
      PROVE  Display!OnAir(s.id)
  <2>1. /\ Cardinality(Older(chat_messages, s)) \in Nat
        /\ Cardinality(Older(chat_messages, s)) < Cardinality(Older(chat_messages, victim))
    BY <1>1, <1>6, OlderFinite, OlderCounts
  <2>2. Cardinality(Older(chat_messages, victim)) = 1
    BY <1>4 DEF OldestWaiting, AtOffset, Older
  <2>3. Cardinality(Older(chat_messages, s)) = 0
    BY <2>1, <2>2
  <2>4. s \in AtOffset(chat_messages, 0)
    BY <2>3 DEF AtOffset, Older
  <2> QED
    BY <2>4, AbstractQueue
<1>7. Display!OldestWaiting(gone)
  BY <1>5, <1>6 DEF Display!OldestWaiting
<1>8. Ids(chat_messages') = (Ids(chat_messages) \ gone) \cup {nextMessageId}
  <2>1. chat_messages' = (chat_messages \ {victim})
                           \cup {[id |-> nextMessageId, msg |-> m]}
    BY <1>4 DEF EnqueueEvict, Insert
  <2>2. Ids(chat_messages \ {victim}) = Ids(chat_messages) \ gone
    BY <1>1 DEF Ids, Keyed
  <2> QED
    BY <2>1, <2>2, IdsInsert
<1>9. nextMessageId' = nextMessageId + 1 /\ dropped' = dropped + 1
  BY DEF EnqueueEvict, Insert
<1>10. Display!Cardinality(gone) = 1 /\ gone \subseteq Ids(chat_messages)
  BY FS_Singleton, SameCardinality DEF Ids
<1>11. nextMessageId = nextMessageId - 1 + 1
  BY <1>1
<1>12. /\ gone \in SUBSET Ids(chat_messages)
       /\ Display!OldestWaiting(gone)
       /\ Display!Cardinality(gone) <= 1
       /\ Ids(chat_messages') = (Ids(chat_messages) \ gone) \cup {nextMessageId - 1 + 1}
       /\ (nextMessageId - 1)' = nextMessageId - 1 + 1
       /\ dropped' = dropped + Display!Cardinality(gone)
  BY <1>1, <1>7, <1>8, <1>9, <1>10, <1>11
<1> HIDE DEF gone
<1> QED
  BY <1>12 DEF Display!Join, Ids

LEMMA AcknowledgeFinishes ==
  ASSUME TypeOK, NEW expected, Acknowledge(expected)
  PROVE  Display!Finish
<1>1. Keyed(chat_messages)
  BY AbstractQueue
<1>2. PICK r \in AtOffset(chat_messages, 0) : chat_messages' = chat_messages \ {r}
  BY DEF Acknowledge
<1>3. r \in chat_messages
  BY DEF AtOffset
<1>4. Ids(chat_messages') = Ids(chat_messages) \ {r.id}
  BY <1>1, <1>2, <1>3 DEF Ids, Keyed
<1>5. Display!OnAir(r.id)
  BY <1>3, AbstractQueue
<1> QED
  BY <1>3, <1>4, <1>5 DEF Display!Finish, Ids, Acknowledge

----------------------------------------------------------------------------
(* The display queue is implemented: messages are shown in the order they   *)
(* were accepted, the message on air leaves by the operator only, and what  *)
(* is lost for lack of room is the oldest waiting message, and is counted.  *)
THEOREM InboxImplementsDisplayQueue == Spec => ImplementsDisplayQueue
<1>1. Init => Display!Init
  BY DEF Init, Display!Init
<1>2. TypeOK /\ [Next]_vars => [Display!Next]_Display!vars
  <2> SUFFICES ASSUME TypeOK, [Next]_vars PROVE [Display!Next]_Display!vars
    OBVIOUS
  <2> USE DEF durable, process, history
  <2>1. ASSUME NEW m \in Message, EnqueueAppend(m) PROVE Display!Next
    BY <2>1, AppendJoins DEF Display!Next
  <2>2. ASSUME NEW m \in Message, EnqueueEvict(m) PROVE Display!Next
    BY <2>2, EvictJoins DEF Display!Next
  <2>3. ASSUME NEW m \in Message, EnqueueDrop(m) PROVE Display!Next
    BY <2>3 DEF EnqueueDrop, Display!Next, Display!Refuse
  <2>4. ASSUME NEW expected, Acknowledge(expected) PROVE Display!Next
    BY <2>4, AcknowledgeFinishes DEF Display!Next
  <2>5. CASE ClearMessages
    BY <2>5 DEF ClearMessages, Display!Next, Display!Clear
  <2>6. CASE UNCHANGED <<chat_messages, dropped, nextMessageId>>
    BY <2>6 DEF Display!vars
  <2>7. ASSUME NEW s \in Settings, ApplyConfig(s) PROVE [Display!Next]_Display!vars
    BY <2>6, <2>7, CapacityIsPositive, TrimSheds DEF ApplyConfig, Display!Next
  <2>8. CASE Open
    BY <2>8, CapacityIsPositive, TrimSheds DEF Open, Display!Next
  <2>9. CASE StartUp
    BY <2>9, CapacityIsPositive, TrimSheds DEF StartUp, Display!Next
  <2> QED
    BY <2>1, <2>2, <2>3, <2>4, <2>5, <2>6, <2>7, <2>8, <2>9
       DEF Next, Enqueue, RecordPollVote, SaveSettings, ApplyConfigFails, Crash, vars
<1> QED
  BY <1>1, <1>2, TypeCorrect, PTL DEF Spec, ImplementsDisplayQueue, Display!Spec
==============================================================================
