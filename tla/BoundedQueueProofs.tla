------------------------- MODULE BoundedQueueProofs -------------------------
(***************************************************************************)
(* What every user of the queues of src/Queues.h relies on, for every item *)
(* type and every positive capacity.                                       *)
(***************************************************************************)
EXTENDS BoundedQueue, SequenceTheorems, FiniteSetTheorems, WellFoundedInduction, TLAPS

(* Taking the oldest item out of a queue that has one.                     *)
LEMMA PopType ==
  ASSUME NEW S, NEW q \in Seq(S), CanPop(q)
  PROVE  /\ Head(q) \in S /\ Tail(q) \in Seq(S)
         /\ Len(q) \in Nat \ {0} /\ Len(Tail(q)) = Len(q) - 1
<1>1. q # <<>>
  BY DEF CanPop
<1>2. Len(q) \in Nat \ {0}
  BY <1>1, EmptySeq
<1> QED
  BY <1>1, <1>2, HeadTailProperties

(* Push keeps the bound that BoundedQueue promises and forgets at most the *)
(* item that Dropped names.                                                *)
LEMMA PushType ==
  ASSUME NEW S, NEW max \in Nat \ {0}, NEW q \in Seq(S), NEW item \in S, Len(q) <= max
  PROVE  /\ Push(q, item, max) \in Seq(S)
         /\ Len(Push(q, item, max)) <= max
         /\ Dropped(q, max) \subseteq S
<1>1. CASE Len(q) >= max
  <2>1. CanPop(q)
    BY <1>1, EmptySeq DEF CanPop
  <2>2. /\ Tail(q) \in Seq(S) /\ Len(Tail(q)) = Len(q) - 1 /\ Head(q) \in S
        /\ Len(q) \in Nat
    BY <2>1, PopType
  <2>3. /\ Append(Tail(q), item) \in Seq(S)
        /\ Len(Append(Tail(q), item)) = Len(Tail(q)) + 1
    BY <2>2, AppendProperties
  <2> QED
    BY <1>1, <2>2, <2>3 DEF Push, Room, Dropped
<1>2. CASE ~(Len(q) >= max)
  <2>1. Append(q, item) \in Seq(S) /\ Len(Append(q, item)) = Len(q) + 1
    BY AppendProperties
  <2>2. Len(q) \in Nat
    BY LenProperties
  <2> QED
    BY <1>2, <2>1, <2>2 DEF Push, Room, Dropped
<1> QED
  BY <1>1, <1>2

(* The items of a sequence that grows at its end.                          *)
LEMMA AppendItems ==
  ASSUME NEW S, NEW q \in Seq(S), NEW item \in S
  PROVE  Items(Append(q, item)) = Items(q) \cup {item}
<1>1. /\ Len(Append(q, item)) = Len(q) + 1
      /\ \A i \in 1 .. Len(q) : Append(q, item)[i] = q[i]
      /\ Append(q, item)[Len(q) + 1] = item
  BY AppendProperties
<1>2. Len(q) \in Nat
  BY LenProperties
<1> QED
  BY <1>1, <1>2 DEF Items

(* No item vanishes from a queue: popping takes the one at its head.       *)
LEMMA PopItems ==
  ASSUME NEW S, NEW q \in Seq(S), CanPop(q)
  PROVE  Items(q) = {Head(q)} \cup Items(Tail(q))
<1>1. /\ Len(q) \in Nat \ {0} /\ Len(Tail(q)) = Len(q) - 1
      /\ Head(q) = q[1] /\ \A i \in 1 .. Len(Tail(q)) : Tail(q)[i] = q[i + 1]
  BY PopType, HeadTailProperties DEF CanPop
<1>2. ASSUME NEW i \in 1 .. Len(q)
      PROVE  q[i] \in {Head(q)} \cup Items(Tail(q))
  <2>1. CASE i = 1
    BY <2>1, <1>1
  <2>2. CASE i # 1
    <3>1. i - 1 \in 1 .. Len(Tail(q)) /\ Tail(q)[i - 1] = q[i]
      BY <2>2, <1>1
    <3> QED
      BY <3>1 DEF Items
  <2> QED
    BY <2>1, <2>2
<1>3. ASSUME NEW i \in 1 .. Len(Tail(q))
      PROVE  Tail(q)[i] \in Items(q)
  BY <1>1 DEF Items
<1> QED
  BY <1>1, <1>2, <1>3 DEF Items

(* Whatever a Push moves out of the queue is in Dropped.                   *)
LEMMA PushItems ==
  ASSUME NEW S, NEW max \in Nat \ {0}, NEW q \in Seq(S), NEW item \in S
  PROVE  Items(q) \cup {item} \subseteq Items(Push(q, item, max)) \cup Dropped(q, max)
<1>1. CASE Len(q) >= max
  <2>1. CanPop(q)
    BY <1>1, EmptySeq DEF CanPop
  <2>2. Items(q) = {Head(q)} \cup Items(Tail(q)) /\ Tail(q) \in Seq(S)
    BY <2>1, PopItems, PopType
  <2>3. Items(Append(Tail(q), item)) = Items(Tail(q)) \cup {item}
    <3> DEFINE rest == Tail(q)
    <3>1. rest \in Seq(S)
      BY <2>2
    <3> HIDE DEF rest
    <3>2. Items(Append(rest, item)) = Items(rest) \cup {item}
      BY <3>1, AppendItems
    <3> QED
      BY <3>2 DEF rest
  <2> QED
    BY <1>1, <2>2, <2>3 DEF Push, Room, Dropped
<1>2. CASE ~(Len(q) >= max)
  BY <1>2, AppendItems DEF Push, Room
<1> QED
  BY <1>1, <1>2

-----------------------------------------------------------------------------
(* Queues in which no item is twice                                        *)

Distinct(q) == \A i, j \in 1 .. Len(q) : q[i] = q[j] => i = j

LEMMA PopDistinct ==
  ASSUME NEW S, NEW q \in Seq(S), CanPop(q), Distinct(q)
  PROVE  Distinct(Tail(q)) /\ Head(q) \notin Items(Tail(q))
<1>1. /\ Len(q) \in Nat \ {0} /\ Len(Tail(q)) = Len(q) - 1
      /\ Head(q) = q[1] /\ \A i \in 1 .. Len(Tail(q)) : Tail(q)[i] = q[i + 1]
  BY PopType, HeadTailProperties DEF CanPop
<1>2. \A i \in 1 .. Len(Tail(q)) : i + 1 \in 1 .. Len(q) /\ i + 1 # 1
  BY <1>1
<1>3. ASSUME NEW i \in 1 .. Len(Tail(q)), NEW j \in 1 .. Len(Tail(q)),
             Tail(q)[i] = Tail(q)[j]
      PROVE  i = j
  <2>1. q[i + 1] = q[j + 1]
    BY <1>1, <1>3
  <2>2. i + 1 = j + 1
    BY <1>2, <2>1 DEF Distinct
  <2> QED
    BY <1>1, <2>2
<1>4. ASSUME NEW i \in 1 .. Len(Tail(q))
      PROVE  Tail(q)[i] # Head(q)
  <2>1. 1 \in 1 .. Len(q)
    BY <1>1
  <2> QED
    BY <1>1, <1>2, <2>1 DEF Distinct
<1> QED
  BY <1>3, <1>4 DEF Distinct, Items

LEMMA AppendDistinct ==
  ASSUME NEW S, NEW q \in Seq(S), NEW item \in S, Distinct(q), item \notin Items(q)
  PROVE  Distinct(Append(q, item))
<1> DEFINE r == Append(q, item)
<1>1. /\ Len(r) = Len(q) + 1 /\ r[Len(q) + 1] = item
      /\ \A i \in 1 .. Len(q) : r[i] = q[i]
  BY AppendProperties
<1> HIDE DEF r
<1>2. Len(q) \in Nat /\ \A i \in 1 .. Len(q) : q[i] # item
  BY LenProperties DEF Items
<1>3. Distinct(r)
  BY <1>1, <1>2 DEF Distinct
<1> QED
  BY <1>3 DEF r

(* What a Push does to the set of items: only the oldest may go.           *)
LEMMA PushDistinct ==
  ASSUME NEW S, NEW max \in Nat \ {0}, NEW q \in Seq(S), NEW item \in S,
         Distinct(q), item \notin Items(q)
  PROVE  /\ Distinct(Push(q, item, max))
         /\ Items(Push(q, item, max)) = (Items(q) \ Dropped(q, max)) \cup {item}
         /\ Dropped(q, max) \subseteq Items(q)
<1> DEFINE rest == Room(q, max)
<1>1. /\ rest \in Seq(S) /\ Distinct(rest) /\ Items(rest) = Items(q) \ Dropped(q, max)
      /\ Dropped(q, max) \subseteq Items(q)
  <2>1. CASE Len(q) >= max
    <3>1. CanPop(q)
      BY <2>1, EmptySeq DEF CanPop
    <3>2. /\ Tail(q) \in Seq(S) /\ Distinct(Tail(q)) /\ Head(q) \notin Items(Tail(q))
          /\ Items(q) = {Head(q)} \cup Items(Tail(q))
      BY <3>1, PopType, PopDistinct, PopItems
    <3> QED
      BY <2>1, <3>2 DEF Room, Dropped
  <2>2. CASE ~(Len(q) >= max)
    BY <2>2 DEF Room, Dropped
  <2> QED
    BY <2>1, <2>2
<1>2. Push(q, item, max) = Append(rest, item)
  BY DEF Push
<1> HIDE DEF rest
<1>3. Items(Append(rest, item)) = Items(rest) \cup {item}
  BY <1>1, AppendItems
<1>4. Distinct(Append(rest, item))
  BY <1>1, AppendDistinct
<1> QED
  BY <1>1, <1>2, <1>3, <1>4

-----------------------------------------------------------------------------
(* Lists that are emptied into another one                                 *)

LEMMA ConcatItems ==
  ASSUME NEW S, NEW q \in Seq(S), NEW r \in Seq(S)
  PROVE  Items(q \o r) = Items(q) \cup Items(r)
<1> DEFINE all == q \o r
<1>1. /\ Len(all) = Len(q) + Len(r) /\ Len(q) \in Nat /\ Len(r) \in Nat
      /\ \A i \in 1 .. Len(q) + Len(r) :
           all[i] = IF i <= Len(q) THEN q[i] ELSE r[i - Len(q)]
  BY ConcatProperties, LenProperties
<1> HIDE DEF all
<1>2. ASSUME NEW i \in 1 .. Len(all)
      PROVE  all[i] \in Items(q) \cup Items(r)
  <2>1. CASE i <= Len(q)
    BY <1>1, <2>1 DEF Items
  <2>2. CASE ~(i <= Len(q))
    <3>1. i - Len(q) \in 1 .. Len(r) /\ all[i] = r[i - Len(q)]
      BY <1>1, <2>2
    <3> QED
      BY <3>1 DEF Items
  <2> QED
    BY <2>1, <2>2
<1>3. ASSUME NEW i \in 1 .. Len(q)
      PROVE  q[i] \in Items(all)
  <2>1. i \in 1 .. Len(all) /\ all[i] = q[i]
    BY <1>1
  <2> QED
    BY <2>1 DEF Items
<1>4. ASSUME NEW i \in 1 .. Len(r)
      PROVE  r[i] \in Items(all)
  <2>1. Len(q) + i \in 1 .. Len(all) /\ all[Len(q) + i] = r[i]
    BY <1>1
  <2> QED
    BY <2>1 DEF Items
<1>5. Items(all) = Items(q) \cup Items(r)
  BY <1>2, <1>3, <1>4 DEF Items
<1> QED
  BY <1>5 DEF all

LEMMA ConcatDistinct ==
  ASSUME NEW S, NEW q \in Seq(S), NEW r \in Seq(S), Distinct(q), Distinct(r),
         Items(q) \cap Items(r) = {}
  PROVE  Distinct(q \o r)
<1> DEFINE all == q \o r
<1>1. /\ Len(all) = Len(q) + Len(r) /\ Len(q) \in Nat /\ Len(r) \in Nat
      /\ \A i \in 1 .. Len(q) + Len(r) :
           all[i] = IF i <= Len(q) THEN q[i] ELSE r[i - Len(q)]
  BY ConcatProperties, LenProperties
<1> HIDE DEF all
<1>2. \A i \in 1 .. Len(q), j \in 1 .. Len(r) : q[i] # r[j]
  BY DEF Items
<1>3. \A i \in 1 .. Len(all) :
        \/ i \in 1 .. Len(q) /\ all[i] = q[i]
        \/ i \notin 1 .. Len(q) /\ i - Len(q) \in 1 .. Len(r) /\ all[i] = r[i - Len(q)]
  BY <1>1
<1>4. ASSUME NEW i \in 1 .. Len(all), NEW j \in 1 .. Len(all), all[i] = all[j]
      PROVE  i = j
  <2>1. CASE i \in 1 .. Len(q)
    BY <1>2, <1>3, <1>4, <2>1 DEF Distinct
  <2>2. CASE i \notin 1 .. Len(q)
    <3>1. j \notin 1 .. Len(q)
      BY <1>2, <1>3, <1>4, <2>2
    <3>2. i - Len(q) = j - Len(q)
      BY <1>3, <1>4, <2>2, <3>1 DEF Distinct
    <3> QED
      BY <1>1, <3>2
  <2> QED
    BY <2>1, <2>2
<1>5. Distinct(all)
  BY <1>4 DEF Distinct
<1> QED
  BY <1>5 DEF all

(* Several items that are pushed into a list: it keeps its bound, and what *)
(* is in it was there before or has just come.                             *)
LEMMA PushAllDistinct ==
  ASSUME NEW S, NEW max \in Nat \ {0}, NEW q \in Seq(S), NEW items \in Seq(S),
         Distinct(q), Distinct(items), Items(q) \cap Items(items) = {}
  PROVE  /\ PushAll(q, items, max) \in Seq(S) /\ Len(PushAll(q, items, max)) <= max
         /\ Distinct(PushAll(q, items, max))
         /\ Items(PushAll(q, items, max)) \subseteq Items(q) \cup Items(items)
<1> DEFINE all   == q \o items
           first == IF Len(all) > max THEN Len(all) - max + 1 ELSE 1
           kept  == SubSeq(all, first, Len(all))
<1>1. all \in Seq(S) /\ Distinct(all) /\ Items(all) = Items(q) \cup Items(items)
  BY ConcatProperties, ConcatDistinct, ConcatItems
<1>2. PushAll(q, items, max) = kept
  BY DEF PushAll
<1> HIDE DEF all
<1>3. Len(all) \in Nat /\ \A i \in 1 .. Len(all) : all[i] \in S
  BY <1>1, LenProperties, ElementOfSeq
<1>4. first \in Nat \ {0} /\ first <= Len(all) + 1 /\ Len(all) - first + 1 <= max
  BY <1>3
<1> HIDE DEF first
<1>5. /\ kept \in Seq(S) /\ Len(kept) = Len(all) - first + 1
      /\ \A i \in 1 .. Len(kept) : kept[i] = all[first + i - 1]
  <2>1. \A i \in first .. Len(all) : all[i] \in S
    BY <1>3, <1>4
  <2>2. kept \in Seq(S)
    BY <1>3, <1>4, <2>1, SubSeqProperties
  <2>3. Len(kept) = IF first <= Len(all) THEN Len(all) - first + 1 ELSE 0
    BY <1>3, <1>4, <2>1, SubSeqProperties
  <2>4. \A i \in 1 .. Len(all) - first + 1 : kept[i] = all[first + i - 1]
    BY <1>3, <1>4, <2>1, SubSeqProperties
  <2>5. Len(kept) = Len(all) - first + 1
    BY <1>3, <1>4, <2>3
  <2> QED
    BY <2>2, <2>4, <2>5
<1> HIDE DEF kept
<1>6. \A i \in 1 .. Len(kept) : first + i - 1 \in 1 .. Len(all)
  BY <1>3, <1>4, <1>5
<1>7. ASSUME NEW i \in 1 .. Len(kept), NEW j \in 1 .. Len(kept), kept[i] = kept[j]
      PROVE  i = j
  <2>1. all[first + i - 1] = all[first + j - 1]
    BY <1>5, <1>7
  <2>2. first + i - 1 = first + j - 1
    BY <1>1, <1>6, <2>1 DEF Distinct
  <2> QED
    BY <1>4, <2>2
<1>8. Items(kept) \subseteq Items(all)
  BY <1>5, <1>6 DEF Items
<1> QED
  BY <1>1, <1>2, <1>4, <1>5, <1>7, <1>8 DEF Distinct

(* The number of places at which a list without repetitions has an item.   *)
LEMMA CountDistinct ==
  ASSUME NEW S, NEW q \in Seq(S), Distinct(q), NEW item
  PROVE  Cardinality({i \in 1 .. Len(q) : q[i] = item})
           = IF item \in Items(q) THEN 1 ELSE 0
<1> DEFINE places == {i \in 1 .. Len(q) : q[i] = item}
<1>1. CASE item \in Items(q)
  <2>1. PICK i \in 1 .. Len(q) : q[i] = item
    BY <1>1 DEF Items
  <2>2. places = {i}
    BY <2>1 DEF Distinct
  <2> QED
    BY <1>1, <2>2, FS_Singleton
<1>2. CASE item \notin Items(q)
  <2>1. places = {}
    BY <1>2 DEF Items
  <2> QED
    BY <1>2, <2>1, FS_EmptySet
<1> QED
  BY <1>1, <1>2

-----------------------------------------------------------------------------
(* Queues in order                                                         *)

(* Later items of q have larger numbers, except for those in set.          *)
Sorted(q, set) ==
  \A i, j \in 1 .. Len(q) : i < j /\ q[j] < q[i] => q[j] \in set

LEMMA SortedTail ==
  ASSUME NEW q \in Seq(Nat), NEW set, CanPop(q), Sorted(q, set)
  PROVE  /\ Sorted(Tail(q), set)
         /\ \A n \in Items(Tail(q)) : n < Head(q) => n \in set
<1>1. /\ Len(q) \in Nat \ {0} /\ Len(Tail(q)) = Len(q) - 1 /\ Tail(q) \in Seq(Nat)
      /\ \A i \in 1 .. Len(Tail(q)) : Tail(q)[i] = q[i + 1]
      /\ Head(q) = q[1]
  BY PopType, HeadTailProperties, LenProperties DEF CanPop
<1> DEFINE t == Tail(q)
<1> HIDE DEF t
<1>2. \A i \in 1 .. Len(t) : t[i] = q[i + 1] /\ i + 1 \in 1 .. Len(q) /\ 1 \in 1 .. Len(q)
  BY <1>1 DEF t
<1>3. ASSUME NEW i \in 1 .. Len(t), NEW j \in 1 .. Len(t), i < j, t[j] < t[i]
      PROVE  t[j] \in set
  <2>1. i + 1 < j + 1
    BY <1>3
  <2> QED
    BY <1>2, <1>3, <2>1 DEF Sorted
<1>4. ASSUME NEW i \in 1 .. Len(t), t[i] < Head(q)
      PROVE  t[i] \in set
  <2>1. 1 < i + 1
    OBVIOUS
  <2> QED
    BY <1>1, <1>2, <1>4, <2>1 DEF Sorted
<1>5. Sorted(t, set)
  BY <1>3 DEF Sorted
<1>6. \A n \in Items(t) : n < Head(q) => n \in set
  BY <1>4 DEF Items
<1> QED
  BY <1>5, <1>6 DEF t

LEMMA SortedAppend ==
  ASSUME NEW q \in Seq(Nat), NEW set, Sorted(q, set), NEW more, set \subseteq more,
         NEW item \in Nat, item \in more \/ \A n \in Items(q) : ~(item < n)
  PROVE  Sorted(Append(q, item), more)
<1> DEFINE r == Append(q, item)
<1>1. /\ Len(q) \in Nat /\ Len(r) = Len(q) + 1 /\ r[Len(q) + 1] = item
      /\ \A i \in 1 .. Len(q) : r[i] = q[i]
  BY AppendProperties, LenProperties
<1> HIDE DEF r
<1>2. ASSUME NEW i \in 1 .. Len(r), NEW j \in 1 .. Len(r), i < j, r[j] < r[i]
      PROVE  r[j] \in more
  <2>1. i \in 1 .. Len(q) /\ r[i] = q[i] /\ q[i] \in Items(q)
    BY <1>1, <1>2 DEF Items
  <2>2. CASE j = Len(q) + 1
    BY <1>1, <1>2, <2>1, <2>2
  <2>3. CASE j # Len(q) + 1
    <3>1. j \in 1 .. Len(q) /\ r[j] = q[j]
      BY <1>1, <2>3
    <3> QED
      BY <1>2, <2>1, <3>1 DEF Sorted
  <2> QED
    BY <2>2, <2>3
<1> QED
  BY <1>2 DEF Sorted, r

LEMMA SortedPush ==
  ASSUME NEW q \in Seq(Nat), NEW set, Sorted(q, set), NEW more, set \subseteq more,
         NEW item \in Nat, item \in more \/ \A n \in Items(q) : ~(item < n),
         NEW max \in Nat \ {0}
  PROVE  Sorted(Push(q, item, max), more)
<1> DEFINE rest == Room(q, max)
<1>1. rest \in Seq(Nat) /\ Sorted(rest, set) /\ Items(rest) \subseteq Items(q)
  <2>1. CASE Len(q) >= max
    <3>1. CanPop(q)
      BY <2>1, EmptySeq DEF CanPop
    <3>2. Tail(q) \in Seq(Nat) /\ Items(q) = {Head(q)} \cup Items(Tail(q))
      BY <3>1, PopType, PopItems
    <3>3. Sorted(Tail(q), set)
      BY <3>1, SortedTail
    <3> QED
      BY <2>1, <3>2, <3>3 DEF Room
  <2>2. CASE ~(Len(q) >= max)
    BY <2>2 DEF Room
  <2> QED
    BY <2>1, <2>2
<1>2. Push(q, item, max) = Append(rest, item)
  BY DEF Push
<1> HIDE DEF rest
<1>3. item \in more \/ \A n \in Items(rest) : ~(item < n)
  BY <1>1
<1> QED
  BY <1>1, <1>2, <1>3, SortedAppend

-----------------------------------------------------------------------------
(* Positions                                                               *)

(* A set of positions has a first and a last one.                          *)
LEMMA Smallest ==
  ASSUME NEW T \in SUBSET Nat, T # {}
  PROVE  \E i \in T : \A j \in T : i <= j
<1> DEFINE smaller == {ss \in Nat \X Nat : ss[1] < ss[2]}
<1>1. IsWellFoundedOn(smaller, Nat)
  BY NatLessThanWellFounded DEF OpToRel
<1> HIDE DEF smaller
<1>2. PICK i \in T : \A j \in T : ~(<<j, i>> \in smaller)
  BY <1>1, WFMin, Zenon
<1>3. \A j \in T : ~(j < i)
  BY <1>2 DEF smaller
<1> QED
  BY <1>3

LEMMA Largest ==
  ASSUME NEW n \in Nat, NEW T \in SUBSET (0 .. n), T # {}
  PROVE  \E i \in T : \A j \in T : j <= i
<1> DEFINE mirror == {n - i : i \in T}
<1>0. \A i \in T : n - i \in Nat
  OBVIOUS
<1>1. mirror \in SUBSET Nat /\ mirror # {}
  BY <1>0
<1>2. PICK k \in mirror : \A j \in mirror : k <= j
  BY <1>1, Smallest
<1>3. PICK i \in T : k = n - i
  OBVIOUS
<1>4. \A j \in T : n - i <= n - j
  BY <1>2, <1>3
<1> QED
  BY <1>4

(* What holds of every position from the last one back, and from the first. *)
LEMMA FromTheEnd ==
  ASSUME NEW n \in Nat, NEW Good, n + 1 \in Good,
         \A i \in 1 .. n : (\A k \in i + 1 .. n + 1 : k \in Good) => i \in Good
  PROVE  \A i \in 1 .. n + 1 : i \in Good
<1> DEFINE bad == {i \in 1 .. n + 1 : i \notin Good}
<1>1. SUFFICES ASSUME bad # {} PROVE FALSE
  OBVIOUS
<1>2. n + 1 \in Nat /\ bad \in SUBSET (0 .. n + 1)
  OBVIOUS
<1>3. PICK i \in bad : \A j \in bad : j <= i
  BY <1>1, <1>2, Largest
<1>4. i \in 1 .. n
  BY <1>3
<1>5. \A k \in i + 1 .. n + 1 : k \in Good
  BY <1>3, <1>4
<1> QED
  BY <1>3, <1>4, <1>5

LEMMA FromTheStart ==
  ASSUME NEW n \in Nat, NEW Good, 0 \in Good,
         \A i \in 1 .. n : i - 1 \in Good => i \in Good
  PROVE  \A i \in 0 .. n : i \in Good
<1> DEFINE bad == {i \in 0 .. n : i \notin Good}
<1>1. SUFFICES ASSUME bad # {} PROVE FALSE
  OBVIOUS
<1>2. bad \in SUBSET Nat
  OBVIOUS
<1>3. PICK i \in bad : \A j \in bad : i <= j
  BY <1>1, <1>2, Smallest
<1>4. i \in 1 .. n /\ i - 1 \in 0 .. n
  BY <1>3
<1>5. i - 1 \in Good
  BY <1>3, <1>4
<1> QED
  BY <1>3, <1>4, <1>5
=============================================================================
