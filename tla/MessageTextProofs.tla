-------------------------- MODULE MessageTextProofs --------------------------
(***************************************************************************)
(* Theorems about MessageText, for texts of any length and any limit into  *)
(* which a code point fits, and about ChatFormat, with which it shows      *)
(* them.                                                                   *)
(***************************************************************************)
EXTENDS MessageText, BoundedQueueProofs

-----------------------------------------------------------------------------
(* UTF-8                                                                   *)

(* Byte m of a text belongs to the code point that begins at i.            *)
Begins(s, i, m) == s[i] # "more" /\ m <= i + Size(s[i]) - 1

LEMMA WellFormedMeans ==
  ASSUME NEW s \in Seq(Bytes)
  PROVE  WellFormed(s) <=>
           /\ \A m \in 1 .. Len(s) :
                s[m] = "more" <=> \E i \in 1 .. m - 1 : Begins(s, i, m)
           /\ \A i \in 1 .. Len(s) : s[i] # "more" => i + Size(s[i]) - 1 <= Len(s)
<1> DEFINE firsts == {i \in 1 .. Len(s) : s[i] # "more"}
           rest   == {m \in 1 .. Len(s) : s[m] = "more"}
           due    == UNION {i + 1 .. i + Size(s[i]) - 1 : i \in firsts}
<1>0. Len(s) \in Nat /\ \A i \in 1 .. Len(s) : Size(s[i]) \in 1 .. 3
  BY LenProperties DEF Size
<1>1. WellFormed(s) <=> rest = due
  BY DEF WellFormed
<1>2. \A m : m \in due <=> \E i \in firsts : m \in i + 1 .. i + Size(s[i]) - 1
  OBVIOUS
<1> HIDE DEF due
<1>3. ASSUME rest = due
      PROVE  /\ \A m \in 1 .. Len(s) :
                  s[m] = "more" <=> \E i \in 1 .. m - 1 : Begins(s, i, m)
             /\ \A i \in 1 .. Len(s) : s[i] # "more" => i + Size(s[i]) - 1 <= Len(s)
  <2>1. ASSUME NEW m \in 1 .. Len(s), s[m] = "more"
        PROVE  \E i \in 1 .. m - 1 : Begins(s, i, m)
    <3>1. PICK i \in firsts : m \in i + 1 .. i + Size(s[i]) - 1
      BY <1>2, <1>3, <2>1
    <3> QED
      BY <1>0, <3>1 DEF Begins
  <2>2. ASSUME NEW m \in 1 .. Len(s), NEW i \in 1 .. m - 1, Begins(s, i, m)
        PROVE  s[m] = "more"
    <3>1. i \in firsts /\ m \in i + 1 .. i + Size(s[i]) - 1
      BY <1>0, <2>2 DEF Begins
    <3> QED
      BY <1>2, <1>3, <3>1
  <2>3. ASSUME NEW i \in 1 .. Len(s), s[i] # "more", i + Size(s[i]) - 1 > Len(s)
        PROVE  FALSE
    <3>1. Len(s) + 1 \in i + 1 .. i + Size(s[i]) - 1 /\ i \in firsts
      BY <1>0, <2>3
    <3>2. Len(s) + 1 \in rest
      BY <1>2, <1>3, <3>1
    <3> QED
      BY <1>0, <3>2
  <2> QED
    BY <1>0, <2>1, <2>2, <2>3
<1>4. ASSUME \A m \in 1 .. Len(s) :
               s[m] = "more" <=> \E i \in 1 .. m - 1 : Begins(s, i, m),
             \A i \in 1 .. Len(s) : s[i] # "more" => i + Size(s[i]) - 1 <= Len(s)
      PROVE  rest = due
  <2>1. ASSUME NEW m \in rest
        PROVE  m \in due
    <3>1. PICK i \in 1 .. m - 1 : Begins(s, i, m)
      BY <1>4
    <3>2. i \in firsts /\ m \in i + 1 .. i + Size(s[i]) - 1
      BY <1>0, <3>1 DEF Begins
    <3> QED
      BY <1>2, <3>2
  <2>2. ASSUME NEW m \in due
        PROVE  m \in rest
    <3>1. PICK i \in firsts : m \in i + 1 .. i + Size(s[i]) - 1
      BY <1>2
    <3>2. m \in 1 .. Len(s) /\ i \in 1 .. m - 1 /\ Begins(s, i, m)
      BY <1>0, <1>4, <3>1 DEF Begins
    <3> QED
      BY <1>4, <3>2
  <2> QED
    BY <2>1, <2>2
<1> QED
  BY <1>1, <1>3, <1>4

(* A text that is cut before a first byte, or not at all.                  *)
Cut(s, n) == n = Len(s) \/ s[n + 1] # "more"

(* What lies between two cuts is well formed.                              *)
LEMMA PieceWellFormed ==
  ASSUME NEW s \in Seq(Bytes), WellFormed(s), NEW a \in 1 .. Len(s) + 1,
         NEW b \in a - 1 .. Len(s), Cut(s, a - 1), Cut(s, b)
  PROVE  WellFormed(SubSeq(s, a, b))
<1> DEFINE t == SubSeq(s, a, b)
<1>0. Len(s) \in Nat /\ \A i \in 1 .. Len(s) : Size(s[i]) \in 1 .. 3
  BY LenProperties DEF Size
<1>1. /\ t \in Seq(Bytes) /\ Len(t) = b - a + 1
      /\ \A m \in 1 .. b - a + 1 : t[m] = s[a + m - 1]
  BY <1>0, SubSeqProperties
<1>2. /\ \A m \in 1 .. Len(s) : s[m] = "more" <=> \E i \in 1 .. m - 1 : Begins(s, i, m)
      /\ \A i \in 1 .. Len(s) : s[i] # "more" => i + Size(s[i]) - 1 <= Len(s)
  BY WellFormedMeans
<1> HIDE DEF t
<1>3. ASSUME NEW m \in 1 .. Len(t), NEW i \in 1 .. Len(t)
      PROVE  Begins(t, i, m) <=> Begins(s, a + i - 1, a + m - 1)
  <2>1. t[i] = s[a + i - 1] /\ a + i - 1 \in 1 .. Len(s)
    BY SMTT(30), <1>0, <1>1
  <2>2. Size(s[a + i - 1]) \in Nat
    BY <1>0, <2>1
  <2>3. \A z \in Nat : m <= i + z - 1 <=> a + m - 1 <= a + i - 1 + z - 1
    BY <1>1
  <2> QED
    BY <2>1, <2>2, <2>3 DEF Begins
<1>4. ASSUME NEW m \in 1 .. Len(t), t[m] = "more"
      PROVE  \E i \in 1 .. m - 1 : Begins(t, i, m)
  <2>1. a + m - 1 \in 1 .. Len(s) /\ s[a + m - 1] = "more"
    BY <1>0, <1>1, <1>4
  <2>2. PICK j \in 1 .. a + m - 2 : Begins(s, j, a + m - 1)
    BY <1>2, <2>1
  <2>3. j >= a
    <3> SUFFICES ASSUME j < a
                 PROVE  FALSE
      BY <1>0, <2>1
    <3>1. a \in 1 .. Len(s) /\ s[a] # "more"
      BY <1>0, <1>1 DEF Cut
    <3>2. j \in 1 .. a - 1 /\ j \in 1 .. Len(s) /\ a <= a + m - 1
      BY <1>0, <1>1, <2>1, <2>2
    <3>3. Size(s[j]) \in Nat
      BY <1>0, <3>2
    <3>4. Begins(s, j, a)
      BY <1>1, <2>2, <3>2, <3>3 DEF Begins
    <3> QED
      BY <1>2, <3>1, <3>2, <3>4
  <2>4. j - a + 1 \in 1 .. m - 1 /\ a + (j - a + 1) - 1 = j
    BY <1>0, <2>2, <2>3
  <2>5. j - a + 1 \in 1 .. Len(t)
    BY <1>1, <2>4
  <2>6. Begins(t, j - a + 1, m) <=> Begins(s, a + (j - a + 1) - 1, a + m - 1)
    BY <1>3, <2>5
  <2> QED
    BY <2>2, <2>4, <2>6
<1>5. ASSUME NEW m \in 1 .. Len(t), NEW i \in 1 .. m - 1, Begins(t, i, m)
      PROVE  t[m] = "more"
  <2>1. Begins(s, a + i - 1, a + m - 1) /\ a + i - 1 \in 1 .. (a + m - 1) - 1
        /\ a + m - 1 \in 1 .. Len(s)
    BY <1>0, <1>1, <1>3, <1>5
  <2> QED
    BY <1>1, <1>2, <2>1
<1>6. ASSUME NEW i \in 1 .. Len(t), t[i] # "more"
      PROVE  i + Size(t[i]) - 1 <= Len(t)
  <2> DEFINE j == a + i - 1
  <2>1. j \in a .. b /\ s[j] # "more" /\ j + Size(s[j]) - 1 <= Len(s) /\ t[i] = s[j]
    BY <1>0, <1>1, <1>2, <1>6
  <2>2. j + Size(s[j]) - 1 <= b
    <3> SUFFICES ASSUME j + Size(s[j]) - 1 > b
                 PROVE  FALSE
      BY <1>0, <2>1
    <3>1. b + 1 \in 1 .. Len(s) /\ s[b + 1] # "more"
      BY <1>0, <2>1 DEF Cut
    <3>2. j \in 1 .. (b + 1) - 1 /\ Begins(s, j, b + 1)
      BY <1>0, <2>1 DEF Begins
    <3> QED
      BY <1>2, <3>1, <3>2
  <2>3. Size(t[i]) \in Nat /\ a + i - 1 + Size(t[i]) - 1 <= b
    BY <1>0, <2>1, <2>2
  <2> QED
    BY <1>0, <1>1, <2>3
<1>7. WellFormed(t)
  BY <1>1, <1>4, <1>5, <1>6, WellFormedMeans
<1> QED
  BY <1>7 DEF t

(* And a beginning that ends anywhere else is not.                         *)
LEMMA SplitIllFormed ==
  ASSUME NEW s \in Seq(Bytes), WellFormed(s), NEW n \in 0 .. Len(s) - 1, s[n + 1] = "more"
  PROVE  ~WellFormed(SubSeq(s, 1, n))
<1> DEFINE t == SubSeq(s, 1, n)
<1>0. Len(s) \in Nat /\ \A i \in 1 .. Len(s) : Size(s[i]) \in 1 .. 3
  BY LenProperties DEF Size
<1>1. /\ t \in Seq(Bytes) /\ Len(t) = n /\ \A m \in 1 .. n : t[m] = s[m]
  BY <1>0, SubSeqProperties
<1> HIDE DEF t
<1>2. PICK i \in 1 .. n : Begins(s, i, n + 1)
  BY <1>0, WellFormedMeans
<1>3. i \in 1 .. Len(t) /\ t[i] # "more" /\ i + Size(t[i]) - 1 > Len(t)
  BY <1>0, <1>1, <1>2 DEF Begins
<1>4. WellFormed(t) => \A k \in 1 .. Len(t) : t[k] # "more" => k + Size(t[k]) - 1 <= Len(t)
  BY <1>1, WellFormedMeans
<1>5. ~(i + Size(t[i]) - 1 <= Len(t))
  BY <1>0, <1>1, <1>3
<1> QED
  BY <1>3, <1>4, <1>5 DEF t
-----------------------------------------------------------------------------
(* TruncateUtf8                                                            *)

LEMMA MaxOf ==
  ASSUME NEW n \in Nat, NEW T \in SUBSET (0 .. n), T # {}
  PROVE  Max(T) \in T /\ \A i \in T : i <= Max(T)
<1>1. PICK k \in T : \A i \in T : i <= k
  BY Largest
<1>2. \E m \in T : \A i \in T : m >= i
  BY <1>1
<1>3. Max(T) \in T /\ \A i \in T : Max(T) >= i
  BY <1>2 DEF Max
<1> QED
  BY <1>3

(* TruncateUtf8 cuts where it may, and as late as it can.                  *)
LEMMA TruncateCuts ==
  ASSUME NEW s \in Seq(Bytes), NEW max \in Nat
  PROVE  \E n \in 0 .. Len(s) :
           /\ TruncateUtf8(s, max) = SubSeq(s, 1, n) /\ n <= max
           /\ n = 0 \/ Cut(s, n)
           /\ \A k \in n + 1 .. max : k < Len(s) => s[k + 1] = "more"
           /\ Len(s) <= max => n = Len(s)
<1>0. Len(s) \in Nat
  BY LenProperties
<1>1. CASE Len(s) <= max
  <2>1. TruncateUtf8(s, max) = s /\ SubSeq(s, 1, Len(s)) = s
    BY <1>1, SubSeqFull DEF TruncateUtf8
  <2>2. Len(s) \in 0 .. Len(s) /\ Cut(s, Len(s))
    BY <1>0 DEF Cut
  <2>3. \A k \in Len(s) + 1 .. max : ~(k < Len(s))
    BY <1>0
  <2> QED
    BY <1>1, <2>1, <2>2, <2>3
<1>2. CASE ~(Len(s) <= max)
  <2> DEFINE cuts == {0} \cup {cut \in 1 .. max : s[cut + 1] # "more"}
             n    == Max(cuts)
  <2>1. TruncateUtf8(s, max) = SubSeq(s, 1, n)
    BY <1>2 DEF TruncateUtf8
  <2>2. cuts \in SUBSET (0 .. max) /\ cuts # {}
    OBVIOUS
  <2>3. n \in cuts /\ \A i \in cuts : i <= n
    BY <2>2, MaxOf
  <2>4. n \in 0 .. max /\ (n = 0 \/ s[n + 1] # "more")
    BY <2>3
  <2>5. \A k \in n + 1 .. max : s[k + 1] = "more"
    <3> SUFFICES ASSUME NEW k \in n + 1 .. max, s[k + 1] # "more"
                 PROVE  FALSE
      OBVIOUS
    <3>1. k \in cuts /\ k > n
      BY <2>4
    <3> QED
      BY <2>3, <2>4, <3>1
  <2> HIDE DEF n, cuts
  <2>6. n \in 0 .. Len(s) /\ n <= max
    BY <1>0, <1>2, <2>4
  <2>7. n = 0 \/ Cut(s, n)
    BY <2>4 DEF Cut
  <2>8. \A k \in n + 1 .. max : k < Len(s) => s[k + 1] = "more"
    BY <2>5
  <2> QED
    BY <1>2, <2>1, <2>6, <2>7, <2>8
<1> QED
  BY <1>1, <1>2

LEMMA TruncateKeeps ==
  ASSUME NEW s \in Seq(Bytes), WellFormed(s), NEW max \in Nat
  PROVE  LET kept == TruncateUtf8(s, max)
         IN  /\ kept = SubSeq(s, 1, Len(kept)) /\ Len(kept) <= max /\ WellFormed(kept)
             /\ \A n \in Len(kept) + 1 .. max :
                  n <= Len(s) => ~WellFormed(SubSeq(s, 1, n))
<1> DEFINE kept == TruncateUtf8(s, max)
<1>0. Len(s) \in Nat
  BY LenProperties
<1>1. PICK cut \in 0 .. Len(s) :
        /\ kept = SubSeq(s, 1, cut) /\ cut <= max
        /\ cut = 0 \/ Cut(s, cut)
        /\ \A k \in cut + 1 .. max : k < Len(s) => s[k + 1] = "more"
        /\ Len(s) <= max => cut = Len(s)
  BY TruncateCuts
<1> HIDE DEF kept
<1>2. Len(kept) = cut
  BY <1>0, <1>1, SubSeqProperties
<1>3. Cut(s, 0)
  <2>1. CASE Len(s) = 0
    BY <2>1 DEF Cut
  <2>2. CASE Len(s) # 0
    <3>1. 1 \in 1 .. Len(s) /\ 1 .. 1 - 1 = {}
      BY <1>0, <2>2
    <3>2. s[1] = "more" => \E i \in 1 .. 1 - 1 : Begins(s, i, 1)
      BY <3>1, WellFormedMeans
    <3> QED
      BY <3>1, <3>2 DEF Cut
  <2> QED
    BY <2>1, <2>2
<1>4. WellFormed(kept)
  <2>1. Cut(s, cut) /\ cut \in 1 - 1 .. Len(s) /\ 1 \in 1 .. Len(s) + 1 /\ Cut(s, 1 - 1)
    BY <1>0, <1>1, <1>3
  <2> QED
    BY <1>1, <2>1, PieceWellFormed
<1>5. ASSUME NEW n \in Len(kept) + 1 .. max, n <= Len(s)
      PROVE  ~WellFormed(SubSeq(s, 1, n))
  <2>1. n < Len(s) /\ n \in 0 .. Len(s) - 1
    BY <1>0, <1>1, <1>2, <1>5
  <2>2. s[n + 1] = "more"
    BY <1>1, <1>2, <2>1
  <2> QED
    BY <2>1, <2>2, SplitIllFormed
<1> QED
  BY <1>1, <1>2, <1>4, <1>5 DEF kept

(* What the game or the bot has, at the start and later.                   *)
LEMMA RawIsText ==
  ASSUME NEW s \in Texts(MaxRaw) \cup Texts(MaxPosted)
  PROVE  s \in Seq(Bytes) /\ WellFormed(s)
<1>1. PICK n \in {MaxRaw, MaxPosted} : s \in Texts(n)
  OBVIOUS
<1>2. WellFormed(s) /\ \E k \in 0 .. n : s \in [1 .. k -> Bytes]
  BY <1>1 DEF Texts
<1>3. PICK k \in 0 .. n : s \in [1 .. k -> Bytes]
  BY <1>2
<1>4. k \in Nat
  BY SizeAssumption
<1> QED
  BY <1>2, <1>3, <1>4, SeqDef

(* TruncateKeepsWholePrefix: for every text and every limit the cut is at  *)
(* the last place that splits no code point.                               *)
THEOREM TruncateCorrect == Spec => []TruncateKeepsWholePrefix
<1> DEFINE Game == raw \in Texts(MaxRaw) \cup Texts(MaxPosted)
<1>1. Init => Game
  BY DEF Init
<1>2. Game /\ [Next]_vars => Game'
  BY DEF Next, Capture, Post, Fetch, Show, vars
<1>3. Game => TruncateKeepsWholePrefix
  <2> SUFFICES ASSUME Game
               PROVE  TruncateKeepsWholePrefix
    OBVIOUS
  <2>1. raw \in Seq(Bytes) /\ WellFormed(raw) /\ \A max \in 0 .. MaxRaw : max \in Nat
    BY RawIsText
  <2> QED
    BY <2>1, TruncateKeeps DEF TruncateKeepsWholePrefix
<1> QED
  BY <1>1, <1>2, <1>3, PTL DEF Spec

-----------------------------------------------------------------------------
(* Picking from the left, the elements at the positions K                  *)

Picked(s, K, out, n) == IF n \in K THEN Append(out[n - 1], s[n]) ELSE out[n - 1]
Picks(S, s, K, out, k) ==
  /\ out \in [0 .. k -> Seq(S)] /\ out[0] = <<>>
  /\ \A n \in 1 .. k : out[n] = Picked(s, K, out, n)

LEMMA PickExists ==
  ASSUME NEW S, NEW s \in Seq(S), NEW K
  PROVE  \E out : Picks(S, s, K, out, Len(s))
<1> DEFINE Good == {k \in 0 .. Len(s) : \E out : Picks(S, s, K, out, k)}
<1>0. Len(s) \in Nat /\ \A n \in 1 .. Len(s) : s[n] \in S
  BY LenProperties, ElementOfSeq
<1>1. 0 \in Good
  <2> DEFINE out == [n \in 0 .. 0 |-> <<>>]
  <2>1. Picks(S, s, K, out, 0)
    BY EmptySeq DEF Picks
  <2> QED
    BY <1>0, <2>1
<1>2. ASSUME NEW k \in 1 .. Len(s), k - 1 \in Good
      PROVE  k \in Good
  <2>1. PICK out : Picks(S, s, K, out, k - 1)
    BY <1>2
  <2> DEFINE last == Picked(s, K, out, k)
             more == [n \in 0 .. k |-> IF n = k THEN last ELSE out[n]]
  <2>2. \A n \in 0 .. k - 1 : out[n] \in Seq(S)
    BY <2>1 DEF Picks
  <2>3. last \in Seq(S)
    <3>1. s[k] \in S /\ out[k - 1] \in Seq(S)
      BY <1>0, <2>2
    <3> QED
      BY <3>1, AppendProperties DEF Picked
  <2> HIDE DEF last
  <2>4. more \in [0 .. k -> Seq(S)]
    BY <1>0, <2>2, <2>3
  <2>5. more[k] = last /\ \A n \in 0 .. k - 1 : more[n] = out[n]
    BY <1>0
  <2> HIDE DEF more
  <2>6. more[0] = <<>>
    <3>1. 0 \in 0 .. k - 1
      BY <1>0
    <3> QED
      BY <2>1, <2>5, <3>1 DEF Picks
  <2>7. ASSUME NEW n \in 1 .. k
        PROVE  more[n] = Picked(s, K, more, n)
    <3>1. more[n - 1] = out[n - 1]
      BY <1>0, <2>5
    <3>2. CASE n = k
      BY <2>5, <3>1, <3>2 DEF Picked, last
    <3>3. CASE n # k
      <4>1. n \in 1 .. k - 1
        BY <1>0, <3>3
      <4>2. out[n] = Picked(s, K, out, n) /\ more[n] = out[n]
        BY <2>1, <2>5, <4>1 DEF Picks
      <4> QED
        BY <3>1, <4>2 DEF Picked
    <3> QED
      BY <3>2, <3>3
  <2>8. Picks(S, s, K, more, k)
    BY <2>4, <2>6, <2>7 DEF Picks
  <2> QED
    BY <1>0, <2>8
<1> HIDE DEF Good
<1>3. \A k \in 0 .. Len(s) : k \in Good
  BY <1>0, <1>1, <1>2, FromTheStart
<1> QED
  BY <1>0, <1>3 DEF Good

LEMMA PickUnique ==
  ASSUME NEW S, NEW s \in Seq(S), NEW K, NEW out, Picks(S, s, K, out, Len(s)),
         NEW f, f = [n \in 0 .. Len(s) |-> f[n]], f[0] = <<>>,
         \A n \in 1 .. Len(s) : f[n] = Picked(s, K, f, n)
  PROVE  f = out
<1> DEFINE Good == {n \in 0 .. Len(s) : f[n] = out[n]}
<1>0. Len(s) \in Nat
  BY LenProperties
<1>1. 0 \in Good
  BY <1>0 DEF Picks
<1>2. ASSUME NEW n \in 1 .. Len(s), n - 1 \in Good
      PROVE  n \in Good
  <2>1. f[n] = Picked(s, K, f, n) /\ out[n] = Picked(s, K, out, n) /\ f[n - 1] = out[n - 1]
    BY <1>2 DEF Picks
  <2> QED
    BY <1>0, <2>1 DEF Picked
<1> HIDE DEF Good
<1>3. \A n \in 0 .. Len(s) : n \in Good
  BY <1>0, <1>1, <1>2, FromTheStart
<1>4. \A n \in 0 .. Len(s) : f[n] = out[n]
  BY <1>3 DEF Good
<1>5. out = [n \in 0 .. Len(s) |-> out[n]]
  BY DEF Picks
<1> QED
  BY <1>4, <1>5

-----------------------------------------------------------------------------
(* StripControl                                                            *)

(* What is kept of the first bytes of a text, one by one.                  *)
Kept(s, out, n) == IF s[n] = "control" THEN out[n - 1] ELSE Append(out[n - 1], s[n])
Strips(s, out, k) ==
  /\ out \in [0 .. k -> Seq(Bytes)] /\ out[0] = <<>>
  /\ \A n \in 1 .. k : out[n] = Kept(s, out, n)

LEMMA StripSteps ==
  ASSUME NEW s \in Seq(Bytes)
  PROVE  \E out : Strips(s, out, Len(s)) /\ StripControl(s) = out[Len(s)]
<1> DEFINE Rule(out) ==
             [n \in 0 .. Len(s) |->
                IF n = 0 THEN <<>>
                ELSE IF s[n] = "control" THEN out[n - 1] ELSE Append(out[n - 1], s[n])]
           chosen == CHOOSE out : out = Rule(out)
           K == {n \in 1 .. Len(s) : s[n] # "control"}
<1>0. Len(s) \in Nat
  BY LenProperties
<1>1. StripControl(s) = chosen[Len(s)]
  BY DEF StripControl
<1>2. PICK out : Picks(Bytes, s, K, out, Len(s))
  <2> HIDE DEF K
  <2> QED
    BY PickExists
<1>3. ASSUME NEW f, NEW n \in 1 .. Len(s)
      PROVE  Kept(s, f, n) = Picked(s, K, f, n) /\ Rule(f)[n] = Picked(s, K, f, n)
  <2>1. n \in 0 .. Len(s) /\ n # 0 /\ (n \in K <=> s[n] # "control")
    BY <1>0
  <2>2. Rule(f)[n] = Kept(s, f, n)
    BY <2>1 DEF Kept
  <2>3. Kept(s, f, n) = Picked(s, K, f, n)
    <3> HIDE DEF K
    <3> QED
      BY <2>1 DEF Kept, Picked
  <2> QED
    BY <2>2, <2>3
<1>4. \A f : Rule(f)[0] = <<>> /\ Rule(f) = [n \in 0 .. Len(s) |-> Rule(f)[n]]
  BY <1>0
<1> HIDE DEF Rule, K
<1>5. out = Rule(out)
  <2>1. out = [n \in 0 .. Len(s) |-> out[n]] /\ out[0] = <<>>
    BY <1>2 DEF Picks
  <2>2. \A n \in 1 .. Len(s) : out[n] = Rule(out)[n]
    BY <1>2, <1>3 DEF Picks
  <2>3. \A n \in 0 .. Len(s) : out[n] = Rule(out)[n]
    BY <1>0, <1>4, <2>1, <2>2
  <2> QED
    BY <1>4, <2>1, <2>3
<1>6. chosen = Rule(chosen)
  BY <1>5
<1> HIDE DEF chosen
<1>7. chosen = out
  <2>1. chosen = [n \in 0 .. Len(s) |-> chosen[n]] /\ chosen[0] = <<>>
    BY <1>4, <1>6
  <2>2. \A n \in 1 .. Len(s) : chosen[n] = Picked(s, K, chosen, n)
    BY <1>3, <1>6
  <2> QED
    BY <1>2, <2>1, <2>2, PickUnique
<1>8. Strips(s, out, Len(s))
  BY <1>2, <1>3 DEF Strips, Picks
<1> QED
  BY <1>1, <1>7, <1>8

(* t has of the first n bytes of s those that are no control characters,   *)
(* and all of s if there are no others.                                    *)
Selects(s, t, n) ==
  /\ Len(t) <= n
  /\ \A j \in 1 .. Len(t) : t[j] # "control"
  /\ \A i \in 1 .. n : s[i] # "control" => \E j \in 1 .. Len(t) : t[j] = s[i]
  /\ (\A i \in 1 .. n : s[i] # "control") => Len(t) = n /\ \A i \in 1 .. n : t[i] = s[i]

LEMMA SelectsStep ==
  ASSUME NEW s \in Seq(Bytes), NEW t \in Seq(Bytes), NEW n \in 1 .. Len(s), Selects(s, t, n - 1)
  PROVE  Selects(s, IF s[n] = "control" THEN t ELSE Append(t, s[n]), n)
<1>0. Len(s) \in Nat /\ Len(t) \in Nat /\ s[n] \in Bytes
  BY LenProperties, ElementOfSeq
<1>1. CASE s[n] = "control"
  BY <1>0, <1>1 DEF Selects
<1>2. CASE s[n] # "control"
  <2> DEFINE u == Append(t, s[n])
  <2>1. /\ Len(u) = Len(t) + 1 /\ u[Len(t) + 1] = s[n]
        /\ \A j \in 1 .. Len(t) : u[j] = t[j]
    BY <1>0, AppendProperties
  <2> HIDE DEF u
  <2>2. Len(u) <= n /\ \A j \in 1 .. Len(u) : u[j] # "control"
    BY <1>0, <1>2, <2>1 DEF Selects
  <2>3. ASSUME NEW i \in 1 .. n, s[i] # "control"
        PROVE  \E j \in 1 .. Len(u) : u[j] = s[i]
    <3>1. CASE i = n
      BY <1>0, <2>1, <3>1
    <3>2. CASE i # n
      <4>1. i \in 1 .. n - 1
        BY <1>0, <3>2
      <4>2. PICK j \in 1 .. Len(t) : t[j] = s[i]
        BY <2>3, <4>1 DEF Selects
      <4> QED
        BY <1>0, <2>1, <4>2
    <3> QED
      BY <3>1, <3>2
  <2>4. ASSUME \A i \in 1 .. n : s[i] # "control"
        PROVE  Len(u) = n /\ \A i \in 1 .. n : u[i] = s[i]
    <3>1. Len(t) = n - 1 /\ \A i \in 1 .. n - 1 : t[i] = s[i]
      BY <1>0, <2>4 DEF Selects
    <3> QED
      BY <1>0, <2>1, <3>1
  <2>5. Selects(s, u, n)
    BY <2>2, <2>3, <2>4 DEF Selects
  <2> QED
    BY <1>2, <2>5 DEF u
<1> QED
  BY <1>1, <1>2

(* A code point that has begun is completed in t as it is in s.            *)
Reaches(s, n, d) == \E i \in 1 .. n : Begins(s, i, n + d)
Follows(s, t, n) ==
  /\ \A d \in Nat \ {0} : Reaches(s, n, d) <=> Reaches(t, Len(t), d)
  /\ \A m \in 1 .. Len(t) : t[m] = "more" <=> \E i \in 1 .. m - 1 : Begins(t, i, m)

LEMMA ReachesNext ==
  ASSUME NEW s \in Seq(Bytes), NEW n \in 1 .. Len(s), NEW d \in Nat
  PROVE  Reaches(s, n, d) <=> Reaches(s, n - 1, d + 1) \/ (s[n] # "more" /\ d < Size(s[n]))
<1>0. Len(s) \in Nat /\ Size(s[n]) \in Nat /\ n - 1 + (d + 1) = n + d
  BY LenProperties DEF Size
<1>1. ASSUME NEW i \in 1 .. n - 1
      PROVE  Begins(s, i, n + d) <=> Begins(s, i, n - 1 + (d + 1))
  BY <1>0
<1>2. Begins(s, n, n + d) <=> s[n] # "more" /\ d < Size(s[n])
  BY <1>0 DEF Begins
<1>3. 1 .. n = 1 .. n - 1 \cup {n}
  BY <1>0
<1> QED
  BY <1>1, <1>2, <1>3 DEF Reaches

LEMMA FollowsStep ==
  ASSUME NEW s \in Seq(Bytes), NEW t \in Seq(Bytes), NEW n \in 1 .. Len(s), WellFormed(s),
         Follows(s, t, n - 1)
  PROVE  Follows(s, IF s[n] = "control" THEN t ELSE Append(t, s[n]), n)
<1>0. Len(s) \in Nat /\ Len(t) \in Nat /\ s[n] \in Bytes
  BY LenProperties, ElementOfSeq
<1>1. s[n] = "more" <=> Reaches(s, n - 1, 1)
  <2>1. s[n] = "more" <=> \E i \in 1 .. n - 1 : Begins(s, i, n)
    BY WellFormedMeans
  <2>2. n - 1 + 1 = n
    BY <1>0
  <2> QED
    BY <2>1, <2>2 DEF Reaches
<1>2. CASE s[n] = "control"
  <2>1. ~Reaches(s, n - 1, 1)
    BY <1>1, <1>2
  <2>2. ASSUME NEW d \in Nat \ {0}
        PROVE  ~Reaches(s, n - 1, d)
    <3> SUFFICES ASSUME NEW i \in 1 .. n - 1, Begins(s, i, n - 1 + d)
                 PROVE  FALSE
      BY DEF Reaches
    <3>1. Size(s[i]) \in Nat /\ n - 1 + 1 <= n - 1 + d
      BY <1>0 DEF Size
    <3>2. Begins(s, i, n - 1 + 1)
      BY <1>0, <3>1 DEF Begins
    <3> QED
      BY <2>1, <3>2 DEF Reaches
  <2>3. ASSUME NEW d \in Nat \ {0}
        PROVE  ~Reaches(s, n, d)
    <3>1. Size(s[n]) = 1 /\ d + 1 \in Nat \ {0} /\ ~(d < 1)
      BY <1>2 DEF Size
    <3> QED
      BY <2>2, <3>1, ReachesNext
  <2>4. \A d \in Nat \ {0} : ~Reaches(t, Len(t), d)
    BY <2>2 DEF Follows
  <2> QED
    BY <1>2, <2>3, <2>4 DEF Follows
<1>3. CASE s[n] # "control"
  <2> DEFINE u == Append(t, s[n])
  <2>1. /\ u \in Seq(Bytes) /\ Len(u) = Len(t) + 1 /\ u[Len(t) + 1] = s[n]
        /\ \A j \in 1 .. Len(t) : u[j] = t[j]
    BY <1>0, AppendProperties
  <2> HIDE DEF u
  <2>2. \A i \in 1 .. Len(t), m \in Nat : Begins(u, i, m) <=> Begins(t, i, m)
    BY <2>1 DEF Begins
  <2>3. \A d \in Nat : Reaches(u, Len(t), d) <=> Reaches(t, Len(t), d)
    <3>1. \A d \in Nat : Len(t) + d \in Nat
      BY <1>0
    <3> QED
      BY <2>2, <3>1 DEF Reaches
  <2>4. ASSUME NEW d \in Nat \ {0}
        PROVE  Reaches(s, n, d) <=> Reaches(u, Len(u), d)
    <3>1. d + 1 \in Nat \ {0} /\ d + 1 \in Nat /\ d \in Nat
      OBVIOUS
    <3>2. Reaches(s, n, d) <=> Reaches(s, n - 1, d + 1) \/ (s[n] # "more" /\ d < Size(s[n]))
      BY <3>1, ReachesNext
    <3>3. Len(u) \in 1 .. Len(u) /\ Len(u) - 1 = Len(t) /\ u[Len(u)] = s[n]
      BY <1>0, <2>1
    <3>4. Reaches(u, Len(u), d)
            <=> Reaches(u, Len(u) - 1, d + 1) \/ (u[Len(u)] # "more" /\ d < Size(u[Len(u)]))
      BY <2>1, <3>1, <3>3, ReachesNext
    <3>5. Reaches(s, n - 1, d + 1) <=> Reaches(t, Len(t), d + 1)
      BY <3>1 DEF Follows
    <3>6. Reaches(u, Len(t), d + 1) <=> Reaches(t, Len(t), d + 1)
      BY <2>3, <3>1
    <3> QED
      BY <3>2, <3>3, <3>4, <3>5, <3>6
  <2>5. ASSUME NEW m \in 1 .. Len(u)
        PROVE  u[m] = "more" <=> \E i \in 1 .. m - 1 : Begins(u, i, m)
    <3>1. CASE m = Len(u)
      <4>1. s[n] = "more" <=> Reaches(t, Len(t), 1)
        BY <1>1 DEF Follows
      <4>2. Reaches(u, Len(t), 1) <=> \E i \in 1 .. m - 1 : Begins(u, i, m)
        <5>1. m - 1 = Len(t) /\ Len(t) + 1 = m
          BY <1>0, <2>1, <3>1
        <5> QED
          BY <5>1 DEF Reaches
      <4>3. u[m] = s[n] /\ (Reaches(u, Len(t), 1) <=> Reaches(t, Len(t), 1))
        BY <2>1, <2>3, <3>1
      <4> QED
        BY <4>1, <4>2, <4>3
    <3>2. CASE m # Len(u)
      <4>1. m \in 1 .. Len(t) /\ m \in Nat
        BY <1>0, <2>1, <3>2
      <4>2. t[m] = "more" <=> \E i \in 1 .. m - 1 : Begins(t, i, m)
        BY <4>1 DEF Follows
      <4>3. \A i \in 1 .. m - 1 : i \in 1 .. Len(t)
        BY <1>0, <4>1
      <4>4. \A i \in 1 .. m - 1 : Begins(u, i, m) <=> Begins(t, i, m)
        BY <2>2, <4>1, <4>3
      <4> QED
        BY <2>1, <4>1, <4>2, <4>4
    <3> QED
      BY <3>1, <3>2
  <2>6. Follows(s, u, n)
    BY <2>4, <2>5 DEF Follows
  <2> QED
    BY <1>3, <2>6 DEF u
<1> QED
  BY <1>2, <1>3

(* Text without control characters is well formed if it was before.        *)
LEMMA StripFacts ==
  ASSUME NEW s \in Seq(Bytes)
  PROVE  /\ StripControl(s) \in Seq(Bytes)
         /\ Selects(s, StripControl(s), Len(s))
         /\ WellFormed(s) => WellFormed(StripControl(s))
<1>1. PICK out : Strips(s, out, Len(s)) /\ StripControl(s) = out[Len(s)]
  BY StripSteps
<1> DEFINE bad == {k \in 0 .. Len(s) : ~(/\ Selects(s, out[k], k)
                                         /\ WellFormed(s) => Follows(s, out[k], k))}
<1>0. Len(s) \in Nat
  BY LenProperties
<1>2. \A k \in 0 .. Len(s) : out[k] \in Seq(Bytes)
  BY <1>1 DEF Strips
<1>3. bad = {}
  <2> SUFFICES ASSUME bad # {}
               PROVE  FALSE
    OBVIOUS
  <2>0. bad \in SUBSET Nat
    BY <1>0
  <2>1. PICK k \in bad : \A j \in bad : k <= j
    BY <2>0, Smallest
  <2>2. CASE k = 0
    <3>1. out[0] = <<>> /\ Len(out[0]) = 0
      BY <1>1, EmptySeq DEF Strips
    <3>2. Selects(s, out[0], 0)
      BY <3>1 DEF Selects
    <3>3. Follows(s, out[0], 0)
      BY <3>1 DEF Follows, Reaches
    <3> QED
      BY <2>1, <2>2, <3>2, <3>3
  <2>3. CASE k # 0
    <3>1. k \in 1 .. Len(s) /\ k - 1 \in 0 .. Len(s) /\ k - 1 \notin bad
      BY <1>0, <2>1, <2>3
    <3>2. /\ Selects(s, out[k - 1], k - 1)
          /\ WellFormed(s) => Follows(s, out[k - 1], k - 1)
      BY <3>1
    <3>3. out[k] = IF s[k] = "control" THEN out[k - 1] ELSE Append(out[k - 1], s[k])
      BY <1>1, <3>1 DEF Strips, Kept
    <3>4. out[k - 1] \in Seq(Bytes)
      BY <1>2, <3>1
    <3>5. Selects(s, out[k], k)
      BY <3>1, <3>2, <3>3, <3>4, SelectsStep
    <3>6. WellFormed(s) => Follows(s, out[k], k)
      BY <3>1, <3>2, <3>3, <3>4, FollowsStep
    <3> QED
      BY <2>1, <3>5, <3>6
  <2> QED
    BY <2>2, <2>3
<1> DEFINE t == StripControl(s)
<1>4. /\ t \in Seq(Bytes) /\ Selects(s, t, Len(s))
      /\ WellFormed(s) => Follows(s, t, Len(s))
  BY <1>0, <1>1, <1>2, <1>3
<1> HIDE DEF t
<1>5. ASSUME WellFormed(s)
      PROVE  WellFormed(t)
  <2>1. Len(t) \in Nat /\ \A i \in 1 .. Len(t) : Size(t[i]) \in 1 .. 3
    BY <1>4, LenProperties DEF Size
  <2>2. ~Reaches(s, Len(s), 1)
    <3> SUFFICES ASSUME NEW i \in 1 .. Len(s), Begins(s, i, Len(s) + 1)
                 PROVE  FALSE
      BY DEF Reaches
    <3>1. s[i] # "more" /\ i + Size(s[i]) - 1 <= Len(s)
      BY <1>5, WellFormedMeans DEF Begins
    <3>2. Size(s[i]) \in Nat
      BY DEF Size
    <3> QED
      BY <1>0, <3>1, <3>2 DEF Begins
  <2>3. ~Reaches(t, Len(t), 1)
    BY <1>4, <1>5, <2>2 DEF Follows
  <2>4. ASSUME NEW i \in 1 .. Len(t), t[i] # "more"
        PROVE  i + Size(t[i]) - 1 <= Len(t)
    <3>1. ~Begins(t, i, Len(t) + 1)
      BY <2>3 DEF Reaches
    <3> QED
      BY <2>1, <2>4, <3>1 DEF Begins
  <2>5. \A m \in 1 .. Len(t) : t[m] = "more" <=> \E i \in 1 .. m - 1 : Begins(t, i, m)
    BY <1>4, <1>5 DEF Follows
  <2> QED
    BY <1>4, <2>4, <2>5, WellFormedMeans
<1> QED
  BY <1>4, <1>5 DEF t

-----------------------------------------------------------------------------
(* Trim                                                                    *)

LEMMA MinOf ==
  ASSUME NEW T \in SUBSET Nat, T # {}
  PROVE  Min(T) \in T /\ \A i \in T : Min(T) <= i
<1>1. \E k \in T : \A i \in T : k <= i
  BY Smallest
<1> QED
  BY <1>1 DEF Min

Blank(s) == \A i \in 1 .. Len(s) : s[i] = "space"
Solid(s) == s # <<>> /\ s[1] # "space" /\ s[Len(s)] # "space"

(* What is trimmed is what lies between the first and the last byte that   *)
(* is no white space.                                                      *)
LEMMA TrimFacts ==
  ASSUME NEW s \in Seq(Bytes)
  PROVE  /\ Trim(s) \in Seq(Bytes) /\ Len(Trim(s)) <= Len(s)
         /\ IF Blank(s) THEN Trim(s) = <<>> ELSE Solid(Trim(s))
         /\ \A c : (\A i \in 1 .. Len(s) : s[i] # c) => \A i \in 1 .. Len(Trim(s)) : Trim(s)[i] # c
         /\ WellFormed(s) => WellFormed(Trim(s))
         /\ Solid(s) => Trim(s) = s
<1> DEFINE solid == {i \in 1 .. Len(s) : s[i] # "space"}
           t     == Trim(s)
<1>0. Len(s) \in Nat
  BY LenProperties
<1>1. CASE Blank(s)
  <2>1. solid = {} /\ t = <<>>
    BY <1>1 DEF Blank, Trim
  <2>2. ~Solid(s)
    BY <1>0, <1>1, EmptySeq DEF Blank, Solid
  <2>3. WellFormed(<<>>)
    <3> DEFINE empty == SubSeq(s, 1, 0)
    <3>1. empty = <<>> /\ empty \in Seq(Bytes) /\ Len(empty) = 0
      BY <1>0, EmptySeq, SubSeqEmpty
    <3> HIDE DEF empty
    <3>2. 1 .. Len(empty) = {}
      BY <3>1
    <3>3. WellFormed(empty)
      BY <3>1, <3>2, WellFormedMeans
    <3> QED
      BY <3>1, <3>3
  <2> HIDE DEF t
  <2>4. Len(t) = 0 /\ t \in Seq(Bytes)
    BY <2>1, EmptySeq
  <2> QED
    BY <1>0, <1>1, <2>1, <2>2, <2>3, <2>4 DEF t
<1>2. CASE ~Blank(s)
  <2> DEFINE a == Min(solid)
             b == Max(solid)
  <2>1. solid # {} /\ solid \in SUBSET Nat /\ solid \in SUBSET (0 .. Len(s))
    BY <1>0, <1>2 DEF Blank
  <2>2. a \in solid /\ \A i \in solid : a <= i
    BY <2>1, MinOf
  <2>3. b \in solid /\ \A i \in solid : i <= b
    BY <1>0, <2>1, MaxOf
  <2>4. t = SubSeq(s, a, b)
    BY <2>1 DEF Trim
  <2>5. /\ a \in 1 .. Len(s) /\ b \in 1 .. Len(s) /\ a <= b
        /\ s[a] # "space" /\ s[b] # "space"
        /\ \A i \in 1 .. Len(s) : i < a \/ i > b => s[i] = "space"
    <3>1. \A i \in 1 .. Len(s) : i < a \/ i > b => i \notin solid
      BY <1>0, <2>2, <2>3
    <3> QED
      BY <1>0, <2>2, <2>3, <3>1
  <2> HIDE DEF a, b, solid, t
  <2>6. /\ t \in Seq(Bytes) /\ Len(t) = b - a + 1
        /\ \A i \in 1 .. b - a + 1 : t[i] = s[a + i - 1]
    BY <1>0, <2>4, <2>5, SubSeqProperties
  <2>7. Solid(t)
    <3>1. Len(t) >= 1 /\ t[1] = s[a] /\ t[Len(t)] = s[b]
      BY <1>0, <2>5, <2>6
    <3>2. t # <<>>
      BY <3>1, EmptySeq
    <3> QED
      BY <2>5, <3>1, <3>2 DEF Solid
  <2>8. ASSUME NEW c, \A i \in 1 .. Len(s) : s[i] # c, NEW i \in 1 .. Len(t)
        PROVE  t[i] # c
    <3>1. a + i - 1 \in 1 .. Len(s) /\ t[i] = s[a + i - 1]
      BY <1>0, <2>5, <2>6
    <3> QED
      BY <2>8, <3>1
  <2>9. ASSUME WellFormed(s)
        PROVE  WellFormed(t)
    <3>1. s[a] # "more"
      <4> SUFFICES ASSUME s[a] = "more"
                   PROVE  FALSE
        OBVIOUS
      <4>1. PICK i \in 1 .. a - 1 : Begins(s, i, a)
        BY <2>5, <2>9, WellFormedMeans
      <4>2. s[i] = "space" /\ Size("space") = 1
        BY <1>0, <2>5 DEF Size
      <4> QED
        BY <1>0, <2>5, <4>1, <4>2 DEF Begins
    <3>2. Cut(s, a - 1)
      <4>1. a - 1 + 1 = a
        BY <1>0, <2>5
      <4> QED
        BY <3>1, <4>1 DEF Cut
    <3>3. Cut(s, b)
      <4>1. b # Len(s) => s[b + 1] = "space"
        BY <1>0, <2>5
      <4> QED
        BY <4>1 DEF Cut
    <3>4. a \in 1 .. Len(s) + 1 /\ b \in a - 1 .. Len(s)
      BY <1>0, <2>5
    <3> QED
      BY <2>4, <2>9, <3>2, <3>3, <3>4, PieceWellFormed
  <2>10. ASSUME Solid(s)
         PROVE  t = s
    <3>1. Len(s) # 0
      BY <1>0, <2>5
    <3>2. a = 1 /\ b = Len(s)
      BY <1>0, <2>5, <2>10, <3>1 DEF Solid
    <3> QED
      BY <2>4, <3>2, SubSeqFull
  <2>11. Len(t) <= Len(s)
    BY <1>0, <2>5, <2>6
  <2> QED
    BY <1>2, <2>6, <2>7, <2>8, <2>9, <2>10, <2>11 DEF t
<1> QED
  BY <1>1, <1>2

-----------------------------------------------------------------------------
(* SanitizeMessage                                                         *)

Printable(s) == \A i \in 1 .. Len(s) : s[i] # "control"

LEMMA CleanFacts ==
  ASSUME NEW s \in Seq(Bytes)
  PROVE  LET clean == StripControlAndTrim(s)
         IN  /\ clean \in Seq(Bytes) /\ Len(clean) <= Len(s) /\ Printable(clean)
             /\ clean = <<>> \/ Solid(clean)
             /\ clean = <<>> => \A i \in 1 .. Len(s) : s[i] \in {"space", "control"}
             /\ WellFormed(s) => WellFormed(clean)
             /\ Printable(s) /\ (s = <<>> \/ Solid(s)) => clean = s
<1> DEFINE kept  == StripControl(s)
           clean == Trim(kept)
<1>0. Len(s) \in Nat
  BY LenProperties
<1>1. /\ kept \in Seq(Bytes) /\ Selects(s, kept, Len(s)) /\ Len(kept) \in Nat
      /\ WellFormed(s) => WellFormed(kept)
  BY StripFacts, LenProperties
<1> HIDE DEF kept
<1>2. /\ clean \in Seq(Bytes) /\ Len(clean) <= Len(kept) /\ Len(clean) \in Nat
      /\ Blank(kept) \/ Solid(clean)
      /\ Blank(kept) => clean = <<>>
      /\ WellFormed(kept) => WellFormed(clean)
      /\ Solid(kept) => clean = kept
      /\ (\A i \in 1 .. Len(kept) : kept[i] # "control") =>
           \A i \in 1 .. Len(clean) : clean[i] # "control"
  BY <1>1, TrimFacts, LenProperties
<1> HIDE DEF clean
<1>3. Len(kept) <= Len(s) /\ Printable(kept)
  BY <1>1 DEF Selects, Printable
<1>4. clean \in {<<>>} \/ Solid(clean)
  BY <1>2
<1>5. ASSUME clean = <<>>, NEW i \in 1 .. Len(s)
      PROVE  s[i] \in {"space", "control"}
  <2>1. ~Solid(clean)
    BY <1>5 DEF Solid
  <2> QED
    BY <1>1, <1>2, <2>1 DEF Selects, Blank
<1>6. ASSUME Printable(s), s = <<>> \/ Solid(s)
      PROVE  clean = s
  <2>1. Len(kept) = Len(s) /\ \A i \in 1 .. Len(s) : kept[i] = s[i]
    BY <1>1, <1>6 DEF Selects, Printable
  <2>2. kept = s
    BY <1>1, <2>1, SeqEqual
  <2>3. CASE s = <<>>
    BY <1>2, <2>2, <2>3 DEF Blank
  <2>4. CASE Solid(s)
    BY <1>2, <2>2, <2>4
  <2> QED
    BY <1>6, <2>3, <2>4
<1>7. /\ clean \in Seq(Bytes) /\ Len(clean) <= Len(s) /\ Printable(clean)
      /\ WellFormed(s) => WellFormed(clean)
  BY <1>0, <1>1, <1>2, <1>3 DEF Printable
<1>8. StripControlAndTrim(s) = clean
  BY DEF StripControlAndTrim, clean, kept
<1> QED
  BY <1>4, <1>5, <1>6, <1>7, <1>8

(* A limit of three bytes leaves something of every text.                  *)
LEMMA FirstFits ==
  ASSUME NEW s \in Seq(Bytes), WellFormed(s), s # <<>>, NEW max \in Nat \ 0 .. 2
  PROVE  TruncateUtf8(s, max) # <<>>
<1>0. Len(s) \in Nat /\ Len(s) # 0 /\ \A i \in 1 .. Len(s) : Size(s[i]) \in 1 .. 3
  BY LenProperties, EmptySeq DEF Size
<1>1. PICK n \in 0 .. Len(s) :
        /\ TruncateUtf8(s, max) = SubSeq(s, 1, n)
        /\ \A k \in n + 1 .. max : k < Len(s) => s[k + 1] = "more"
        /\ Len(s) <= max => n = Len(s)
  BY TruncateCuts
<1>2. n # 0
  <2> SUFFICES ASSUME n = 0
               PROVE  FALSE
    OBVIOUS
  <2>1. Len(s) > 3 /\ 3 \in 1 .. max
    BY <1>0, <1>1
  <2>2. s[2] = "more" /\ s[3] = "more" /\ s[4] = "more"
    <3>1. \A k \in 1 .. 3 : s[k + 1] = "more"
      BY <1>1, <2>1
    <3> QED
      BY <3>1
  <2>3. PICK i \in 1 .. 3 : Begins(s, i, 4)
    <3>1. 4 \in 1 .. Len(s)
      BY <1>0, <2>1
    <3>2. s[4] = "more" <=> \E i \in 1 .. 4 - 1 : Begins(s, i, 4)
      BY <3>1, WellFormedMeans
    <3> QED
      BY <2>2, <3>2
  <2>4. i = 1
    BY <2>2, <2>3 DEF Begins
  <2> QED
    BY <1>0, <2>1, <2>3, <2>4 DEF Begins
<1>3. Len(SubSeq(s, 1, n)) = n
  BY <1>0, SubSeqProperties
<1> QED
  BY <1>1, <1>2, <1>3

LEMMA SanitizeFacts ==
  ASSUME NEW s \in Seq(Bytes), WellFormed(s)
  PROVE  LET clean == StripControlAndTrim(s)
             kept  == SanitizeMessage(s)
         IN  /\ kept \in Seq(Bytes) /\ Len(kept) <= MaxBytes
             /\ WellFormed(kept) /\ Printable(kept)
             /\ kept # <<>> => kept[1] # "space"
             /\ kept = <<>> => \A i \in 1 .. Len(s) : s[i] \in {"space", "control"}
             /\ Len(clean) <= MaxBytes => kept = clean
<1> DEFINE clean == StripControlAndTrim(s)
           kept  == TruncateUtf8(clean, MaxBytes)
<1>0. MaxBytes \in Nat \ 0 .. 2 /\ MaxBytes \in Nat
  BY SizeAssumption
<1>1. /\ clean \in Seq(Bytes) /\ Len(clean) \in Nat /\ Printable(clean) /\ WellFormed(clean)
      /\ clean = <<>> \/ Solid(clean)
      /\ clean = <<>> => \A i \in 1 .. Len(s) : s[i] \in {"space", "control"}
  BY CleanFacts, LenProperties
<1> HIDE DEF clean
<1>2. kept = SubSeq(clean, 1, Len(kept)) /\ Len(kept) <= MaxBytes /\ WellFormed(kept)
  BY <1>0, <1>1, TruncateKeeps
<1>3. PICK n \in 0 .. Len(clean) :
        kept = SubSeq(clean, 1, n) /\ (Len(clean) <= MaxBytes => n = Len(clean))
  BY <1>0, <1>1, TruncateCuts
<1>4. clean # <<>> => kept # <<>>
  BY <1>0, <1>1, FirstFits
<1> HIDE DEF kept
<1>5. kept \in Seq(Bytes) /\ Len(kept) = n /\ \A i \in 1 .. n : kept[i] = clean[i]
  BY <1>1, <1>3, SubSeqProperties
<1>6. Len(clean) <= MaxBytes => kept = clean
  BY <1>1, <1>3, SubSeqFull
<1>7. Printable(kept)
  BY <1>1, <1>3, <1>5 DEF Printable
<1>8. kept # <<>> => kept[1] # "space"
  <2> SUFFICES ASSUME kept # <<>>
               PROVE  kept[1] # "space"
    OBVIOUS
  <2>1. n # 0 /\ 1 \in 1 .. n
    BY <1>1, <1>5, EmptySeq
  <2>2. clean # <<>>
    BY <1>1, <2>1, EmptySeq
  <2> QED
    BY <1>1, <1>5, <2>1, <2>2 DEF Solid
<1>9. kept = <<>> => \A i \in 1 .. Len(s) : s[i] \in {"space", "control"}
  BY <1>1, <1>4
<1>10. SanitizeMessage(s) = kept
  BY DEF SanitizeMessage, kept, clean
<1> QED
  BY <1>2, <1>5, <1>6, <1>7, <1>8, <1>9, <1>10 DEF clean

(* What fits and is clean is not changed again.                            *)
LEMMA SanitizedAgain ==
  ASSUME NEW s \in Seq(Bytes), WellFormed(s), Len(StripControlAndTrim(s)) <= MaxBytes
  PROVE  SanitizeMessage(StripControlAndTrim(s)) = StripControlAndTrim(s)
<1> DEFINE clean == StripControlAndTrim(s)
<1>1. clean \in Seq(Bytes) /\ Printable(clean) /\ WellFormed(clean) /\ (clean = <<>> \/ Solid(clean))
  BY CleanFacts
<1>2. Len(clean) <= MaxBytes
  OBVIOUS
<1> HIDE DEF clean
<1>3. StripControlAndTrim(clean) = clean
  BY <1>1, CleanFacts
<1>4. SanitizeMessage(clean) = clean
  BY <1>1, <1>2, <1>3, SanitizeFacts
<1> QED
  BY <1>4 DEF clean

-----------------------------------------------------------------------------
(* The way of a line                                                       *)

(* The beginning of a text.                                                *)
LEMMA StartOf ==
  ASSUME NEW S, NEW s \in Seq(S), NEW n \in 0 .. Len(s)
  PROVE  /\ SubSeq(s, 1, n) \in Seq(S) /\ Len(SubSeq(s, 1, n)) = n
         /\ \A i \in 1 .. n : SubSeq(s, 1, n)[i] = s[i]
<1> DEFINE v == SubSeq(s, 1, n)
<1>1. Len(s) \in Nat /\ 1 \in Int /\ n \in Int
  BY LenProperties
<1>2. \A i \in 1 .. n : s[i] \in S
  BY <1>1, ElementOfSeq
<1>3. /\ v \in Seq(S) /\ Len(v) = IF 1 <= n THEN n - 1 + 1 ELSE 0
      /\ \A i \in 1 .. n - 1 + 1 : v[i] = s[1 + i - 1]
  BY <1>1, <1>2, SubSeqProperties
<1> HIDE DEF v
<1>4. Len(v) = n /\ \A i \in 1 .. n : i \in 1 .. n - 1 + 1 /\ 1 + i - 1 = i
  BY <1>1, <1>3
<1> QED
  BY <1>3, <1>4 DEF v

(* What is fetched of a row, with NUL in the byte that the buffer lacks.   *)
Fetched(s) == SubSeq(BufferOf(s), 1, Len(s))

LEMMA FetchedFacts ==
  ASSUME NEW s \in Seq(Bytes), Len(s) <= MaxBytes
  PROVE  /\ Fetched(s) \in Seq(Bytes) /\ Len(Fetched(s)) = Len(s)
         /\ \A i \in 1 .. Len(s) : i < MaxBytes => Fetched(s)[i] = s[i]
         /\ Len(s) < MaxBytes => Fetched(s) = s
<1> DEFINE f == Fetched(s)
<1>0. Len(s) \in Nat /\ MaxBytes \in Nat /\ "control" \in Bytes
  BY SizeAssumption, LenProperties DEF Bytes
<1>1. \A i \in 1 .. Len(s) : BufferOf(s)[i] = IF i < MaxBytes THEN s[i] ELSE "control"
  BY <1>0 DEF BufferOf
<1>2. \A i \in 1 .. Len(s) : BufferOf(s)[i] \in Bytes
  BY <1>0, <1>1, ElementOfSeq
<1>3. f \in Seq(Bytes) /\ Len(f) = Len(s) /\ \A i \in 1 .. Len(s) : f[i] = BufferOf(s)[i]
  BY <1>0, <1>2, SubSeqProperties DEF Fetched
<1> HIDE DEF f
<1>4. \A i \in 1 .. Len(s) : i < MaxBytes => f[i] = s[i]
  BY <1>1, <1>3
<1>5. ASSUME Len(s) < MaxBytes
      PROVE  f = s
  <2>1. \A i \in 1 .. Len(s) : f[i] = s[i]
    BY <1>0, <1>4, <1>5
  <2> QED
    BY <1>3, <2>1, SeqEqual
<1> QED
  BY <1>3, <1>4, <1>5 DEF f

(* Behind the buffer there is nothing of a row that is not longer.         *)
LEMMA NothingBehind ==
  ASSUME NEW s \in Seq(Bytes), Len(s) <= MaxBytes,
         NEW behind \in [1 .. Len(s) - MaxBytes -> Bytes]
  PROVE  SubSeq(BufferOf(s) \o behind, 1, Len(s)) = Fetched(s)
<1> DEFINE b == BufferOf(s)
           l == Len(s)
           v == b \o behind
<1>0. l \in Nat /\ MaxBytes \in Nat /\ l <= MaxBytes /\ "control" \in Bytes
  BY SizeAssumption, LenProperties DEF Bytes
<1>1. b \in Seq(Bytes) /\ Len(b) = MaxBytes
  <2>1. \A i \in 1 .. MaxBytes : i <= l => s[i] \in Bytes
    BY <1>0, ElementOfSeq
  <2>2. b \in [1 .. MaxBytes -> Bytes]
    BY <1>0, <2>1 DEF BufferOf
  <2> HIDE DEF b
  <2> QED
    BY <1>0, <2>2, SeqDef, LenProperties
<1>2. behind \in Seq(Bytes)
  <2>1. 1 .. l - MaxBytes = 1 .. 0
    BY <1>0
  <2>2. behind \in [1 .. 0 -> Bytes]
    BY <2>1
  <2> QED
    BY <2>2, SeqDef
<1> HIDE DEF b, l
<1>3. /\ v \in Seq(Bytes) /\ Len(behind) \in Nat /\ Len(v) = MaxBytes + Len(behind)
      /\ \A i \in 1 .. MaxBytes : v[i] = b[i]
  <2>1. v \in Seq(Bytes) /\ Len(behind) \in Nat /\ Len(v) = MaxBytes + Len(behind)
    BY <1>1, <1>2, ConcatProperties, LenProperties
  <2>2. \A i \in 1 .. Len(b) + Len(behind) :
          v[i] = IF i <= Len(b) THEN b[i] ELSE behind[i - Len(b)]
    BY <1>1, <1>2, ConcatProperties
  <2> HIDE DEF v
  <2>3. \A i \in 1 .. MaxBytes : i \in 1 .. MaxBytes + Len(behind) /\ i <= MaxBytes
    BY <1>0, <2>1
  <2> QED
    BY <1>1, <2>1, <2>2, <2>3
<1> HIDE DEF v
<1>4. l \in 0 .. Len(v) /\ l \in 0 .. Len(b) /\ \A i \in 1 .. l : i \in 1 .. MaxBytes
  BY <1>0, <1>1, <1>3
<1>5. /\ SubSeq(v, 1, l) \in Seq(Bytes) /\ Len(SubSeq(v, 1, l)) = l
      /\ \A i \in 1 .. l : SubSeq(v, 1, l)[i] = v[i]
  BY <1>3, <1>4, StartOf
<1>6. /\ SubSeq(b, 1, l) \in Seq(Bytes) /\ Len(SubSeq(b, 1, l)) = l
      /\ \A i \in 1 .. l : SubSeq(b, 1, l)[i] = b[i]
  BY <1>1, <1>4, StartOf
<1>7. SubSeq(v, 1, l) = SubSeq(b, 1, l)
  BY <1>3, <1>4, <1>5, <1>6, SeqEqual
<1> QED
  BY <1>7 DEF b, l, v, Fetched

(* A row is never fetched as a blank line.                                 *)
LEMMA FetchedShows ==
  ASSUME NEW s \in Seq(Bytes), s # <<>>, Len(s) <= MaxBytes, Printable(s), s[1] # "space"
  PROVE  SanitizeMessage(Fetched(s)) # <<>>
<1> DEFINE f     == Fetched(s)
           clean == StripControlAndTrim(f)
<1>0. Len(s) \in Nat /\ Len(s) # 0 /\ MaxBytes \in Nat \ 0 .. 2 /\ MaxBytes \in Nat
  BY SizeAssumption, LenProperties, EmptySeq
<1>1. f \in Seq(Bytes) /\ Len(f) = Len(s) /\ f[1] = s[1] /\ 1 \in 1 .. Len(f)
  BY <1>0, FetchedFacts
<1> HIDE DEF f
<1>2. f[1] \notin {"space", "control"}
  BY <1>0, <1>1 DEF Printable
<1>3. clean \in Seq(Bytes) /\ Len(clean) <= MaxBytes /\ clean # <<>>
  BY <1>0, <1>1, <1>2, CleanFacts, LenProperties
<1> HIDE DEF clean
<1>4. TruncateUtf8(clean, MaxBytes) = clean
  BY <1>3 DEF TruncateUtf8
<1> QED
  BY <1>3, <1>4 DEF SanitizeMessage, clean, f

(* The text at every stage, from what was typed or posted.                 *)
TypedInv ==
  LET stored == SanitizeMessage(raw)
  IN  /\ stage \in {"stored", "fetched", "shown"} =>
           stored # <<>> /\ local = SanitizeMessage(stored)
      /\ stage = "stored" => text = stored
      /\ stage = "fetched" => text = Fetched(stored)
      /\ stage = "shown" => text = SanitizeMessage(Fetched(stored))
      /\ stage = "dropped" => stored = <<>>

PostedInv ==
  /\ stage = "stored" => text = raw
  /\ stage = "fetched" /\ Len(raw) < MaxBytes => text = raw
  /\ stage \in {"shown", "dropped"} /\ Len(raw) < MaxBytes => text = SanitizeMessage(raw)
  /\ stage = "dropped" => text = <<>>

TextInv ==
  /\ raw \in Texts(MaxRaw) \cup Texts(MaxPosted)
  /\ stage \in {"typed", "stored", "fetched", "shown", "dropped"}
  /\ author \in {"player", "bot"}
  /\ author = "player" => TypedInv
  /\ author = "bot" => PostedInv

LEMMA TextIsInvariant == Spec => []TextInv
<1>1. Init => TextInv
  BY DEF Init, TextInv, TypedInv, PostedInv
<1>2. TextInv /\ [Next]_vars => TextInv'
  <2> SUFFICES ASSUME TextInv, [Next]_vars
               PROVE  TextInv'
    OBVIOUS
  <2> DEFINE stored == SanitizeMessage(raw)
  <2>a. raw \in Seq(Bytes) /\ WellFormed(raw) /\ Len(raw) \in Nat /\ MaxBytes \in Nat
    BY RawIsText, LenProperties, SizeAssumption DEF TextInv
  <2>b. /\ stored \in Seq(Bytes) /\ Len(stored) <= MaxBytes /\ Printable(stored)
        /\ stored # <<>> => stored[1] # "space"
    BY <2>a, SanitizeFacts
  <2>1. CASE Capture
    BY <2>1 DEF Capture, TextInv, TypedInv
  <2>2. CASE Post
    BY <2>2 DEF Post, TextInv, PostedInv
  <2>3. CASE Fetch
    <3>1. PICK behind \in [1 .. Len(text) - MaxBytes -> Bytes] :
            text' = SubSeq(BufferOf(text) \o behind, 1, Len(text))
      BY <2>3 DEF Fetch
    <3>2. /\ stage = "stored" /\ stage' = "fetched" /\ author' = author /\ raw' = raw
          /\ local' = local
      BY <2>3 DEF Fetch
    <3>3. CASE author = "player"
      <4>1. text = stored
        BY <3>2, <3>3 DEF TextInv, TypedInv
      <4>2. text' = Fetched(stored)
        BY <2>b, <3>1, <4>1, NothingBehind
      <4> QED
        BY <3>2, <3>3, <4>2 DEF TextInv, TypedInv
    <3>4. CASE author = "bot"
      <4>1. text = raw
        BY <3>2, <3>4 DEF TextInv, PostedInv
      <4>2. ASSUME Len(raw) < MaxBytes
            PROVE  text' = raw
        <5>1. Len(raw) <= MaxBytes
          BY <2>a, <4>2
        <5>2. text' = Fetched(raw)
          BY <2>a, <3>1, <4>1, <5>1, NothingBehind
        <5> QED
          BY <2>a, <4>2, <5>1, <5>2, FetchedFacts
      <4> QED
        BY <3>2, <3>4, <4>2 DEF TextInv, PostedInv
    <3> QED
      BY <3>3, <3>4 DEF TextInv
  <2>4. ASSUME NEW t \in Templates, NEW x \in Prefixes, NEW g \in Guilds, NEW p \in Names,
               Show(t, x, g, p)
        PROVE  TextInv'
    <3>1. /\ stage = "fetched" /\ author' = author /\ raw' = raw /\ local' = local
          /\ text' = SanitizeMessage(text)
          /\ stage' = IF text' = <<>> THEN "dropped" ELSE "shown"
      BY <2>4 DEF Show
    <3>2. CASE author = "player"
      <4>1. stored # <<>> /\ text = Fetched(stored)
        BY <3>1, <3>2 DEF TextInv, TypedInv
      <4>2. SanitizeMessage(Fetched(stored)) # <<>>
        BY <2>b, <4>1, FetchedShows
      <4>3. stage' = "shown"
        BY <3>1, <4>1, <4>2
      <4> QED
        BY <3>1, <3>2, <4>1, <4>3 DEF TextInv, TypedInv
    <3>3. CASE author = "bot"
      <4>1. Len(raw) < MaxBytes => text' = SanitizeMessage(raw)
        BY <3>1, <3>3 DEF TextInv, PostedInv
      <4> QED
        BY <3>1, <3>3, <4>1 DEF TextInv, PostedInv
    <3> QED
      BY <3>2, <3>3 DEF TextInv
  <2>5. CASE UNCHANGED vars
    BY <2>5 DEF vars, TextInv, TypedInv, PostedInv
  <2> QED
    BY <2>1, <2>2, <2>3, <2>4, <2>5 DEF Next
<1> QED
  BY <1>1, <1>2, PTL DEF Spec

(* StoredTextIsClean: what a hook puts into the table is whole, visible    *)
(* text, and no line that has any is dropped, on this server or another, if *)
(* it is a player's or fits the buffer.                                    *)
THEOREM StoredTextCorrect == Spec => []StoredTextIsClean
<1>1. TextInv => StoredTextIsClean
  <2> SUFFICES ASSUME TextInv
               PROVE  StoredTextIsClean
    OBVIOUS
  <2> DEFINE stored == SanitizeMessage(raw)
             clean  == StripControlAndTrim(raw)
             Blanks == \A i \in 1 .. Len(raw) : raw[i] \in {"space", "control"}
  <2>1. raw \in Seq(Bytes) /\ WellFormed(raw)
    BY RawIsText DEF TextInv
  <2>2. /\ WellFormed(stored) /\ Printable(stored)
        /\ stored # <<>> => stored[1] # "space"
        /\ stored = <<>> => Blanks
        /\ Len(clean) <= MaxBytes => stored = clean
    BY <2>1, SanitizeFacts
  <2>3. Len(clean) \in Nat /\ MaxBytes \in Nat /\ (clean = <<>> \/ Solid(clean))
    BY <2>1, CleanFacts, LenProperties, SizeAssumption
  <2>4. author = "player" /\ stage = "stored" => stored # <<>> /\ text = stored
    BY DEF TextInv, TypedInv
  <2>5. author = "player" /\ stage = "dropped" => stored = <<>>
    BY DEF TextInv, TypedInv
  <2>6. author = "bot" /\ Len(raw) < MaxBytes /\ stage = "dropped" => stored = <<>>
    BY DEF TextInv, PostedInv
  <2>7. author = "player" \/ author = "bot"
    BY DEF TextInv
  <2> HIDE DEF stored, clean
  <2>8. stored # <<>> /\ stored[Len(stored)] = "space" => Len(clean) > MaxBytes
    BY <2>2, <2>3 DEF Solid
  <2>9. author = "player" /\ stage = "stored" =>
          /\ WellFormed(text) /\ \A i \in 1 .. Len(text) : text[i] # "control"
          /\ text[1] # "space"
          /\ text[Len(text)] = "space" => Len(StripControlAndTrim(raw)) > MaxBytes
    BY <2>2, <2>4, <2>8 DEF Printable, clean
  <2>10. stage = "dropped" /\ (author = "player" \/ Len(raw) < MaxBytes) => Blanks
    BY <2>2, <2>5, <2>6, <2>7
  <2> QED
    BY <2>9, <2>10 DEF StoredTextIsClean
<1> QED
  BY <1>1, TextIsInvariant, PTL

(* SameTextEverywhere: a text shorter than the limit is cleaned once, and  *)
(* neither the buffer nor a second cleaning changes it.                    *)
THEOREM SameTextCorrect == Spec => []SameTextEverywhere
<1>1. TextInv => SameTextEverywhere
  <2> SUFFICES ASSUME TextInv, stage = "shown"
               PROVE  /\ author = "player" /\ Len(StripControlAndTrim(raw)) < MaxBytes =>
                           text = local /\ text = StripControlAndTrim(raw)
                      /\ author = "bot" /\ Len(raw) < MaxBytes => text = StripControlAndTrim(raw)
    BY DEF SameTextEverywhere
  <2> DEFINE stored == SanitizeMessage(raw)
             clean  == StripControlAndTrim(raw)
  <2>1. raw \in Seq(Bytes) /\ WellFormed(raw)
    BY RawIsText DEF TextInv
  <2>2. clean \in Seq(Bytes) /\ Len(clean) \in Nat /\ MaxBytes \in Nat
        /\ Len(raw) \in Nat /\ Len(clean) <= Len(raw)
    BY <2>1, CleanFacts, LenProperties, SizeAssumption
  <2>3. ASSUME author = "player", Len(clean) < MaxBytes
        PROVE  text = local /\ text = clean
    <3>1. Len(clean) <= MaxBytes
      BY <2>2, <2>3
    <3>2. stored = clean /\ SanitizeMessage(clean) = clean
      BY <2>1, <3>1, SanitizeFacts, SanitizedAgain
    <3>3. Fetched(clean) = clean
      BY <2>2, <2>3, <3>1, FetchedFacts
    <3>4. text = SanitizeMessage(Fetched(stored)) /\ local = SanitizeMessage(stored)
      BY <2>3 DEF TextInv, TypedInv
    <3> QED
      BY <3>2, <3>3, <3>4
  <2>4. ASSUME author = "bot", Len(raw) < MaxBytes
        PROVE  text = clean
    <3>1. Len(clean) <= MaxBytes
      BY <2>2, <2>4
    <3>2. stored = clean
      BY <2>1, <3>1, SanitizeFacts
    <3>3. text = stored
      BY <2>4 DEF TextInv, PostedInv
    <3> QED
      BY <3>2, <3>3
  <2> QED
    BY <2>3, <2>4
<1> QED
  BY <1>1, TextIsInvariant, PTL

-----------------------------------------------------------------------------
(* ReplaceAll                                                              *)

LEMMA IsAtMeans ==
  ASSUME NEW S, NEW u \in Seq(S), NEW part \in Seq(S), NEW i \in Nat \ {0}
  PROVE  IsAt(u, part, i) <=> /\ i + Len(part) - 1 <= Len(u)
                              /\ \A m \in 1 .. Len(part) : u[i + m - 1] = part[m]
<1> DEFINE last == i + Len(part) - 1
           cut  == SubSeq(u, i, last)
<1>0. Len(u) \in Nat /\ Len(part) \in Nat
  BY LenProperties
<1>1. SUFFICES ASSUME last <= Len(u)
               PROVE  cut = part <=> \A m \in 1 .. Len(part) : u[i + m - 1] = part[m]
  BY DEF IsAt
<1>2. i \in Int /\ last \in Int /\ \A x \in i .. last : u[x] \in S
  BY <1>0, <1>1, ElementOfSeq
<1>3. /\ cut \in Seq(S) /\ Len(cut) = IF i <= last THEN last - i + 1 ELSE 0
      /\ \A m \in 1 .. last - i + 1 : cut[m] = u[i + m - 1]
  BY <1>2, SubSeqProperties
<1>4. Len(cut) = Len(part) /\ last - i + 1 = Len(part)
  BY <1>0, <1>3
<1> HIDE DEF cut, last
<1>5. cut = part <=> \A m \in 1 .. Len(part) : cut[m] = part[m]
  BY <1>3, <1>4, SeqEqual
<1> QED
  BY <1>3, <1>4, <1>5

(* One step from the left: what is put out, and where it goes on.          *)
Piece(u, from, to, i) == IF IsAt(u, from, i) THEN to ELSE <<u[i]>>
After(u, from, i) == IF IsAt(u, from, i) THEN i + Len(from) ELSE i + 1

Replaces(S, u, from, to, rest, k) ==
  /\ rest \in [k .. Len(u) + 1 -> Seq(S)] /\ rest[Len(u) + 1] = <<>>
  /\ \A i \in k .. Len(u) : rest[i] = Piece(u, from, to, i) \o rest[After(u, from, i)]

LEMMA StepRange ==
  ASSUME NEW S, NEW u \in Seq(S), NEW from \in Seq(S), NEW to \in Seq(S), from # <<>>,
         NEW i \in 1 .. Len(u)
  PROVE  /\ After(u, from, i) \in i + 1 .. Len(u) + 1
         /\ Piece(u, from, to, i) \in Seq(S)
<1>1. Len(u) \in Nat /\ Len(from) \in Nat \ {0} /\ u[i] \in S
  BY LenProperties, EmptySeq, ElementOfSeq
<1>2. IsAt(u, from, i) => i + Len(from) - 1 <= Len(u)
  BY DEF IsAt
<1> QED
  BY <1>1, <1>2 DEF After, Piece

LEMMA ReplaceExists ==
  ASSUME NEW S, NEW u \in Seq(S), NEW from \in Seq(S), NEW to \in Seq(S), from # <<>>
  PROVE  \E rest : Replaces(S, u, from, to, rest, 1)
<1> DEFINE n    == Len(u)
           Good == {k \in 1 .. n + 1 : \E rest : Replaces(S, u, from, to, rest, k)}
<1>0. n \in Nat
  BY LenProperties
<1> HIDE DEF n
<1>1. n + 1 \in Good
  <2> DEFINE rest == [i \in n + 1 .. n + 1 |-> <<>>]
  <2>1. rest \in [n + 1 .. n + 1 -> Seq(S)] /\ rest[n + 1] = <<>>
    BY <1>0, EmptySeq
  <2>2. Replaces(S, u, from, to, rest, n + 1)
    BY <1>0, <2>1 DEF Replaces, n
  <2> QED
    BY <1>0, <2>2
<1>2. ASSUME NEW i \in 1 .. n, i + 1 \in Good
      PROVE  i \in Good
  <2>1. PICK rest : Replaces(S, u, from, to, rest, i + 1)
    BY <1>2
  <2> DEFINE first == Piece(u, from, to, i) \o rest[After(u, from, i)]
             more  == [k \in i .. n + 1 |-> IF k = i THEN first ELSE rest[k]]
  <2>2. \A k \in i .. n : After(u, from, k) \in k + 1 .. n + 1 /\ Piece(u, from, to, k) \in Seq(S)
    BY <1>0, StepRange DEF n
  <2>3. /\ \A k \in i + 1 .. n + 1 : rest[k] \in Seq(S)
        /\ rest[n + 1] = <<>>
        /\ \A k \in i + 1 .. n : rest[k] = Piece(u, from, to, k) \o rest[After(u, from, k)]
    BY <2>1 DEF Replaces, n
  <2>4. After(u, from, i) \in i + 1 .. n + 1 /\ Piece(u, from, to, i) \in Seq(S)
    BY <1>0, <2>2
  <2>5. first \in Seq(S)
    BY <2>3, <2>4, ConcatProperties
  <2>6. \A k \in i + 1 .. n + 1 : k \in i .. n + 1 /\ k # i
    BY <1>0
  <2> HIDE DEF first
  <2>7. more \in [i .. n + 1 -> Seq(S)] /\ more[i] = first
        /\ \A k \in i + 1 .. n + 1 : more[k] = rest[k]
    BY <1>0, <2>3, <2>5, <2>6
  <2> HIDE DEF more
  <2>8. \A k \in i .. n : more[k] = Piece(u, from, to, k) \o more[After(u, from, k)]
    <3> TAKE k \in i .. n
    <3>1. After(u, from, k) \in i + 1 .. n + 1
      BY <1>0, <2>2
    <3>2. more[After(u, from, k)] = rest[After(u, from, k)]
      BY <2>7, <3>1
    <3>3. CASE k = i
      BY <2>7, <3>2, <3>3 DEF first
    <3>4. CASE k # i
      <4>1. k \in i + 1 .. n /\ k \in i + 1 .. n + 1
        BY <1>0, <3>4
      <4> QED
        BY <2>3, <2>7, <3>2, <4>1
    <3> QED
      BY <3>3, <3>4
  <2>9. more[n + 1] = <<>>
    BY <1>0, <2>3, <2>7
  <2>10. Replaces(S, u, from, to, more, i)
    BY <2>7, <2>8, <2>9 DEF Replaces, n
  <2> QED
    BY <1>0, <2>10
<1>3. \A i \in 1 .. n : (\A k \in i + 1 .. n + 1 : k \in Good) => i \in Good
  <2> TAKE i \in 1 .. n
  <2> HAVE \A k \in i + 1 .. n + 1 : k \in Good
  <2>1. i + 1 \in Good
    BY <1>0
  <2> QED
    BY <1>2, <2>1
<1> HIDE DEF Good
<1>4. \A i \in 1 .. n + 1 : i \in Good
  BY <1>0, <1>1, <1>3, FromTheEnd
<1> QED
  BY <1>0, <1>4 DEF Good

(* ReplaceAll is what the steps come to.                                   *)
LEMMA ReplaceSteps ==
  ASSUME NEW S, NEW u \in Seq(S), NEW from \in Seq(S), NEW to \in Seq(S), from # <<>>
  PROVE  \E rest : Replaces(S, u, from, to, rest, 1) /\ ReplaceAll(u, from, to) = rest[1]
<1> DEFINE n == Len(u)
           Rule(rest) ==
             [i \in 1 .. Len(u) + 1 |->
                IF i > Len(u) THEN <<>>
                ELSE IF IsAt(u, from, i) THEN to \o rest[i + Len(from)]
                ELSE <<u[i]>> \o rest[i + 1]]
           chosen == CHOOSE rest : rest = Rule(rest)
<1>0. n \in Nat
  BY LenProperties
<1>1. ReplaceAll(u, from, to) = chosen[1]
  BY DEF ReplaceAll
<1>2. PICK rest : Replaces(S, u, from, to, rest, 1)
  BY ReplaceExists
<1>3. ASSUME NEW f, NEW i \in 1 .. n
      PROVE  Rule(f)[i] = Piece(u, from, to, i) \o f[After(u, from, i)]
  <2>1. i \in 1 .. Len(u) + 1 /\ ~(i > Len(u))
    BY <1>0
  <2>2. Rule(f)[i] = IF IsAt(u, from, i) THEN to \o f[i + Len(from)] ELSE <<u[i]>> \o f[i + 1]
    BY <2>1
  <2> HIDE DEF Rule
  <2> QED
    BY <2>2 DEF Piece, After
<1>4. \A f : Rule(f)[n + 1] = <<>>
  BY <1>0
<1>5. rest = Rule(rest)
  <2>1. \A i \in 1 .. n + 1 : rest[i] = Rule(rest)[i]
    <3> TAKE i \in 1 .. n + 1
    <3>1. CASE i = n + 1
      BY <1>2, <1>4, <3>1 DEF Replaces
    <3>2. CASE i \in 1 .. n
      <4> HIDE DEF Rule
      <4> QED
        BY <1>2, <1>3, <3>2 DEF Replaces
    <3> QED
      BY <1>0, <3>1, <3>2
  <2>2. rest = [i \in 1 .. n + 1 |-> rest[i]]
    BY <1>2 DEF Replaces
  <2> QED
    BY <2>1, <2>2
<1>6. chosen = Rule(chosen)
  BY <1>5
<1> HIDE DEF chosen
<1>7. chosen = [i \in 1 .. n + 1 |-> chosen[i]] /\ rest = [i \in 1 .. n + 1 |-> rest[i]]
  BY <1>5, <1>6
<1> HIDE DEF Rule
<1>8. \A i \in 1 .. n + 1 : chosen[i] = rest[i]
  <2> DEFINE Good == {i \in 1 .. n + 1 : chosen[i] = rest[i]}
  <2>1. n + 1 \in Good
    BY <1>0, <1>4, <1>5, <1>6
  <2>2. ASSUME NEW i \in 1 .. n, \A k \in i + 1 .. n + 1 : k \in Good
        PROVE  i \in Good
    <3>1. After(u, from, i) \in Good
      BY <2>2, StepRange
    <3>2. chosen[i] = rest[i]
      BY <1>3, <1>5, <1>6, <3>1
    <3> QED
      BY <1>0, <3>2
  <2> HIDE DEF Good
  <2>3. \A i \in 1 .. n + 1 : i \in Good
    BY <1>0, <2>1, <2>2, FromTheEnd
  <2> QED
    BY <2>3 DEF Good
<1>9. chosen = rest
  BY <1>7, <1>8
<1> QED
  BY <1>1, <1>2, <1>9

-----------------------------------------------------------------------------
(* Where the symbols of a replaced text come from                          *)

(* One text ends in another.                                               *)
Closes(v, w) == Len(w) <= Len(v) /\ \A m \in 1 .. Len(w) : v[Len(v) - Len(w) + m] = w[m]

Scan(S, u, from, to, rest) ==
  /\ u \in Seq(S) /\ from \in Seq(S) /\ to \in Seq(S) /\ from # <<>>
  /\ Replaces(S, u, from, to, rest, 1)

LEMMA ClosesAgain ==
  ASSUME NEW S, NEW v \in Seq(S), NEW w \in Seq(S), NEW x \in Seq(S), Closes(v, w), Closes(w, x)
  PROVE  Closes(v, x)
<1>1. Len(v) \in Nat /\ Len(w) \in Nat /\ Len(x) \in Nat /\ Len(x) <= Len(w) /\ Len(w) <= Len(v)
  BY LenProperties DEF Closes
<1>2. ASSUME NEW m \in 1 .. Len(x)
      PROVE  v[Len(v) - Len(x) + m] = x[m]
  <2> DEFINE i == Len(w) - Len(x) + m
  <2>1. i \in 1 .. Len(w) /\ Len(v) - Len(w) + i = Len(v) - Len(x) + m
    BY <1>1
  <2>2. w[i] = x[m]
    BY <1>2 DEF Closes
  <2>3. v[Len(v) - Len(w) + i] = w[i]
    BY <2>1 DEF Closes
  <2> QED
    BY <2>1, <2>2, <2>3
<1> QED
  BY <1>1, <1>2 DEF Closes

LEMMA OneStep ==
  ASSUME NEW S, NEW u, NEW from, NEW to, NEW rest, Scan(S, u, from, to, rest),
         NEW i \in 1 .. Len(u)
  PROVE  /\ After(u, from, i) \in i + 1 .. Len(u) + 1 /\ Piece(u, from, to, i) \in Seq(S)
         /\ rest[i] \in Seq(S) /\ rest[After(u, from, i)] \in Seq(S)
         /\ Len(rest[i]) = Len(Piece(u, from, to, i)) + Len(rest[After(u, from, i)])
         /\ Closes(rest[i], rest[After(u, from, i)])
         /\ \A m \in 1 .. Len(Piece(u, from, to, i)) : rest[i][m] = Piece(u, from, to, i)[m]
<1> DEFINE piece == Piece(u, from, to, i)
           after == After(u, from, i)
<1>1. after \in i + 1 .. Len(u) + 1 /\ piece \in Seq(S) /\ Len(u) \in Nat
  BY StepRange, LenProperties DEF Scan
<1> HIDE DEF piece, after
<1>2. rest[i] \in Seq(S) /\ rest[after] \in Seq(S) /\ rest[i] = piece \o rest[after]
  <2>1. i \in 1 .. Len(u) + 1 /\ after \in 1 .. Len(u) + 1
    BY <1>1
  <2> QED
    BY <2>1 DEF Scan, Replaces, piece, after
<1>3. /\ Len(rest[i]) = Len(piece) + Len(rest[after])
      /\ Len(piece) \in Nat /\ Len(rest[after]) \in Nat
      /\ \A m \in 1 .. Len(piece) + Len(rest[after]) :
           rest[i][m] = IF m <= Len(piece) THEN piece[m] ELSE rest[after][m - Len(piece)]
  BY <1>1, <1>2, ConcatProperties, LenProperties
<1>4. \A m \in 1 .. Len(piece) : rest[i][m] = piece[m]
  BY <1>3
<1>5. ASSUME NEW m \in 1 .. Len(rest[after])
      PROVE  rest[i][Len(rest[i]) - Len(rest[after]) + m] = rest[after][m]
  <2>1. /\ Len(rest[i]) - Len(rest[after]) + m = Len(piece) + m
        /\ Len(piece) + m \in 1 .. Len(piece) + Len(rest[after])
        /\ ~(Len(piece) + m <= Len(piece)) /\ Len(piece) + m - Len(piece) = m
    BY <1>3
  <2> QED
    BY <1>3, <2>1
<1>6. Closes(rest[i], rest[after])
  BY <1>3, <1>5 DEF Closes
<1> QED
  BY <1>1, <1>2, <1>3, <1>4, <1>6 DEF piece, after

LEMMA ScanType ==
  ASSUME NEW S, NEW u, NEW from, NEW to, NEW rest, Scan(S, u, from, to, rest)
  PROVE  /\ Len(u) \in Nat /\ \A i \in 1 .. Len(u) : u[i] \in S
         /\ \A i \in 1 .. Len(u) + 1 : rest[i] \in Seq(S) /\ Len(rest[i]) \in Nat
         /\ rest[Len(u) + 1] = <<>> /\ Len(rest[Len(u) + 1]) = 0
<1>1. Len(u) \in Nat /\ \A i \in 1 .. Len(u) : u[i] \in S
  BY LenProperties, ElementOfSeq DEF Scan
<1>2. \A i \in 1 .. Len(u) + 1 : rest[i] \in Seq(S)
  BY DEF Scan, Replaces
<1>3. rest[Len(u) + 1] = <<>>
  BY DEF Scan, Replaces
<1> QED
  BY <1>1, <1>2, <1>3, LenProperties, EmptySeq

(* Every symbol is put out by one of the steps.                            *)
Within(u, from, to, rest, i, k, j) ==
  /\ Closes(rest[i], rest[k]) /\ Len(rest[i]) - Len(rest[k]) < j
  /\ j <= Len(rest[i]) - Len(rest[k]) + Len(Piece(u, from, to, k))

LEMMA Scanned ==
  ASSUME NEW S, NEW u, NEW from, NEW to, NEW rest, Scan(S, u, from, to, rest),
         NEW j \in 1 .. Len(rest[1])
  PROVE  \E k \in 1 .. Len(u) : Within(u, from, to, rest, 1, k, j)
<1> DEFINE n    == Len(u)
           Good == {i \in 1 .. n + 1 :
                      \A x \in 1 .. Len(rest[i]) :
                        \E k \in i .. n : Within(u, from, to, rest, i, k, x)}
<1>0. n \in Nat /\ \A i \in 1 .. n + 1 : rest[i] \in Seq(S) /\ Len(rest[i]) \in Nat
  BY ScanType
<1>1. n + 1 \in Good
  BY <1>0, ScanType
<1>2. ASSUME NEW i \in 1 .. n, \A k \in i + 1 .. n + 1 : k \in Good
      PROVE  i \in Good
  <2> DEFINE piece == Piece(u, from, to, i)
             after == After(u, from, i)
  <2>1. /\ after \in i + 1 .. n + 1 /\ piece \in Seq(S) /\ Len(piece) \in Nat
        /\ rest[i] \in Seq(S) /\ rest[after] \in Seq(S)
        /\ Len(rest[i]) = Len(piece) + Len(rest[after]) /\ Closes(rest[i], rest[after])
    BY OneStep, LenProperties
  <2>2. i \in 1 .. n + 1 /\ Len(rest[i]) \in Nat /\ Len(rest[after]) \in Nat
    BY <1>0, <2>1
  <2> HIDE DEF after
  <2>3. ASSUME NEW x \in 1 .. Len(rest[i])
        PROVE  \E k \in i .. n : Within(u, from, to, rest, i, k, x)
    <3>1. CASE x <= Len(piece)
      <4>1. Closes(rest[i], rest[i]) /\ i \in i .. n
        BY <1>0, <2>2 DEF Closes
      <4>2. Within(u, from, to, rest, i, i, x)
        BY <2>1, <2>2, <3>1, <4>1 DEF Within
      <4> QED
        BY <4>1, <4>2
    <3>2. CASE ~(x <= Len(piece))
      <4> DEFINE y == x - Len(piece)
      <4>1. y \in 1 .. Len(rest[after])
        BY <2>1, <2>2, <3>2
      <4>2. PICK k \in after .. n : Within(u, from, to, rest, after, k, y)
        BY <1>2, <2>1, <4>1
      <4>3. k \in 1 .. n + 1 /\ k \in i .. n
        BY <1>0, <2>1
      <4>4. rest[k] \in Seq(S) /\ Len(rest[k]) \in Nat /\ Len(Piece(u, from, to, k)) \in Nat
        BY <1>0, <4>3, StepRange, LenProperties DEF Scan
      <4>5. Closes(rest[i], rest[k])
        BY <2>1, <4>2, <4>4, ClosesAgain DEF Within
      <4>6. /\ Len(rest[i]) - Len(rest[k]) < x
            /\ x <= Len(rest[i]) - Len(rest[k]) + Len(Piece(u, from, to, k))
        <5>1. /\ Len(rest[after]) - Len(rest[k]) < y
              /\ y <= Len(rest[after]) - Len(rest[k]) + Len(Piece(u, from, to, k))
          BY <4>2 DEF Within
        <5> DEFINE a == Len(rest[i])
                   b == Len(rest[after])
                   c == Len(rest[k])
                   d == Len(Piece(u, from, to, k))
                   e == Len(piece)
        <5>2. /\ a \in Nat /\ b \in Nat /\ c \in Nat /\ d \in Nat /\ e \in Nat /\ x \in Int
              /\ a = e + b /\ b - c < x - e /\ x - e <= b - c + d
          <6>1. a \in Nat /\ b \in Nat /\ c \in Nat /\ d \in Nat /\ e \in Nat
            BY <2>1, <2>2, <4>4
          <6>2. a = e + b
            BY <2>1
          <6>3. b - c < x - e /\ x - e <= b - c + d
            BY <5>1
          <6>4. x \in Int
            BY <2>2
          <6> QED
            BY <6>1, <6>2, <6>3, <6>4
        <5> HIDE DEF a, b, c, d, e
        <5>3. a - c < x /\ x <= a - c + d
          BY <5>2
        <5> QED
          BY <5>3 DEF a, c, d
      <4> QED
        BY <4>3, <4>5, <4>6 DEF Within
    <3> QED
      BY <3>1, <3>2
  <2> QED
    BY <2>2, <2>3
<1> HIDE DEF Good
<1>3. \A i \in 1 .. n + 1 : i \in Good
  BY <1>0, <1>1, <1>2, FromTheEnd
<1> QED
  BY <1>0, <1>3 DEF Good

(* Symbol j of the result is symbol k of the text, and the rest follows.   *)
CopyAt(u, from, rest, k, j) ==
  /\ k \in 1 .. Len(u) /\ ~IsAt(u, from, k)
  /\ rest[1][j] = u[k] /\ Len(rest[k + 1]) = Len(rest[1]) - j /\ Closes(rest[1], rest[k + 1])

(* It is symbol m of what is put in, and the others follow.                *)
PutAt(to, v, m, j) ==
  /\ m \in 1 .. Len(to)
  /\ \A d \in 0 .. Len(to) - m : j + d <= Len(v) /\ v[j + d] = to[m + d]

LEMMA Copied ==
  ASSUME NEW S, NEW u, NEW from, NEW to, NEW rest, Scan(S, u, from, to, rest),
         NEW k \in 1 .. Len(u), ~IsAt(u, from, k)
  PROVE  /\ Len(rest[k]) = 1 + Len(rest[k + 1]) /\ rest[k][1] = u[k]
         /\ Closes(rest[k], rest[k + 1])
<1>1. Piece(u, from, to, k) = <<u[k]>> /\ After(u, from, k) = k + 1
  BY DEF Piece, After
<1> DEFINE piece == <<u[k]>>
<1>2. Len(piece) = 1 /\ piece[1] = u[k] /\ 1 \in 1 .. Len(piece)
  OBVIOUS
<1> HIDE DEF piece
<1>3. /\ Len(rest[k]) = Len(piece) + Len(rest[k + 1]) /\ Closes(rest[k], rest[k + 1])
      /\ \A m \in 1 .. Len(piece) : rest[k][m] = piece[m]
  <2>1. /\ Len(rest[k]) = Len(Piece(u, from, to, k)) + Len(rest[After(u, from, k)])
        /\ Closes(rest[k], rest[After(u, from, k)])
        /\ \A m \in 1 .. Len(Piece(u, from, to, k)) : rest[k][m] = Piece(u, from, to, k)[m]
    BY OneStep
  <2>2. Piece(u, from, to, k) = piece
    BY <1>1 DEF piece
  <2> QED
    BY <1>1, <2>1, <2>2
<1> QED
  BY <1>2, <1>3

LEMMA SymbolFrom ==
  ASSUME NEW S, NEW u, NEW from, NEW to, NEW rest, Scan(S, u, from, to, rest),
         NEW j \in 1 .. Len(rest[1])
  PROVE  \/ \E m \in 1 .. Len(to) : PutAt(to, rest[1], m, j)
         \/ \E k \in 1 .. Len(u) : CopyAt(u, from, rest, k, j)
<1>1. PICK k \in 1 .. Len(u) : Within(u, from, to, rest, 1, k, j)
  BY Scanned
<1> DEFINE v     == rest[1]
           start == Len(v) - Len(rest[k])
<1>2. /\ Len(u) \in Nat /\ v \in Seq(S) /\ Len(v) \in Nat
      /\ rest[k] \in Seq(S) /\ Len(rest[k]) \in Nat
      /\ rest[k + 1] \in Seq(S) /\ Len(rest[k + 1]) \in Nat
  BY ScanType
<1>3. /\ Len(rest[k]) <= Len(v) /\ \A m \in 1 .. Len(rest[k]) : v[start + m] = rest[k][m]
      /\ start < j /\ j <= start + Len(Piece(u, from, to, k)) /\ start \in Nat
  <2>1. Closes(v, rest[k]) /\ start < j /\ j <= start + Len(Piece(u, from, to, k))
    BY <1>1 DEF Within
  <2>2. Len(rest[k]) <= Len(v) /\ \A m \in 1 .. Len(rest[k]) : v[start + m] = rest[k][m]
    BY <2>1 DEF Closes
  <2>3. start \in Nat
    BY <1>2, <2>2
  <2> QED
    BY <2>1, <2>2, <2>3
<1> HIDE DEF start, v
<1>4. CASE IsAt(u, from, k)
  <2>1. Piece(u, from, to, k) = to
    BY <1>4 DEF Piece
  <2>2. Len(to) \in Nat /\ Len(to) <= Len(rest[k]) /\ \A m \in 1 .. Len(to) : rest[k][m] = to[m]
    <3>1. Len(to) \in Nat
      BY LenProperties DEF Scan
    <3>2. Len(rest[After(u, from, k)]) \in Nat
      BY OneStep, LenProperties
    <3> QED
      BY <2>1, <3>1, <3>2, OneStep
  <2>3. j - start \in 1 .. Len(to)
    BY <1>2, <1>3, <2>1, <2>2
  <2>4. ASSUME NEW d \in 0 .. Len(to) - (j - start)
        PROVE  j + d <= Len(v) /\ v[j + d] = to[j - start + d]
    <3>1. j - start + d \in 1 .. Len(to) /\ j - start + d \in 1 .. Len(rest[k])
          /\ start + (j - start + d) = j + d
      BY <1>2, <1>3, <2>2, <2>3
    <3>2. v[start + (j - start + d)] = rest[k][j - start + d]
      BY <1>3, <3>1
    <3>3. j + d <= Len(v)
      BY <1>2, <1>3, <3>1 DEF start
    <3> QED
      BY <2>2, <3>1, <3>2, <3>3
  <2>5. PutAt(to, v, j - start, j)
    BY <2>3, <2>4 DEF PutAt
  <2> QED
    BY <2>3, <2>5 DEF v
<1>5. CASE ~IsAt(u, from, k)
  <2>1. /\ Len(rest[k]) = 1 + Len(rest[k + 1]) /\ rest[k][1] = u[k]
        /\ Closes(rest[k], rest[k + 1])
    BY <1>5, Copied
  <2>2. Len(Piece(u, from, to, k)) = 1
    BY <1>5 DEF Piece
  <2>3. j = start + 1 /\ 1 \in 1 .. Len(rest[k])
    BY <1>2, <1>3, <2>1, <2>2
  <2>4. v[j] = u[k]
    BY <1>3, <2>1, <2>3
  <2>5. Len(rest[k + 1]) = Len(v) - j
    BY <1>2, <2>1, <2>3 DEF start
  <2>6. Closes(v, rest[k + 1])
    BY <1>1, <1>2, <2>1, ClosesAgain DEF Within, v
  <2> QED
    BY <1>5, <2>4, <2>5, <2>6 DEF CopyAt, v
<1> QED
  BY <1>4, <1>5

(* What follows a symbol that is copied.                                   *)
LEMMA CopyNext ==
  ASSUME NEW S, NEW u, NEW from, NEW to, NEW rest, Scan(S, u, from, to, rest),
         NEW j \in 1 .. Len(rest[1]), NEW k, CopyAt(u, from, rest, k, j), j < Len(rest[1])
  PROVE  /\ k + 1 \in 1 .. Len(u) /\ rest[1][j + 1] = rest[k + 1][1]
         /\ ~IsAt(u, from, k + 1) => CopyAt(u, from, rest, k + 1, j + 1)
<1>1. /\ Len(u) \in Nat /\ rest[1] \in Seq(S) /\ Len(rest[1]) \in Nat /\ k \in 1 .. Len(u)
      /\ rest[k + 1] \in Seq(S) /\ Len(rest[k + 1]) \in Nat
      /\ Len(rest[k + 1]) = Len(rest[1]) - j /\ Closes(rest[1], rest[k + 1])
  BY ScanType DEF CopyAt
<1>2. k + 1 \in 1 .. Len(u)
  BY <1>1, ScanType
<1>3. rest[1][j + 1] = rest[k + 1][1]
  <2>1. 1 \in 1 .. Len(rest[k + 1]) /\ Len(rest[1]) - Len(rest[k + 1]) + 1 = j + 1
    BY <1>1
  <2> QED
    BY <1>1, <2>1 DEF Closes
<1>4. ASSUME ~IsAt(u, from, k + 1)
      PROVE  CopyAt(u, from, rest, k + 1, j + 1)
  <2>1. /\ Len(rest[k + 1]) = 1 + Len(rest[k + 1 + 1]) /\ rest[k + 1][1] = u[k + 1]
        /\ Closes(rest[k + 1], rest[k + 1 + 1])
    BY <1>2, <1>4, Copied
  <2>2. rest[k + 1 + 1] \in Seq(S) /\ Len(rest[k + 1 + 1]) \in Nat
    BY <1>1, <1>2, ScanType
  <2>3. Closes(rest[1], rest[k + 1 + 1])
    BY <1>1, <2>1, <2>2, ClosesAgain
  <2>4. Len(rest[k + 1 + 1]) = Len(rest[1]) - (j + 1)
    <3> DEFINE a == Len(rest[1])
               b == Len(rest[k + 1])
               c == Len(rest[k + 1 + 1])
    <3>1. a \in Nat /\ b \in Nat /\ c \in Nat /\ b = a - j /\ b = 1 + c /\ j \in Nat
      <4>1. a \in Nat /\ b \in Nat /\ c \in Nat
        BY <1>1, <2>2
      <4>2. b = a - j
        BY <1>1
      <4>3. b = 1 + c
        BY <2>1
      <4>4. j \in Nat
        BY <4>1
      <4> QED
        BY <4>1, <4>2, <4>3, <4>4
    <3> HIDE DEF a, b, c
    <3>2. c = a - (j + 1)
      BY <3>1
    <3> QED
      BY <3>2 DEF a, c
  <2> QED
    BY <1>2, <1>3, <1>4, <2>1, <2>3, <2>4 DEF CopyAt
<1> QED
  BY <1>2, <1>3, <1>4

(* A piece of the text with which no occurrence overlaps is found again.   *)
LEMMA Reached ==
  ASSUME NEW S, NEW u, NEW from, NEW to, NEW rest, Scan(S, u, from, to, rest),
         NEW a \in 1 .. Len(u) + 1,
         \A i \in 1 .. a - 1 : IsAt(u, from, i) => i + Len(from) <= a
  PROVE  Closes(rest[1], rest[a])
<1> DEFINE Good == {i \in 1 .. a : Closes(rest[i], rest[a])}
<1>0. /\ Len(u) \in Nat /\ a - 1 \in Nat /\ (a - 1) + 1 = a
      /\ \A i \in 1 .. a : i \in 1 .. Len(u) + 1 /\ rest[i] \in Seq(S) /\ Len(rest[i]) \in Nat
  BY ScanType
<1>1. (a - 1) + 1 \in Good
  <2>1. a \in 1 .. a /\ Len(rest[a]) \in Nat
    BY <1>0
  <2>2. Closes(rest[a], rest[a])
    BY <2>1 DEF Closes
  <2> QED
    BY <1>0, <2>1, <2>2
<1>2. ASSUME NEW i \in 1 .. a - 1, \A k \in i + 1 .. (a - 1) + 1 : k \in Good
      PROVE  i \in Good
  <2> DEFINE after == After(u, from, i)
  <2>1. i \in 1 .. Len(u) /\ i \in 1 .. a
    BY <1>0
  <2>2. /\ after \in i + 1 .. Len(u) + 1 /\ rest[i] \in Seq(S) /\ rest[after] \in Seq(S)
        /\ Closes(rest[i], rest[after])
    BY <2>1, OneStep
  <2>3. after <= a
    BY <1>0 DEF After
  <2> HIDE DEF after
  <2>4. after \in i + 1 .. (a - 1) + 1
    BY <1>0, <2>2, <2>3
  <2>5. Closes(rest[after], rest[a]) /\ rest[a] \in Seq(S)
    BY <1>0, <1>2, <2>4
  <2>6. Closes(rest[i], rest[a])
    BY <2>2, <2>5, ClosesAgain
  <2> QED
    BY <2>1, <2>6
<1> HIDE DEF Good
<1>3. \A i \in 1 .. (a - 1) + 1 : i \in Good
  BY <1>0, <1>1, <1>2, FromTheEnd
<1> QED
  BY <1>0, <1>3 DEF Good

(* A text has a part, after its first o symbols.                           *)
PartAt(s, part, o) ==
  o \in 0 .. Len(s) - Len(part) /\ \A m \in 1 .. Len(part) : s[o + m] = part[m]
Has(s, part) == \E o \in 0 .. Len(s) - Len(part) : PartAt(s, part, o)

LEMMA PieceKept ==
  ASSUME NEW S, NEW u, NEW from, NEW to, NEW rest, Scan(S, u, from, to, rest),
         NEW part \in Seq(S), part # <<>>, NEW o, PartAt(u, part, o),
         \A i \in 1 .. o + Len(part) : IsAt(u, from, i) => i + Len(from) <= o + 1
  PROVE  Has(rest[1], part)
<1> DEFINE l    == Len(part)
           v    == rest[1]
           mark == Len(v) - Len(rest[o + 1])
           Good == {d \in 0 .. l : /\ Len(rest[o + 1]) = d + Len(rest[o + 1 + d])
                                   /\ Closes(v, rest[o + 1 + d])}
<1>0. /\ Len(u) \in Nat /\ l \in Nat \ {0} /\ o \in Nat /\ o + l <= Len(u)
      /\ \A m \in 1 .. l : u[o + m] = part[m]
  BY LenProperties, ScanType, EmptySeq DEF PartAt
<1>1. \A d \in 0 .. l : /\ o + 1 + d \in 1 .. Len(u) + 1
                        /\ rest[o + 1 + d] \in Seq(S) /\ Len(rest[o + 1 + d]) \in Nat
  BY <1>0, ScanType
<1>2. v \in Seq(S) /\ Len(v) \in Nat
  BY ScanType
<1>3. o + 1 + 0 = o + 1 /\ 0 \in 0 .. l
  BY <1>0
<1>4. Closes(v, rest[o + 1])
  <2> DEFINE a == o + 1
  <2>1. a \in 1 .. Len(u) + 1 /\ \A i \in 1 .. a - 1 : i \in 1 .. o + Len(part)
    BY <1>0
  <2>2. \A i \in 1 .. a - 1 : IsAt(u, from, i) => i + Len(from) <= a
    BY <2>1
  <2> HIDE DEF a
  <2>3. Closes(rest[1], rest[a])
    BY <2>1, <2>2, Reached
  <2> QED
    BY <2>3 DEF a
<1>5. Len(rest[o + 1]) \in Nat /\ mark \in Nat
  <2>1. Len(rest[o + 1]) \in Nat
    BY <1>1, <1>3
  <2>2. Len(rest[o + 1]) <= Len(v)
    BY <1>4 DEF Closes
  <2> QED
    BY <1>2, <2>1, <2>2
<1> HIDE DEF v, l
<1>6. 0 \in Good
  BY <1>3, <1>4, <1>5
<1>7. ASSUME NEW d \in 0 .. l, d < l, d \in Good
      PROVE  d + 1 \in Good /\ v[mark + (d + 1)] = u[o + (d + 1)]
  <2> DEFINE k == o + 1 + d
  <2>1. k \in 1 .. Len(u) /\ k \in 1 .. o + l /\ o + 1 + (d + 1) = k + 1 /\ o + (d + 1) = k
    BY <1>0, <1>7
  <2>2. ~IsAt(u, from, k)
    <3>1. Len(from) \in Nat \ {0}
      BY LenProperties, EmptySeq DEF Scan
    <3>2. IsAt(u, from, k) => k + Len(from) <= o + 1
      BY <2>1 DEF l
    <3> QED
      BY <1>0, <3>1, <3>2
  <2> HIDE DEF k
  <2>3. /\ Len(rest[k]) = 1 + Len(rest[k + 1]) /\ rest[k][1] = u[k]
        /\ Closes(rest[k], rest[k + 1])
    BY <2>1, <2>2, Copied
  <2>4. Len(rest[o + 1]) = d + Len(rest[k]) /\ Closes(v, rest[k])
    BY <1>7 DEF k
  <2>5. /\ rest[k] \in Seq(S) /\ Len(rest[k]) \in Nat
        /\ rest[k + 1] \in Seq(S) /\ Len(rest[k + 1]) \in Nat
    BY <2>1, ScanType
  <2>6. Closes(v, rest[k + 1])
    BY <1>2, <2>3, <2>4, <2>5, ClosesAgain
  <2> DEFINE x == Len(rest[o + 1])
             y == Len(rest[k])
             z == Len(rest[k + 1])
  <2>7. /\ x \in Nat /\ y \in Nat /\ z \in Nat /\ y = 1 + z /\ x = d + y /\ d \in Nat
        /\ mark = Len(v) - x
    BY <1>5, <2>3, <2>4, <2>5
  <2> HIDE DEF x, y, z, mark
  <2>8. d + 1 \in Good
    <3>1. x = (d + 1) + z /\ d + 1 \in 0 .. l
      BY <1>0, <1>7, <2>7
    <3> QED
      BY <2>1, <2>6, <3>1 DEF x, z
  <2>9. v[mark + (d + 1)] = u[k]
    <3>1. Len(v) - y + 1 = mark + (d + 1) /\ 1 \in 1 .. y
      BY <1>2, <2>7
    <3>2. v[Len(v) - y + 1] = rest[k][1]
      BY <2>4, <3>1 DEF Closes, y
    <3> QED
      BY <2>3, <3>1, <3>2
  <2> QED
    BY <2>1, <2>8, <2>9
<1>8. \A d \in 0 .. l : d \in Good
  <2>1. \A d \in 1 .. l : d - 1 \in Good => d \in Good
    <3> TAKE d \in 1 .. l
    <3> HAVE d - 1 \in Good
    <3>1. d - 1 \in 0 .. l /\ d - 1 < l /\ (d - 1) + 1 = d
      BY <1>0
    <3> QED
      BY <1>7, <3>1
  <2> HIDE DEF Good
  <2> QED
    BY <1>0, <1>6, <2>1, FromTheStart
<1>9. ASSUME NEW m \in 1 .. l
      PROVE  v[mark + m] = part[m]
  <2>1. m - 1 \in 0 .. l /\ m - 1 < l /\ (m - 1) + 1 = m
    BY <1>0
  <2>2. m - 1 \in Good
    BY <1>8, <2>1
  <2>3. v[mark + m] = u[o + m]
    BY <1>7, <2>1, <2>2
  <2> QED
    BY <1>0, <2>3
<1>10. mark \in 0 .. Len(v) - l
  <2>1. l \in 0 .. l
    BY <1>0
  <2>2. Len(rest[o + 1]) = l + Len(rest[o + 1 + l]) /\ Len(rest[o + 1 + l]) \in Nat
    BY <1>1, <1>8, <2>1
  <2> QED
    BY <1>0, <1>2, <1>5, <2>2
<1>11. PartAt(v, part, mark)
  BY <1>9, <1>10 DEF PartAt, l
<1> QED
  BY <1>10, <1>11 DEF Has, v, l

-----------------------------------------------------------------------------
(* Empty brackets                                                          *)

(* What templates, prefixes, guilds and names are made of.                 *)
Symbols == {"[", "]", ":", "space", "{prefix}", "{guild}", "{player}", "{message}",
            "p", "g", "n", "Unknown"}

(* What CleanupEmptyGuildBrackets looks for.                               *)
Empties == {<<"space", "[", "]">>, <<"[", "]", "space">>, <<"[", "]">>, <<"[", "space", "]">>}

(* No bracket is opened before white space, or around an empty pair.       *)
Flat(s) ==
  \A i \in 1 .. Len(s) : s[i] = "[" /\ i < Len(s) =>
    s[i + 1] # "space" /\ (s[i + 1] = "[" /\ i + 1 < Len(s) => s[i + 2] # "]")

(* No bracket is opened in vain.                                           *)
Bare(s) == \A i \in 1 .. Len(s) : s[i] = "[" /\ i < Len(s) => s[i + 1] \notin {"]", "space"}

LEMMA EmptiesMean ==
  ASSUME NEW from \in Empties
  PROVE  /\ from \in Seq(Symbols) /\ from # <<>> /\ Len(from) \in {2, 3}
         /\ Len(from) = 2 => from = <<"[", "]">> /\ from[1] = "[" /\ from[2] = "]"
         /\ Len(from) = 3 => \/ from[1] = "space" /\ from[2] = "[" /\ from[3] = "]"
                             \/ from[1] = "[" /\ from[2] = "]" /\ from[3] = "space"
                             \/ from[1] = "[" /\ from[2] = "space" /\ from[3] = "]"
<1>0. {"[", "]", "space"} \subseteq Symbols
  BY DEF Symbols
<1>1. CASE from = <<"[", "]">>
  BY <1>0, <1>1
<1>2. CASE from = <<"space", "[", "]">>
  BY <1>0, <1>2
<1>3. CASE from = <<"[", "]", "space">>
  BY <1>0, <1>3
<1>4. CASE from = <<"[", "space", "]">>
  BY <1>0, <1>4
<1> QED
  BY <1>1, <1>2, <1>3, <1>4 DEF Empties

LEMMA GapsMean ==
  ASSUME NEW to \in {<<>>, <<"space">>}
  PROVE  to \in Seq(Symbols) /\ \A m \in 1 .. Len(to) : to[m] = "space"
<1>0. "space" \in Symbols
  BY DEF Symbols
<1>1. CASE to = <<>>
  BY <1>1, EmptySeq
<1>2. CASE to = <<"space">>
  BY <1>0, <1>2
<1> QED
  BY <1>1, <1>2

LEMMA EmptiesAt ==
  ASSUME NEW u \in Seq(Symbols), NEW from \in Empties, NEW i \in Nat \ {0}
  PROVE  /\ from \in Seq(Symbols) /\ from # <<>> /\ Len(from) \in {2, 3}
         /\ IsAt(u, from, i) <=>
              /\ i + Len(from) - 1 <= Len(u) /\ u[i] = from[1] /\ u[i + 1] = from[2]
              /\ Len(from) = 3 => u[i + 2] = from[3]
<1>1. from \in Seq(Symbols) /\ from # <<>> /\ Len(from) \in {2, 3}
  BY EmptiesMean
<1>2. IsAt(u, from, i) <=> /\ i + Len(from) - 1 <= Len(u)
                           /\ \A m \in 1 .. Len(from) : u[i + m - 1] = from[m]
  BY <1>1, IsAtMeans
<1> DEFINE At(m) == u[i + m - 1] = from[m]
<1>3. /\ At(1) <=> u[i] = from[1]
      /\ At(2) <=> u[i + 1] = from[2]
      /\ At(3) <=> u[i + 2] = from[3]
  <2>1. i + 1 - 1 = i /\ i + 2 - 1 = i + 1 /\ i + 3 - 1 = i + 2
    OBVIOUS
  <2> QED
    BY <2>1
<1> HIDE DEF At
<1>4. (\A m \in 1 .. Len(from) : At(m)) <=> At(1) /\ At(2) /\ (Len(from) = 3 => At(3))
  <2>1. CASE Len(from) = 2
    <3>1. 1 .. Len(from) = {1, 2}
      BY <2>1
    <3> QED
      BY <2>1, <3>1
  <2>2. CASE Len(from) = 3
    <3>1. 1 .. Len(from) = {1, 2, 3}
      BY <2>2
    <3> QED
      BY <2>2, <3>1
  <2> QED
    BY <1>1, <2>1, <2>2
<1>5. (\A m \in 1 .. Len(from) : u[i + m - 1] = from[m]) <=> \A m \in 1 .. Len(from) : At(m)
  BY DEF At
<1> QED
  BY <1>1, <1>2, <1>3, <1>4, <1>5

(* Nothing that begins right after an open bracket is removed.             *)
LEMMA KeptAfterOpen ==
  ASSUME NEW u \in Seq(Symbols), NEW from \in Empties, Flat(u),
         NEW k \in 1 .. Len(u), u[k] = "[", k < Len(u)
  PROVE  ~IsAt(u, from, k + 1)
<1>1. Len(u) \in Nat /\ k + 1 \in Nat \ {0} /\ k + 1 + 1 = k + 2
  BY LenProperties
<1>2. IsAt(u, from, k + 1) =>
        /\ k + 1 + Len(from) - 1 <= Len(u) /\ u[k + 1] = from[1] /\ u[k + 2] = from[2]
        /\ Len(from) \in {2, 3}
  BY <1>1, EmptiesAt
<1>3. u[k + 1] # "space" /\ (u[k + 1] = "[" /\ k + 1 < Len(u) => u[k + 2] # "]")
  BY DEF Flat
<1>4. u[k + 1] = "[" /\ k + 1 < Len(u) => u[k + 2] # "space"
  <2>1. k + 1 \in 1 .. Len(u)
    BY <1>1
  <2> QED
    BY <1>1, <2>1 DEF Flat
<1>5. from[1] = "space" \/ (from[1] = "[" /\ from[2] \in {"]", "space"})
  BY EmptiesMean
<1> QED
  BY <1>1, <1>2, <1>3, <1>4, <1>5

(* Removing an empty pair leaves no other to be closed; once all pairs are *)
(* removed, none is there.                                                 *)
LEMMA FlatKept ==
  ASSUME NEW u \in Seq(Symbols), NEW from \in Empties, NEW to \in {<<>>, <<"space">>}, Flat(u)
  PROVE  /\ ReplaceAll(u, from, to) \in Seq(Symbols) /\ Flat(ReplaceAll(u, from, to))
         /\ Bare(u) \/ from = <<"[", "]">> => Bare(ReplaceAll(u, from, to))
<1>0. from \in Seq(Symbols) /\ to \in Seq(Symbols) /\ from # <<>> /\ Len(u) \in Nat
  BY GapsMean, EmptiesMean, LenProperties
<1>1. PICK rest : /\ Replaces(Symbols, u, from, to, rest, 1)
                  /\ ReplaceAll(u, from, to) = rest[1]
  BY <1>0, ReplaceSteps
<1>2. Scan(Symbols, u, from, to, rest)
  BY <1>0, <1>1 DEF Scan
<1> DEFINE v == rest[1]
<1>3. v \in Seq(Symbols) /\ Len(v) \in Nat
  BY <1>2, ScanType
<1>4. ASSUME NEW j \in 1 .. Len(v), v[j] = "[", j < Len(v)
      PROVE  \E k \in 1 .. Len(u) :
               /\ u[k] = "[" /\ k < Len(u) /\ ~IsAt(u, from, k) /\ v[j + 1] = u[k + 1]
               /\ u[k + 1] = "[" /\ j + 1 < Len(v) => k + 1 < Len(u) /\ v[j + 2] = u[k + 2]
  <2>1. ~\E m \in 1 .. Len(to) : PutAt(to, v, m, j)
    <3> SUFFICES ASSUME NEW m \in 1 .. Len(to), PutAt(to, v, m, j) PROVE FALSE
      OBVIOUS
    <3>1. 0 \in 0 .. Len(to) - m /\ j + 0 = j /\ m + 0 = m
      BY <1>0, LenProperties
    <3>2. v[j] = to[m]
      BY <3>1 DEF PutAt
    <3>3. to[m] = "space"
      BY GapsMean
    <3> QED
      BY <1>4, <3>2, <3>3
  <2>2. PICK k \in 1 .. Len(u) : CopyAt(u, from, rest, k, j)
    BY <1>2, <2>1, SymbolFrom
  <2>3. u[k] = "[" /\ ~IsAt(u, from, k)
    BY <1>4, <2>2 DEF CopyAt
  <2>4. k + 1 \in 1 .. Len(u) /\ k < Len(u)
    BY <1>2, <1>4, <2>2, CopyNext
  <2>5. ~IsAt(u, from, k + 1)
    BY <2>3, <2>4, KeptAfterOpen
  <2>6. CopyAt(u, from, rest, k + 1, j + 1)
    BY <1>2, <1>4, <2>2, <2>5, CopyNext
  <2>7. v[j + 1] = u[k + 1]
    BY <2>6 DEF CopyAt
  <2>8. ASSUME u[k + 1] = "[", j + 1 < Len(v)
        PROVE  k + 1 < Len(u) /\ v[j + 2] = u[k + 2]
    <3> DEFINE l == k + 1
               h == j + 1
    <3>1. h \in 1 .. Len(v) /\ l \in 1 .. Len(u)
      BY <1>3, <1>4, <2>4
    <3>2. u[l] = "[" /\ h < Len(v) /\ CopyAt(u, from, rest, l, h)
      BY <2>6, <2>8
    <3>a. h + 1 = j + 2 /\ l + 1 = k + 2 /\ (l + 1 \in 1 .. Len(u) => k + 1 < Len(u))
      BY <1>0
    <3> HIDE DEF l, h
    <3>3. l + 1 \in 1 .. Len(u)
      BY <1>2, <3>1, <3>2, CopyNext
    <3>4. l < Len(u)
      BY <1>0, <3>1, <3>3
    <3>5. ~IsAt(u, from, l + 1)
      BY <3>1, <3>2, <3>4, KeptAfterOpen
    <3>6. CopyAt(u, from, rest, l + 1, h + 1)
      BY <1>2, <3>1, <3>2, <3>5, CopyNext
    <3>7. v[h + 1] = u[l + 1]
      BY <3>6 DEF CopyAt
    <3> QED
      BY <3>a, <3>3, <3>7
  <2> QED
    BY <2>3, <2>4, <2>7, <2>8
<1> HIDE DEF v
<1>5. Flat(v)
  BY <1>4 DEF Flat
<1>6. ASSUME Bare(u) \/ from = <<"[", "]">>
      PROVE  Bare(v)
  <2> SUFFICES ASSUME NEW j \in 1 .. Len(v), v[j] = "[", j < Len(v)
               PROVE  v[j + 1] \notin {"]", "space"}
    BY DEF Bare
  <2>1. PICK k \in 1 .. Len(u) :
          u[k] = "[" /\ k < Len(u) /\ ~IsAt(u, from, k) /\ v[j + 1] = u[k + 1]
    BY <1>4
  <2>2. u[k + 1] # "space"
    BY <2>1 DEF Flat
  <2>3. CASE Bare(u)
    BY <2>1, <2>3 DEF Bare
  <2>4. CASE from = <<"[", "]">>
    <3>1. from[1] = "[" /\ from[2] = "]" /\ Len(from) = 2
      BY <2>4
    <3>2. k \in Nat \ {0} /\ k + 2 - 1 <= Len(u)
      BY <1>0, <2>1
    <3>a. IsAt(u, from, k) <=>
            /\ k + Len(from) - 1 <= Len(u) /\ u[k] = from[1] /\ u[k + 1] = from[2]
            /\ Len(from) = 3 => u[k + 2] = from[3]
      BY <3>2, EmptiesAt
    <3>3. u[k + 1] # "]"
      BY <2>1, <3>1, <3>2, <3>a
    <3> QED
      BY <2>1, <2>2, <3>3
  <2> QED
    BY <1>6, <2>3, <2>4
<1> QED
  BY <1>1, <1>3, <1>5, <1>6 DEF v

(* The names that the cleanup leaves as they are.                          *)
PlainNames == {<<"n">>, <<"[", "n", "]">>, <<"n", "space", "n">>}

(* Such a name is not cut: no pair overlaps one.                           *)
LEMMA NameMeans ==
  ASSUME NEW p \in PlainNames
  PROVE  /\ p \in Seq(Symbols) /\ p # <<>> /\ Len(p) \in {1, 3}
         /\ Len(p) = 1 => p[1] = "n"
         /\ Len(p) = 3 => \/ p[1] = "[" /\ p[2] = "n" /\ p[3] = "]"
                          \/ p[1] = "n" /\ p[2] = "space" /\ p[3] = "n"
<1>0. {"[", "n", "]", "space"} \subseteq Symbols
  BY DEF Symbols
<1>1. CASE p = <<"n">>
  BY <1>0, <1>1
<1>2. CASE p = <<"[", "n", "]">>
  BY <1>0, <1>2
<1>3. CASE p = <<"n", "space", "n">>
  BY <1>0, <1>3
<1> QED
  BY <1>1, <1>2, <1>3 DEF PlainNames

LEMMA NameKept ==
  ASSUME NEW u \in Seq(Symbols), NEW from \in Empties, NEW to \in {<<>>, <<"space">>},
         NEW p \in PlainNames, Has(u, p)
  PROVE  Has(ReplaceAll(u, from, to), p)
<1>0. from \in Seq(Symbols) /\ to \in Seq(Symbols) /\ from # <<>> /\ Len(u) \in Nat
  BY GapsMean, EmptiesMean, LenProperties
<1>1. PICK rest : /\ Replaces(Symbols, u, from, to, rest, 1)
                  /\ ReplaceAll(u, from, to) = rest[1]
  BY <1>0, ReplaceSteps
<1>2. Scan(Symbols, u, from, to, rest)
  BY <1>0, <1>1 DEF Scan
<1>3. PICK o : PartAt(u, p, o)
  BY DEF Has
<1>4. ASSUME NEW i \in 1 .. o + Len(p), IsAt(u, from, i)
      PROVE  i + Len(from) <= o + 1
  <2>1. /\ p \in Seq(Symbols) /\ p # <<>> /\ Len(p) \in {1, 3}
        /\ Len(p) = 1 => p[1] = "n"
        /\ Len(p) = 3 => \/ p[1] = "[" /\ p[2] = "n" /\ p[3] = "]"
                         \/ p[1] = "n" /\ p[2] = "space" /\ p[3] = "n"
    BY NameMeans
  <2>2. o \in Nat /\ o + Len(p) <= Len(u) /\ i \in Nat \ {0}
    BY <1>0, <1>3, <2>1 DEF PartAt
  <2>3. u[o + 1] = p[1] /\ (Len(p) = 3 => u[o + 2] = p[2] /\ u[o + 3] = p[3])
    BY <1>3, <2>1 DEF PartAt
  <2>4. /\ Len(from) \in {2, 3} /\ u[i] = from[1] /\ u[i + 1] = from[2]
        /\ Len(from) = 3 => u[i + 2] = from[3]
    BY <1>4, <2>2, EmptiesAt
  <2>5. /\ Len(from) = 2 => from[1] = "[" /\ from[2] = "]"
        /\ Len(from) = 3 => \/ from[1] = "space" /\ from[2] = "[" /\ from[3] = "]"
                            \/ from[1] = "[" /\ from[2] = "]" /\ from[3] = "space"
                            \/ from[1] = "[" /\ from[2] = "space" /\ from[3] = "]"
    BY EmptiesMean
  <2>6. CASE Len(p) = 1
    <3>1. i = o + 1 => u[i] # "n"
      BY <2>4, <2>5
    <3>2. i + 1 # o + 1
      BY <2>1, <2>3, <2>4, <2>5, <2>6
    <3>3. Len(from) = 3 => i + 2 # o + 1
      BY <2>1, <2>3, <2>4, <2>5, <2>6
    <3>4. i # o + 1
      BY <2>1, <2>3, <2>6, <3>1
    <3>5. i <= o + 1 /\ i \in Int /\ o \in Nat
      BY <2>2, <2>6
    <3>6. CASE Len(from) = 2
      BY <3>2, <3>4, <3>5, <3>6
    <3>7. CASE Len(from) = 3
      BY <3>2, <3>3, <3>4, <3>5, <3>7
    <3> QED
      BY <2>4, <3>6, <3>7
  <2>7. CASE Len(p) = 3
    <3> DEFINE d == i - o
    <3>1. d \in Int /\ i = o + d /\ d <= 3
      BY <2>2, <2>7
    <3> HIDE DEF d
    <3>2. SUFFICES ASSUME d + Len(from) > 1 PROVE FALSE
      <4>1. Len(from) \in Nat /\ o \in Nat
        BY <2>2, <2>4
      <4> QED
        BY <3>1, <4>1
    <3> DEFINE l == Len(from)
    <3>a. l = 2 \/ l = 3
      BY <2>4
    <3>b. d + l > 1
      BY <3>2
    <3>c. o \in Nat
      BY <2>2
    <3> HIDE DEF l
    <3>3. d = -1 \/ d = 0 \/ d = 1 \/ d = 2 \/ d = 3
      BY <3>a, <3>b, <3>1
    <3>4. /\ d = -1 => i + 2 = o + 1 /\ l = 3
          /\ d = 0 => i + 1 = o + 1 /\ i + 2 = o + 2
          /\ d = 1 => i = o + 1 /\ i + 1 = o + 2
          /\ d = 2 => i = o + 2 /\ i + 1 = o + 3
          /\ d = 3 => i = o + 3
      BY <3>a, <3>b, <3>c, <3>1
    <3> USE DEF l
    <3>5. d # -1
      BY <2>1, <2>3, <2>4, <2>5, <2>7, <3>4
    <3>6. d # 0
      BY <2>1, <2>3, <2>4, <2>5, <2>7, <3>4
    <3>7. d # 1
      BY <2>1, <2>3, <2>4, <2>5, <2>7, <3>4
    <3>8. d # 2
      BY <2>1, <2>3, <2>4, <2>5, <2>7, <3>4
    <3>9. d # 3
      BY <2>1, <2>3, <2>4, <2>5, <2>7, <3>4
    <3> QED
      BY <3>3, <3>5, <3>6, <3>7, <3>8, <3>9
  <2> QED
    BY <2>1, <2>6, <2>7
<1> QED
  BY <1>1, <1>2, <1>3, <1>4, NameMeans, PieceKept

-----------------------------------------------------------------------------
(* CollapseSpaces                                                          *)

(* A set of positions that CollapseSpaces picks.                           *)
Collapses(u, K) ==
  \A i \in 1 .. Len(u) :
    /\ u[i] # "space" => i \in K
    /\ u[i] = "space" /\ 1 < i /\ u[i - 1] # "space" /\ i < Len(u) /\ u[i + 1] # "space" => i \in K

LEMMA CollapseSteps ==
  ASSUME NEW S, NEW u \in Seq(S)
  PROVE  \E K, out : /\ Picks(S, u, K, out, Len(u)) /\ CollapseSpaces(u) = out[Len(u)]
                     /\ Collapses(u, K)
<1> DEFINE kept  == {i \in 1 .. Len(u) : u[i] = "space" => i > 1 /\ u[i - 1] # "space"}
           solid == {i \in kept : u[i] # "space"}
           end   == Max({0} \cup solid)
           Rule(out) ==
             [i \in 0 .. Len(u) |->
                IF i = 0 THEN <<>>
                ELSE IF i \in kept /\ i <= end THEN Append(out[i - 1], u[i])
                ELSE out[i - 1]]
           chosen == CHOOSE out : out = Rule(out)
           K == {i \in kept : i <= end}
<1>0. Len(u) \in Nat
  BY LenProperties
<1>1. CollapseSpaces(u) = chosen[Len(u)]
  BY DEF CollapseSpaces
<1>2. {0} \cup solid \in SUBSET (0 .. Len(u)) /\ {0} \cup solid # {}
  BY <1>0
<1>3. \A i \in solid : i <= end
  <2> HIDE DEF solid
  <2> QED
    BY <1>0, <1>2, MaxOf
<1> HIDE DEF end
<1>4. Collapses(u, K)
  <2> SUFFICES ASSUME NEW i \in 1 .. Len(u)
               PROVE  /\ u[i] # "space" => i \in K
                      /\ u[i] = "space" /\ 1 < i /\ u[i - 1] # "space" /\ i < Len(u)
                           /\ u[i + 1] # "space" => i \in K
    BY DEF Collapses
  <2>1. u[i] # "space" => i \in K
    BY <1>3
  <2>2. ASSUME u[i] = "space", 1 < i, u[i - 1] # "space", i < Len(u), u[i + 1] # "space"
        PROVE  i \in K
    <3>1. i \in kept
      BY <2>2
    <3>2. i + 1 \in solid
      BY <1>0, <2>2
    <3>3. end \in Nat
      <4> HIDE DEF solid
      <4>1. Max({0} \cup solid) \in {0} \cup solid
        BY <1>0, <1>2, MaxOf
      <4> QED
        BY <1>0, <1>2, <4>1 DEF end
    <3>4. i <= end
      BY <1>3, <3>2, <3>3
    <3> QED
      BY <3>1, <3>4
  <2> QED
    BY <2>1, <2>2
<1>5. PICK out : Picks(S, u, K, out, Len(u))
  <2> HIDE DEF K
  <2> QED
    BY PickExists
<1>6. ASSUME NEW f, NEW n \in 1 .. Len(u)
      PROVE  Rule(f)[n] = Picked(u, K, f, n)
  <2>1. n \in 0 .. Len(u) /\ n # 0
    BY <1>0
  <2>2. Rule(f)[n] = IF n \in kept /\ n <= end THEN Append(f[n - 1], u[n]) ELSE f[n - 1]
    BY <2>1
  <2>3. n \in K <=> n \in kept /\ n <= end
    OBVIOUS
  <2> HIDE DEF Rule, K
  <2> QED
    BY <2>2, <2>3 DEF Picked
<1>7. \A f : Rule(f)[0] = <<>> /\ Rule(f) = [n \in 0 .. Len(u) |-> Rule(f)[n]]
  BY <1>0
<1> HIDE DEF Rule, K
<1>8. out = Rule(out)
  <2>1. out = [n \in 0 .. Len(u) |-> out[n]] /\ out[0] = <<>>
    BY <1>5 DEF Picks
  <2>2. \A n \in 1 .. Len(u) : out[n] = Rule(out)[n]
    BY <1>5, <1>6 DEF Picks
  <2>3. \A n \in 0 .. Len(u) : out[n] = Rule(out)[n]
    BY <1>0, <1>7, <2>1, <2>2
  <2> QED
    BY <1>7, <2>1, <2>3
<1>9. chosen = Rule(chosen)
  BY <1>8
<1> HIDE DEF chosen
<1>10. chosen = out
  <2>1. chosen = [n \in 0 .. Len(u) |-> chosen[n]] /\ chosen[0] = <<>>
    BY <1>7, <1>9
  <2>2. \A n \in 1 .. Len(u) : chosen[n] = Picked(u, K, chosen, n)
    BY <1>6, <1>9
  <2> QED
    BY <1>5, <2>1, <2>2, PickUnique
<1> QED
  BY <1>1, <1>4, <1>5, <1>10

(* The open brackets that are picked are followed by what follows them.    *)
LEMMA BareAppend ==
  ASSUME NEW s \in Seq(Symbols), Bare(s), NEW x \in Symbols,
         s # <<>> /\ s[Len(s)] = "[" => x \notin {"]", "space"}
  PROVE  /\ Append(s, x) \in Seq(Symbols) /\ Bare(Append(s, x))
         /\ Append(s, x)[Len(Append(s, x))] = x
<1> DEFINE v == Append(s, x)
           l == Len(s)
<1>1. /\ v \in Seq(Symbols) /\ Len(v) = l + 1 /\ l \in Nat
      /\ v[l + 1] = x /\ \A i \in 1 .. l : v[i] = s[i]
  BY AppendProperties, LenProperties
<1>2. l # 0 => s # <<>>
  BY EmptySeq
<1> HIDE DEF v, l
<1>3. ASSUME NEW i \in 1 .. Len(v), v[i] = "[", i < Len(v)
      PROVE  v[i + 1] \notin {"]", "space"}
  <2>1. i \in 1 .. l /\ s[i] = "["
    BY <1>1, <1>3
  <2>2. CASE i < l
    <3>1. i + 1 \in 1 .. l /\ s[i + 1] \notin {"]", "space"}
      BY <1>1, <2>1, <2>2 DEF Bare, l
    <3> QED
      BY <1>1, <3>1
  <2>3. CASE i = l
    BY <1>1, <1>2, <2>1, <2>3 DEF l
  <2> QED
    BY <1>1, <2>1, <2>2, <2>3
<1>4. Bare(v)
  BY <1>3 DEF Bare
<1> QED
  BY <1>1, <1>4 DEF v

LEMMA CollapseBare ==
  ASSUME NEW u \in Seq(Symbols), Bare(u)
  PROVE  CollapseSpaces(u) \in Seq(Symbols) /\ Bare(CollapseSpaces(u))
<1>1. PICK K, out : /\ Picks(Symbols, u, K, out, Len(u)) /\ CollapseSpaces(u) = out[Len(u)]
                    /\ Collapses(u, K)
  BY CollapseSteps
<1> DEFINE Last(s) == s[Len(s)]
           Good == {n \in 0 .. Len(u) :
                      /\ Bare(out[n])
                      /\ out[n] # <<>> /\ Last(out[n]) = "[" => n >= 1 /\ u[n] = "["}
<1>2. /\ Len(u) \in Nat /\ \A n \in 1 .. Len(u) : u[n] \in Symbols
      /\ \A n \in 0 .. Len(u) : out[n] \in Seq(Symbols)
  BY <1>1, LenProperties, ElementOfSeq DEF Picks
<1>3. 0 \in Good
  <2>1. out[0] = <<>>
    BY <1>1 DEF Picks
  <2>2. Len(<<>>) = 0
    BY EmptySeq
  <2> QED
    BY <1>2, <2>1, <2>2 DEF Bare
<1>4. ASSUME NEW n \in 1 .. Len(u), n - 1 \in Good
      PROVE  n \in Good
  <2>1. out[n] = Picked(u, K, out, n) /\ u[n] \in Symbols /\ out[n - 1] \in Seq(Symbols)
    BY <1>1, <1>2 DEF Picks
  <2>2. /\ Bare(out[n - 1])
        /\ out[n - 1] # <<>> /\ Last(out[n - 1]) = "[" => n - 1 >= 1 /\ u[n - 1] = "["
    BY <1>4
  <2>3. n - 1 >= 1 /\ u[n - 1] = "[" => u[n] \notin {"]", "space"}
    <3>1. n - 1 >= 1 => n - 1 \in 1 .. Len(u) /\ n - 1 < Len(u) /\ (n - 1) + 1 = n
      BY <1>2
    <3> QED
      BY <3>1 DEF Bare
  <2>4. n \notin K => u[n] = "space"
    BY <1>1 DEF Collapses
  <2>5. CASE n \in K
    <3>1. out[n] = Append(out[n - 1], u[n])
      BY <2>1, <2>5 DEF Picked
    <3>2. Bare(out[n]) /\ Last(out[n]) = u[n]
      BY <2>1, <2>2, <2>3, <3>1, BareAppend
    <3> QED
      BY <1>2, <3>2
  <2>6. CASE n \notin K
    <3>1. out[n] = out[n - 1]
      BY <2>1, <2>6 DEF Picked
    <3> HIDE DEF Last
    <3> QED
      BY <1>2, <2>2, <2>3, <2>4, <2>6, <3>1
  <2> QED
    BY <2>5, <2>6
<1> HIDE DEF Good
<1>5. \A n \in 0 .. Len(u) : n \in Good
  BY <1>2, <1>3, <1>4, FromTheStart
<1> QED
  BY <1>1, <1>2, <1>5 DEF Good

(* Every symbol of a name is picked.                                       *)
LEMMA CollapseName ==
  ASSUME NEW u \in Seq(Symbols), NEW p \in PlainNames, Has(u, p)
  PROVE  Has(CollapseSpaces(u), p)
<1>1. PICK K, out : /\ Picks(Symbols, u, K, out, Len(u)) /\ CollapseSpaces(u) = out[Len(u)]
                    /\ Collapses(u, K)
  BY CollapseSteps
<1>2. PICK o : PartAt(u, p, o)
  BY DEF Has
<1> DEFINE l == Len(p)
           q == Len(out[o])
           Good == {d \in 0 .. Len(u) - o :
                      /\ IF d <= l THEN Len(out[o + d]) = q + d ELSE Len(out[o + d]) >= q + l
                      /\ \A m \in 1 .. l : m <= d => out[o + d][q + m] = p[m]}
<1>3. /\ l \in {1, 3} /\ Len(u) \in Nat /\ o \in Nat /\ o + l <= Len(u)
      /\ \A m \in 1 .. l : u[o + m] = p[m]
  BY <1>2, NameMeans, LenProperties DEF PartAt
<1>4. \A m \in 1 .. l : o + m \in K
  <2>1. /\ l = 1 => p[1] = "n"
        /\ l = 3 => \/ p[1] = "[" /\ p[2] = "n" /\ p[3] = "]"
                    \/ p[1] = "n" /\ p[2] = "space" /\ p[3] = "n"
    BY NameMeans
  <2>2. CASE l = 1
    <3>1. o + 1 \in 1 .. Len(u) /\ u[o + 1] = "n"
      BY <1>3, <2>1, <2>2
    <3>2. o + 1 \in K
      BY <1>1, <3>1 DEF Collapses
    <3> QED
      BY <2>2, <3>2
  <2>3. CASE l = 3
    <3> DEFINE i == o + 2
    <3>1. /\ o + 1 = i - 1 /\ o + 2 = i /\ o + 3 = i + 1 /\ 1 < i /\ i < Len(u)
          /\ i - 1 \in 1 .. Len(u) /\ i \in 1 .. Len(u) /\ i + 1 \in 1 .. Len(u)
      BY <1>3, <2>3
    <3>2. u[o + 1] = p[1] /\ u[o + 2] = p[2] /\ u[o + 3] = p[3]
      BY <1>3, <2>3
    <3> HIDE DEF i, l
    <3>3. u[i - 1] = p[1] /\ u[i] = p[2] /\ u[i + 1] = p[3]
      BY <3>1, <3>2
    <3>4. i - 1 \in K /\ i + 1 \in K /\ i \in K
      <4>1. p[1] # "space" /\ p[3] # "space"
        BY <2>1, <2>3
      <4> QED
        BY <1>1, <3>1, <3>3, <4>1 DEF Collapses
    <3>5. o + 1 \in K /\ o + 2 \in K /\ o + 3 \in K
      BY <3>1, <3>4
    <3>6. \A m \in 1 .. l : m = 1 \/ m = 2 \/ m = 3
      BY <2>3
    <3> QED
      BY <3>5, <3>6
  <2> QED
    BY <1>3, <2>2, <2>3
<1>5. \A n \in 0 .. Len(u) : out[n] \in Seq(Symbols) /\ Len(out[n]) \in Nat
  BY <1>1, LenProperties DEF Picks
<1>6. q \in Nat /\ 0 \in Good
  <2>1. o + 0 = o /\ o \in 0 .. Len(u)
    BY <1>3
  <2>2. q \in Nat
    BY <1>5, <2>1
  <2> QED
    BY <1>3, <2>1, <2>2
<1>7. ASSUME NEW d \in 1 .. Len(u) - o, d - 1 \in Good
      PROVE  d \in Good
  <2> DEFINE n == o + d
             s == out[n - 1]
  <2>1. n \in 1 .. Len(u) /\ n - 1 \in 0 .. Len(u) /\ o + (d - 1) = n - 1
    BY <1>3
  <2>2. /\ IF d - 1 <= l THEN Len(s) = q + (d - 1) ELSE Len(s) >= q + l
        /\ \A m \in 1 .. l : m <= d - 1 => s[q + m] = p[m]
    BY <1>7, <2>1
  <2>3. s \in Seq(Symbols) /\ Len(s) \in Nat /\ u[n] \in Symbols
    BY <1>5, <2>1, ElementOfSeq
  <2>4. out[n] = Picked(u, K, out, n)
    BY <1>1, <2>1 DEF Picks
  <2>5. d \in 0 .. Len(u) - o
    BY <1>3
  <2>6. d <= l => n \in K
    <3>1. d <= l => d \in 1 .. l
      BY <1>3
    <3> QED
      BY <1>4, <3>1
  <2>7. CASE n \in K
    <3> DEFINE v == Append(s, u[n])
    <3>1. /\ Len(v) = Len(s) + 1 /\ v[Len(s) + 1] = u[n]
          /\ \A i \in 1 .. Len(s) : v[i] = s[i]
      BY <2>3, AppendProperties
    <3>2. out[n] = v
      BY <2>4, <2>7 DEF Picked
    <3>3. d <= l => u[n] = p[d]
      BY <1>3
    <3> HIDE DEF v, s, q, l, n
    <3>4. IF d <= l THEN Len(v) = q + d ELSE Len(v) >= q + l
      BY <1>3, <1>6, <2>2, <2>3, <3>1
    <3>5. ASSUME NEW m \in 1 .. l, m <= d
          PROVE  v[q + m] = p[m]
      <4>1. CASE m = d
        <5>1. d <= l /\ d - 1 <= l
          BY <1>3, <4>1
        <5>2. Len(s) = q + (d - 1)
          BY <2>2, <5>1
        <5>3. q \in Nat /\ d \in Nat
          BY <1>6, <2>5
        <5>4. Len(s) + 1 = q + d
          BY <5>2, <5>3
        <5> QED
          BY <3>1, <3>3, <4>1, <5>1, <5>4
      <4>2. CASE m # d
        <5>1. m <= d - 1 /\ q + m \in 1 .. Len(s)
          BY <1>3, <1>6, <2>2, <2>3, <3>5, <4>2
        <5> QED
          BY <2>2, <3>1, <5>1
      <4> QED
        BY <4>1, <4>2
    <3>6. /\ IF d <= l THEN Len(out[n]) = q + d ELSE Len(out[n]) >= q + l
          /\ \A m \in 1 .. l : m <= d => out[n][q + m] = p[m]
      BY <3>2, <3>4, <3>5
    <3> QED
      BY <2>5, <3>6 DEF n, q, l
  <2>8. CASE n \notin K
    <3>1. out[n] = s /\ l < d
      BY <1>3, <2>4, <2>6, <2>8 DEF Picked
    <3> HIDE DEF s, q, l, n
    <3>2. /\ IF d <= l THEN Len(out[n]) = q + d ELSE Len(out[n]) >= q + l
          /\ \A m \in 1 .. l : m <= d => out[n][q + m] = p[m]
      <4>1. ~(d <= l) /\ (d - 1 <= l => d - 1 = l)
        BY <1>3, <3>1
      <4>2. Len(s) >= q + l
        BY <1>3, <1>6, <2>2, <4>1
      <4>3. \A m \in 1 .. l : m <= d - 1
        BY <1>3, <3>1
      <4> QED
        BY <2>2, <3>1, <4>1, <4>2, <4>3
    <3> QED
      BY <2>5, <3>2 DEF n, q, l
  <2> QED
    BY <2>7, <2>8
<1>8. \A d \in 0 .. Len(u) - o : d \in Good
  <2>1. Len(u) - o \in Nat
    BY <1>3
  <2> HIDE DEF Good
  <2> QED
    BY <1>6, <1>7, <2>1, FromTheStart
<1>9. PartAt(out[Len(u)], p, q)
  <2> DEFINE d == Len(u) - o
  <2>1. d \in 0 .. Len(u) - o /\ o + d = Len(u) /\ l <= d
    BY <1>3
  <2>2. d \in Good
    BY <1>8, <2>1
  <2>3. /\ IF d <= l THEN Len(out[Len(u)]) = q + d ELSE Len(out[Len(u)]) >= q + l
        /\ \A m \in 1 .. l : m <= d => out[Len(u)][q + m] = p[m]
    BY <2>1, <2>2
  <2>4. Len(out[Len(u)]) \in Nat
    BY <1>3, <1>5
  <2> HIDE DEF d, q
  <2>5. q \in 0 .. Len(out[Len(u)]) - l
    BY <1>3, <1>6, <2>1, <2>3, <2>4
  <2>6. \A m \in 1 .. l : out[Len(u)][q + m] = p[m]
    BY <1>3, <2>1, <2>3
  <2> QED
    BY <2>5, <2>6 DEF PartAt
<1> QED
  BY <1>1, <1>9 DEF Has, PartAt

(* After the cleanup no bracket is opened in vain, and every name is whole. *)
LEMMA CleanupKeeps ==
  ASSUME NEW u \in Seq(Symbols), Flat(u)
  PROVE  /\ CleanupEmptyGuildBrackets(u) \in Seq(Symbols) /\ Bare(CleanupEmptyGuildBrackets(u))
         /\ \A p \in PlainNames : Has(u, p) => Has(CleanupEmptyGuildBrackets(u), p)
<1> DEFINE a == ReplaceAll(u, <<"space", "[", "]">>, <<"space">>)
           b == ReplaceAll(a, <<"[", "]", "space">>, <<"space">>)
           c == ReplaceAll(b, <<"[", "]">>, <<>>)
           d == ReplaceAll(c, <<"[", "space", "]">>, <<>>)
           AllNames(v) == \A p \in PlainNames : Has(u, p) => Has(v, p)
<1>1. /\ <<"space", "[", "]">> \in Empties /\ <<"[", "]", "space">> \in Empties
      /\ <<"[", "]">> \in Empties /\ <<"[", "space", "]">> \in Empties
  BY DEF Empties
<1>2. <<>> \in {<<>>, <<"space">>} /\ <<"space">> \in {<<>>, <<"space">>}
  OBVIOUS
<1>3. CleanupEmptyGuildBrackets(u) = CollapseSpaces(d)
  BY DEF CleanupEmptyGuildBrackets
<1>4. a \in Seq(Symbols) /\ Flat(a) /\ AllNames(a)
  BY <1>1, <1>2, FlatKept, NameKept
<1> HIDE DEF a
<1>5. b \in Seq(Symbols) /\ Flat(b) /\ AllNames(b)
  BY <1>1, <1>2, <1>4, FlatKept, NameKept
<1> HIDE DEF b
<1>6. c \in Seq(Symbols) /\ Flat(c) /\ Bare(c) /\ AllNames(c)
  BY <1>1, <1>2, <1>5, FlatKept, NameKept
<1> HIDE DEF c
<1>7. d \in Seq(Symbols) /\ Bare(d) /\ AllNames(d)
  BY <1>1, <1>2, <1>6, FlatKept, NameKept
<1> HIDE DEF d
<1>8. /\ CollapseSpaces(d) \in Seq(Symbols) /\ Bare(CollapseSpaces(d))
      /\ AllNames(CollapseSpaces(d))
  BY <1>7, CollapseBare, CollapseName
<1> QED
  BY <1>3, <1>8

-----------------------------------------------------------------------------
(* Placeholders                                                            *)

LEMMA OneSymbol ==
  ASSUME NEW c \in Symbols
  PROVE  <<c>> \in Seq(Symbols) /\ <<c>> # <<>> /\ Len(<<c>>) = 1 /\ <<c>>[1] = c
  OBVIOUS

LEMMA Single ==
  ASSUME NEW u \in Seq(Symbols), NEW c \in Symbols, NEW i \in 1 .. Len(u)
  PROVE  IsAt(u, <<c>>, i) <=> u[i] = c
<1>1. Len(u) \in Nat /\ i \in Nat \ {0} /\ i + 1 - 1 = i
  BY LenProperties
<1>2. IsAt(u, <<c>>, i) <=> /\ i + Len(<<c>>) - 1 <= Len(u)
                            /\ \A m \in 1 .. Len(<<c>>) : u[i + m - 1] = <<c>>[m]
  <2>1. <<c>> \in Seq(Symbols)
    BY OneSymbol
  <2> DEFINE part == <<c>>
  <2>2. part \in Seq(Symbols)
    BY <2>1
  <2> HIDE DEF part
  <2>3. i \in Nat \ {0}
    BY <1>1
  <2>4. IsAt(u, part, i) <=> /\ i + Len(part) - 1 <= Len(u)
                             /\ \A m \in 1 .. Len(part) : u[i + m - 1] = part[m]
    BY <2>2, <2>3, IsAtMeans
  <2> QED
    BY <2>4 DEF part
<1>3. 1 .. Len(<<c>>) = {1}
  BY OneSymbol
<1> QED
  BY <1>1, <1>2, <1>3, OneSymbol

LEMMA HasSymbol ==
  ASSUME NEW u \in Seq(Symbols), NEW c \in Symbols
  PROVE  Has(u, <<c>>) <=> \E i \in 1 .. Len(u) : u[i] = c
<1>0. Len(u) \in Nat /\ 1 .. Len(<<c>>) = {1} /\ Len(<<c>>) = 1 /\ <<c>>[1] = c
  BY LenProperties
<1>1. ASSUME Has(u, <<c>>)
      PROVE  \E i \in 1 .. Len(u) : u[i] = c
  <2>1. PICK o : PartAt(u, <<c>>, o)
    BY <1>1 DEF Has
  <2>2. o + 1 \in 1 .. Len(u) /\ u[o + 1] = c
    BY <1>0, <2>1 DEF PartAt
  <2> QED
    BY <2>2
<1>2. ASSUME NEW i \in 1 .. Len(u), u[i] = c
      PROVE  Has(u, <<c>>)
  <2>1. i - 1 \in 0 .. Len(u) - 1 /\ (i - 1) + 1 = i
    BY <1>0
  <2>2. PartAt(u, <<c>>, i - 1)
    BY <1>0, <1>2, <2>1 DEF PartAt
  <2> QED
    BY <1>0, <2>1, <2>2 DEF Has
<1> QED
  BY <1>1, <1>2

Fills(u, c, to, rest) ==
  /\ u \in Seq(Symbols) /\ c \in Symbols /\ to \in Seq(Symbols)
  /\ Scan(Symbols, u, <<c>>, to, rest) /\ ReplaceAll(u, <<c>>, to) = rest[1]

LEMMA FillExists ==
  ASSUME NEW u \in Seq(Symbols), NEW c \in Symbols, NEW to \in Seq(Symbols)
  PROVE  ReplaceAll(u, <<c>>, to) \in Seq(Symbols) /\ \E rest : Fills(u, c, to, rest)
<1>1. PICK rest : /\ Replaces(Symbols, u, <<c>>, to, rest, 1)
                  /\ ReplaceAll(u, <<c>>, to) = rest[1]
  <2> DEFINE from == <<c>>
  <2>1. from \in Seq(Symbols) /\ from # <<>>
    BY OneSymbol
  <2> HIDE DEF from
  <2>2. \E rest : /\ Replaces(Symbols, u, from, to, rest, 1)
                  /\ ReplaceAll(u, from, to) = rest[1]
    BY <2>1, ReplaceSteps
  <2> QED
    BY <2>2 DEF from
<1>2. Scan(Symbols, u, <<c>>, to, rest)
  BY <1>1, OneSymbol DEF Scan
<1>3. Len(u) \in Nat /\ 1 \in 1 .. Len(u) + 1
  BY LenProperties
<1>4. rest[1] \in Seq(Symbols)
  BY <1>2, <1>3, ScanType
<1> QED
  BY <1>1, <1>2, <1>4 DEF Fills

LEMMA FillStep ==
  ASSUME NEW u, NEW c, NEW to, NEW rest, Fills(u, c, to, rest),
         NEW a \in 1 .. Len(u), u[a] = c
  PROVE  /\ rest[a] \in Seq(Symbols) /\ rest[a + 1] \in Seq(Symbols)
         /\ Len(rest[a]) = Len(to) + Len(rest[a + 1]) /\ Closes(rest[a], rest[a + 1])
         /\ \A m \in 1 .. Len(to) : rest[a][m] = to[m]
<1> DEFINE from  == <<c>>
           piece == Piece(u, from, to, a)
           after == After(u, from, a)
<1>1. IsAt(u, from, a) /\ Len(from) = 1
  BY Single, OneSymbol DEF Fills
<1>2. piece = to /\ after = a + 1
  BY <1>1 DEF Piece, After
<1>3. Scan(Symbols, u, from, to, rest)
  BY DEF Fills
<1> HIDE DEF from
<1>4. /\ rest[a] \in Seq(Symbols) /\ rest[after] \in Seq(Symbols)
      /\ Len(rest[a]) = Len(piece) + Len(rest[after])
      /\ Closes(rest[a], rest[after])
      /\ \A m \in 1 .. Len(piece) : rest[a][m] = piece[m]
  BY <1>3, OneStep
<1> HIDE DEF piece, after
<1> QED
  BY <1>2, <1>4

(* Another placeholder stays.                                              *)
LEMMA FillKeeps ==
  ASSUME NEW u \in Seq(Symbols), NEW c \in Symbols, NEW to \in Seq(Symbols),
         NEW d \in Symbols, c # d, Has(u, <<d>>)
  PROVE  Has(ReplaceAll(u, <<c>>, to), <<d>>)
<1>1. PICK rest : Fills(u, c, to, rest)
  BY FillExists
<1>2. PICK o : PartAt(u, <<d>>, o)
  BY DEF Has
<1>3. Len(u) \in Nat /\ o \in Nat /\ o + 1 \in 1 .. Len(u) /\ u[o + 1] = d
  BY <1>2, LenProperties, OneSymbol DEF PartAt
<1>4. ASSUME NEW i \in 1 .. o + Len(<<d>>), IsAt(u, <<c>>, i)
      PROVE  i + Len(<<c>>) <= o + 1
  <2>1. i \in 1 .. o + 1 /\ i \in 1 .. Len(u)
    BY <1>3, OneSymbol
  <2>2. i # o + 1
    BY <1>3, <1>4, <2>1, Single
  <2> QED
    BY <1>3, <2>1, <2>2, OneSymbol
<1>5. Has(rest[1], <<d>>)
  BY <1>1, <1>2, <1>4, OneSymbol, PieceKept DEF Fills
<1> QED
  BY <1>1, <1>5 DEF Fills

(* What is put in is there.                                                *)
LEMMA FillPuts ==
  ASSUME NEW u \in Seq(Symbols), NEW c \in Symbols, NEW to \in Seq(Symbols), Has(u, <<c>>)
  PROVE  Has(ReplaceAll(u, <<c>>, to), to)
<1>1. PICK rest : Fills(u, c, to, rest)
  BY FillExists
<1>2. PICK a \in 1 .. Len(u) : u[a] = c
  BY HasSymbol
<1> DEFINE v == rest[1]
           after == a + 1
<1>3. Len(u) \in Nat /\ Len(to) \in Nat /\ a \in 1 .. Len(u) + 1
  BY LenProperties
<1>4. \A i \in 1 .. a - 1 : IsAt(u, <<c>>, i) => i + Len(<<c>>) <= a
  BY <1>3, OneSymbol
<1>5. Closes(v, rest[a])
  BY <1>1, <1>3, <1>4, Reached DEF Fills
<1>6. v \in Seq(Symbols)
  BY <1>1, <1>3, ScanType DEF Fills
<1>7. /\ rest[after] \in Seq(Symbols) /\ rest[a] \in Seq(Symbols)
      /\ Len(rest[a]) = Len(to) + Len(rest[after])
      /\ \A m \in 1 .. Len(to) : rest[a][m] = to[m]
  <2>1. /\ rest[a] \in Seq(Symbols) /\ rest[a + 1] \in Seq(Symbols)
        /\ Len(rest[a]) = Len(to) + Len(rest[a + 1])
        /\ \A m \in 1 .. Len(to) : rest[a][m] = to[m]
    BY <1>1, <1>2, FillStep
  <2> QED
    BY <2>1
<1> HIDE DEF v, after
<1> DEFINE x == Len(v)
           y == Len(rest[a])
           z == Len(rest[after])
<1>8. x \in Nat /\ y \in Nat /\ z \in Nat /\ y = Len(to) + z /\ y <= x
  BY <1>5, <1>6, <1>7, LenProperties DEF Closes
<1>9. \A m \in 1 .. y : v[x - y + m] = rest[a][m]
  BY <1>5 DEF Closes
<1> HIDE DEF x, y, z
<1>10. x - y \in 0 .. x - Len(to) /\ \A m \in 1 .. Len(to) : m \in 1 .. y
  BY <1>3, <1>8
<1>11. \A m \in 1 .. Len(to) : v[x - y + m] = to[m]
  BY <1>7, <1>9, <1>10
<1>12. PartAt(v, to, x - y)
  BY <1>10, <1>11 DEF PartAt, x
<1> QED
  BY <1>1, <1>10, <1>12 DEF Has, Fills, v, x

(* What follows a symbol that stays.                                       *)
LEMMA FillNext ==
  ASSUME NEW u, NEW c, NEW to, NEW rest, Fills(u, c, to, rest),
         NEW j \in 1 .. Len(rest[1]), NEW k, CopyAt(u, <<c>>, rest, k, j), j < Len(rest[1])
  PROVE  /\ k + 1 \in 1 .. Len(u)
         /\ u[k + 1] # c => CopyAt(u, <<c>>, rest, k + 1, j + 1)
         /\ u[k + 1] = c =>
              /\ \A m \in 1 .. Len(to) : j + m <= Len(rest[1]) /\ rest[1][j + m] = to[m]
              /\ to = <<>> => /\ k + 2 \in 1 .. Len(u)
                              /\ u[k + 2] # c => rest[1][j + 1] = u[k + 2]
<1> DEFINE from == <<c>>
           v    == rest[1]
           h    == k + 1
<1>1. Scan(Symbols, u, from, to, rest) /\ CopyAt(u, from, rest, k, j)
  BY DEF Fills
<1>2. Len(from) = 1 /\ \A i \in 1 .. Len(u) : IsAt(u, from, i) <=> u[i] = c
  BY Single, OneSymbol DEF Fills
<1> HIDE DEF from
<1>3. h \in 1 .. Len(u) /\ (~IsAt(u, from, h) => CopyAt(u, from, rest, h, j + 1))
  BY <1>1, CopyNext
<1>4. Len(rest[h]) = Len(v) - j /\ Closes(v, rest[h]) /\ k \in 1 .. Len(u)
  BY <1>1 DEF CopyAt
<1>5. ASSUME u[h] = c
      PROVE  /\ \A m \in 1 .. Len(to) : j + m <= Len(v) /\ v[j + m] = to[m]
             /\ to = <<>> => /\ k + 2 \in 1 .. Len(u)
                             /\ u[k + 2] # c => v[j + 1] = u[k + 2]
  <2> DEFINE g == h + 1
  <2>1. Len(u) \in Nat /\ v \in Seq(Symbols) /\ rest[Len(u) + 1] = <<>>
    BY <1>1, ScanType DEF Fills
  <2>2. k \in Nat /\ j \in Nat /\ g = k + 2 /\ g \in 1 .. Len(u) + 1
    BY <1>3, <1>4, <2>1, LenProperties
  <2> HIDE DEF h, v
  <2>5. /\ rest[h] \in Seq(Symbols) /\ rest[g] \in Seq(Symbols)
        /\ Len(rest[h]) = Len(to) + Len(rest[g]) /\ Closes(rest[h], rest[g])
        /\ \A m \in 1 .. Len(to) : rest[h][m] = to[m]
    <3>1. /\ rest[h] \in Seq(Symbols) /\ rest[h + 1] \in Seq(Symbols)
          /\ Len(rest[h]) = Len(to) + Len(rest[h + 1]) /\ Closes(rest[h], rest[h + 1])
          /\ \A m \in 1 .. Len(to) : rest[h][m] = to[m]
      BY <1>3, <1>5, FillStep
    <3> QED
      BY <3>1
  <2> HIDE DEF g
  <2> DEFINE x == Len(v)
             y == Len(rest[h])
             z == Len(rest[g])
             l == Len(to)
  <2>6. /\ x \in Nat /\ y \in Nat /\ z \in Nat /\ l \in Nat
        /\ y = x - j /\ y = l + z /\ j < x
    <3>1. x \in Nat /\ y \in Nat /\ z \in Nat
      BY <2>1, <2>5, LenProperties
    <3>2. l \in Nat
      BY LenProperties DEF Fills
    <3>3. y = x - j /\ y = l + z
      BY <1>4, <2>5
    <3> QED
      BY <3>1, <3>2, <3>3 DEF v
  <2>7. \A m \in 1 .. y : v[x - y + m] = rest[h][m]
    BY <1>4 DEF Closes
  <2>8. \A m \in 1 .. y : v[j + m] = rest[h][m]
    <3> HIDE DEF x, y
    <3>1. \A m \in 1 .. y : x - y + m = j + m
      BY <2>2, <2>6
    <3> QED
      BY <2>7, <3>1
  <2>9. \A m \in 1 .. l : j + m <= x /\ m \in 1 .. y
    <3> HIDE DEF x, y, z, l
    <3> QED
      BY <2>2, <2>6
  <2>10. ASSUME to = <<>>
         PROVE  g \in 1 .. Len(u) /\ (u[g] # c => v[j + 1] = u[g])
    <3>1. l = 0
      BY <2>10, EmptySeq
    <3>2. z = y /\ z # 0 /\ 1 \in 1 .. y /\ y - z + 1 = 1
      <4> HIDE DEF x, y, z, l
      <4> QED
        BY <2>2, <2>6, <3>1
    <3>3. g # Len(u) + 1
      BY <2>1, <3>2, EmptySeq
    <3>4. g \in 1 .. Len(u)
      BY <2>1, <2>2, <3>3
    <3>5. rest[h][1] = rest[g][1]
      <4>1. \A m \in 1 .. z : rest[h][y - z + m] = rest[g][m]
        BY <2>5 DEF Closes
      <4> HIDE DEF y, z
      <4> QED
        BY <3>2, <4>1
    <3>6. u[g] # c => rest[g][1] = u[g]
      BY <1>1, <1>2, <3>4, Copied
    <3>7. v[j + 1] = rest[h][1]
      BY <2>8, <3>2
    <3> QED
      BY <3>4, <3>5, <3>6, <3>7
  <2>11. to = <<>> => k + 2 \in 1 .. Len(u) /\ (u[k + 2] # c => v[j + 1] = u[k + 2])
    BY <2>2, <2>10
  <2> QED
    BY <2>5, <2>8, <2>9, <2>11
<1> QED
  BY <1>2, <1>3, <1>5 DEF from

(* What a prefix or a guild takes the place of.                            *)
Inserted == {"{prefix}", "{guild}"}

LEMMA InsertedMean ==
  ASSUME NEW c \in Inserted
  PROVE  c \in Symbols /\ c \notin {"[", "]", "space", "p", "g", "{player}"}
  BY DEF Inserted, Symbols

(* A template part in which the prefix and the guild stand alone in their  *)
(* brackets, and that opens no bracket before white space or another one.  *)
Ready(s) ==
  \A i \in 1 .. Len(s) : s[i] = "[" /\ i < Len(s) =>
    /\ s[i + 1] \notin {"space", "["}
    /\ s[i + 1] \in Inserted /\ i + 1 < Len(s) => s[i + 2] = "]"

LEMMA InsertsMean ==
  ASSUME NEW to \in Prefixes \cup Guilds
  PROVE  /\ to \in Seq(Symbols) /\ \A m \in 1 .. Len(to) : to[m] # "["
         /\ to # <<>> => 1 \in 1 .. Len(to) /\ to[1] \in {"p", "g"}
<1>0. {"p", "g", "space"} \subseteq Symbols
  BY DEF Symbols
<1>1. CASE to = <<>>
  BY <1>1, EmptySeq
<1>2. CASE to = <<"p">>
  BY <1>0, <1>2
<1>3. CASE to = <<"g", "space", "g">>
  <2>1. \A m \in 1 .. 3 : to[m] # "["
    BY <1>3
  <2> QED
    BY <1>0, <1>3, <2>1
<1> QED
  BY <1>1, <1>2, <1>3 DEF Prefixes, Guilds

(* The prefix and the guild leave the rest of the template as it was.      *)
LEMMA FillReady ==
  ASSUME NEW u \in Seq(Symbols), NEW c \in Inserted, NEW to \in Prefixes \cup Guilds, Ready(u)
  PROVE  Ready(ReplaceAll(u, <<c>>, to))
<1> DEFINE lu == Len(u)
<1>0. c \in Symbols /\ to \in Seq(Symbols) /\ lu \in Nat
  BY InsertsMean, InsertedMean, LenProperties
<1>1. PICK rest : Fills(u, c, to, rest)
  BY <1>0, FillExists
<1> DEFINE v  == rest[1]
           lv == Len(v)
<1>2. v \in Seq(Symbols) /\ lv \in Nat
  <2>1. Scan(Symbols, u, <<c>>, to, rest)
    BY <1>1 DEF Fills
  <2>2. v \in Seq(Symbols)
    BY <1>0, <2>1, ScanType
  <2> HIDE DEF v
  <2> QED
    BY <2>2, LenProperties
<1> HIDE DEF lu, v, lv
<1>3. ASSUME NEW j \in 1 .. lv, v[j] = "[", j < lv
      PROVE  /\ v[j + 1] \notin {"space", "["}
             /\ v[j + 1] \in Inserted /\ j + 1 < lv => v[j + 2] = "]"
  <2>1. PICK k \in 1 .. lu : CopyAt(u, <<c>>, rest, k, j)
    <3>1. ~\E m \in 1 .. Len(to) : PutAt(to, v, m, j)
      <4> SUFFICES ASSUME NEW m \in 1 .. Len(to), PutAt(to, v, m, j) PROVE FALSE
        OBVIOUS
      <4>1. v[j + 0] = to[m + 0] /\ j + 0 = j /\ m + 0 = m
        <5>1. Len(to) \in Nat
          BY <1>0, LenProperties
        <5>2. 0 \in 0 .. Len(to) - m
          BY <5>1
        <5>3. v[j + 0] = to[m + 0]
          BY <5>2 DEF PutAt
        <5> QED
          BY <1>2, <5>3
      <4> QED
        BY <1>3, <4>1, InsertsMean
    <3> QED
      BY <1>1, <3>1, SymbolFrom DEF Fills, v, lv, lu
  <2>2. /\ k + 1 \in 1 .. lu
        /\ u[k + 1] # c => CopyAt(u, <<c>>, rest, k + 1, j + 1)
        /\ u[k + 1] = c =>
             /\ \A m \in 1 .. Len(to) : j + m <= lv /\ v[j + m] = to[m]
             /\ to = <<>> => k + 2 \in 1 .. lu /\ (u[k + 2] # c => v[j + 1] = u[k + 2])
    BY <1>1, <1>3, <2>1, FillNext DEF v, lv, lu
  <2>3. u[k] = "[" /\ k < lu
    <3>1. v[j] = u[k]
      BY <2>1 DEF CopyAt, v
    <3>2. k < lu
      BY <1>0, <2>1, <2>2
    <3> QED
      BY <1>3, <3>1, <3>2
  <2>4. /\ u[k + 1] \notin {"space", "["}
        /\ u[k + 1] \in Inserted /\ k + 1 < lu => u[k + 2] = "]"
    BY <2>3 DEF Ready, lu
  <2>5. CASE u[k + 1] # c
    <3> DEFINE h == j + 1
               l == k + 1
    <3>1. h \in 1 .. lv /\ h + 1 = j + 2 /\ l + 1 = k + 2
      BY <1>0, <1>2, <1>3
    <3>2. CopyAt(u, <<c>>, rest, l, h)
      BY <2>2, <2>5
    <3>3. v[h] = u[l]
      BY <3>2 DEF CopyAt, v
    <3> HIDE DEF h, l
    <3>4. ASSUME v[h] \in Inserted, h < lv
          PROVE  v[h + 1] = "]"
      <4>1. /\ l + 1 \in 1 .. lu
            /\ u[l + 1] # c => CopyAt(u, <<c>>, rest, l + 1, h + 1)
        BY <1>1, <3>1, <3>2, <3>4, FillNext DEF lv, lu, v
      <4>2. k + 1 < lu
        BY <1>0, <3>1, <4>1
      <4>3. u[l + 1] = "]"
        BY <2>4, <3>1, <3>3, <3>4, <4>2 DEF l
      <4>4. CopyAt(u, <<c>>, rest, l + 1, h + 1)
        BY <4>1, <4>3, InsertedMean
      <4> QED
        BY <4>3, <4>4 DEF CopyAt, v
    <3>5. v[h] \notin {"space", "["} /\ (v[h] \in Inserted /\ h < lv => v[j + 2] = "]")
      BY <2>4, <3>1, <3>3, <3>4 DEF l
    <3> QED
      BY <3>5 DEF h
  <2>6. CASE u[k + 1] = c
    <3>1. CASE to = <<>>
      <4>1. k + 2 \in 1 .. lu /\ (u[k + 2] # c => v[j + 1] = u[k + 2])
        BY <2>2, <2>6, <3>1
      <4>2. u[k + 2] = "]"
        <5>1. k + 1 < lu
          BY <1>0, <4>1
        <5> QED
          BY <2>4, <2>6, <5>1
      <4>3. v[j + 1] = "]"
        BY <4>1, <4>2, InsertedMean
      <4> QED
        BY <4>3, InsertedMean
    <3>2. CASE to # <<>>
      <4>1. v[j + 1] = to[1] /\ to[1] \in {"p", "g"}
        BY <2>2, <2>6, <3>2, InsertsMean
      <4> QED
        BY <4>1, InsertedMean
    <3> QED
      BY <3>1, <3>2
  <2> QED
    BY <2>5, <2>6
<1>4. Ready(v)
  BY <1>3 DEF Ready, lv
<1> QED
  BY <1>1, <1>4 DEF Fills, v

LEMMA OneOrThree ==
  ASSUME NEW l, l \in {1, 3}
  PROVE  /\ 1 \in 1 .. l /\ (l = 3 => 2 \in 1 .. l)
         /\ \A m \in 1 .. l : (m = 1 \/ m = 2 \/ m = 3) /\ (l = 1 => m = 1) /\ 0 \in 0 .. l - m
         /\ l = 3 => 1 \in 0 .. l - 1
  OBVIOUS

(* A name is put where no bracket around it can be taken for an empty one. *)
LEMMA FillFlat ==
  ASSUME NEW u \in Seq(Symbols), NEW c \in Symbols, NEW to \in PlainNames, Ready(u)
  PROVE  Flat(ReplaceAll(u, <<c>>, to))
<1> DEFINE lu == Len(u)
           lt == Len(to)
<1>0. to \in Seq(Symbols) /\ lu \in Nat /\ lt \in {1, 3}
  BY NameMeans, LenProperties
<1>1. PICK rest : Fills(u, c, to, rest)
  BY <1>0, FillExists
<1> DEFINE v  == rest[1]
           lv == Len(v)
<1>2. v \in Seq(Symbols) /\ lv \in Nat
  <2>1. Scan(Symbols, u, <<c>>, to, rest)
    BY <1>1 DEF Fills
  <2>2. v \in Seq(Symbols)
    BY <1>0, <2>1, ScanType
  <2> HIDE DEF v
  <2> QED
    BY <2>2, LenProperties
<1>3. /\ to[1] # "space" /\ (to[1] = "[" => lt = 3 /\ to[2] = "n")
      /\ \A m \in 1 .. lt : to[m] = "[" => m = 1
  <2>1. /\ lt = 1 => to[1] = "n"
        /\ lt = 3 => \/ to[1] = "[" /\ to[2] = "n" /\ to[3] = "]"
                     \/ to[1] = "n" /\ to[2] = "space" /\ to[3] = "n"
    BY NameMeans
  <2> HIDE DEF lt
  <2>2. \A m \in 1 .. lt : (m = 1 \/ m = 2 \/ m = 3) /\ (lt = 1 => m = 1)
    BY <1>0, OneOrThree
  <2> QED
    BY <1>0, <2>1, <2>2
<1> HIDE DEF lu, lt, v, lv
<1>4. ASSUME NEW j \in 1 .. lv, v[j] = "[", j < lv
      PROVE  v[j + 1] # "space" /\ (v[j + 1] = "[" /\ j + 1 < lv => v[j + 2] # "]")
  <2>1. ASSUME NEW m \in 1 .. lt, PutAt(to, v, m, j)
        PROVE  v[j + 1] = "n"
    <3>1. \A d \in 0 .. lt - m : v[j + d] = to[m + d]
      BY <2>1 DEF PutAt, lt
    <3>2. v[j + 0] = to[m + 0] /\ j + 0 = j /\ m + 0 = m
      <4>1. 0 \in 0 .. lt - m
        BY <1>0, OneOrThree
      <4> QED
        BY <3>1, <4>1
    <3>3. m = 1 /\ lt = 3 /\ to[2] = "n"
      BY <1>3, <1>4, <3>2
    <3>4. 1 \in 0 .. lt - m /\ m + 1 = 2
      BY <3>3
    <3> QED
      BY <3>1, <3>3, <3>4
  <2>2. ASSUME NEW k \in 1 .. lu, CopyAt(u, <<c>>, rest, k, j)
        PROVE  v[j + 1] # "space" /\ (v[j + 1] = "[" /\ j + 1 < lv => v[j + 2] # "]")
    <3>1. /\ k + 1 \in 1 .. lu
          /\ u[k + 1] # c => CopyAt(u, <<c>>, rest, k + 1, j + 1)
          /\ u[k + 1] = c => \A m \in 1 .. lt : v[j + m] = to[m]
      BY <1>1, <1>4, <2>2, FillNext DEF v, lv, lu, lt
    <3>2. u[k] = "[" /\ k < lu
      BY <1>0, <1>4, <2>2, <3>1 DEF CopyAt, v
    <3>3. u[k + 1] \notin {"space", "["}
      BY <3>2 DEF Ready, lu
    <3>4. CASE u[k + 1] # c
      <4>1. v[j + 1] = u[k + 1]
        BY <3>1, <3>4 DEF CopyAt, v
      <4> QED
        BY <3>3, <4>1
    <3>5. CASE u[k + 1] = c
      <4>1. 1 \in 1 .. lt /\ (lt = 3 => 2 \in 1 .. lt)
        BY <1>0, OneOrThree
      <4>2. v[j + 1] = to[1] /\ (lt = 3 => v[j + 2] = to[2])
        BY <3>1, <3>5, <4>1
      <4> QED
        BY <1>3, <4>2
    <3> QED
      BY <3>4, <3>5
  <2>3. (\E m \in 1 .. lt : PutAt(to, v, m, j)) \/ \E k \in 1 .. lu : CopyAt(u, <<c>>, rest, k, j)
    BY <1>1, SymbolFrom DEF Fills, v, lv, lu, lt
  <2> QED
    BY <2>1, <2>2, <2>3
<1>5. Flat(v)
  BY <1>4 DEF Flat, lv
<1> QED
  BY <1>1, <1>5 DEF Fills, v

(* Between them the fields are filled, and nothing is lost but what is empty. *)
LEMMA CleanSenderKeeps ==
  ASSUME NEW u \in Seq(Symbols), Ready(u), NEW x \in Prefixes, NEW g \in Guilds, NEW p \in PlainNames
  PROVE  /\ CleanSender(u, x, g, p) \in Seq(Symbols) /\ Bare(CleanSender(u, x, g, p))
         /\ Has(u, <<"{player}">>) => Has(CleanSender(u, x, g, p), p)
<1> DEFINE a == ReplaceAll(u, <<"{prefix}">>, x)
           b == ReplaceAll(a, <<"{guild}">>, g)
           c == ReplaceAll(b, <<"{player}">>, p)
<1>1. "{prefix}" \in Inserted /\ "{guild}" \in Inserted
  BY DEF Inserted
<1>2. /\ "{prefix}" \in Symbols /\ "{guild}" \in Symbols /\ "{player}" \in Symbols
      /\ "{prefix}" # "{player}" /\ "{guild}" # "{player}"
  BY DEF Symbols
<1>3. /\ x \in Seq(Symbols) /\ g \in Seq(Symbols) /\ p \in Seq(Symbols)
      /\ x \in Prefixes \cup Guilds /\ g \in Prefixes \cup Guilds
  BY InsertsMean, NameMeans
<1>4. /\ a \in Seq(Symbols) /\ Ready(a)
      /\ Has(u, <<"{player}">>) => Has(a, <<"{player}">>)
  BY <1>1, <1>2, <1>3, FillExists, FillReady, FillKeeps
<1> HIDE DEF a
<1>5. /\ b \in Seq(Symbols) /\ Ready(b)
      /\ Has(a, <<"{player}">>) => Has(b, <<"{player}">>)
  BY <1>1, <1>2, <1>3, <1>4, FillExists, FillReady, FillKeeps
<1> HIDE DEF b
<1>6. c \in Seq(Symbols) /\ Flat(c) /\ (Has(b, <<"{player}">>) => Has(c, p))
  BY <1>2, <1>3, <1>5, FillExists, FillFlat, FillPuts
<1>7. CleanSender(u, x, g, p) = CleanupEmptyGuildBrackets(c)
  BY DEF CleanSender, Filled, a, b
<1> HIDE DEF c
<1>8. /\ CleanupEmptyGuildBrackets(c) \in Seq(Symbols) /\ Bare(CleanupEmptyGuildBrackets(c))
      /\ Has(c, p) => Has(CleanupEmptyGuildBrackets(c), p)
  BY <1>6, CleanupKeeps
<1> QED
  BY <1>4, <1>5, <1>6, <1>7, <1>8

-----------------------------------------------------------------------------
(* Templates                                                               *)

Fit(t) == t \in Seq(Symbols) /\ Ready(t)

Placeholders(prefix, guild, player, message) ==
  /\ prefix \in Symbols /\ guild \in Symbols /\ player \in Symbols /\ message \in Symbols
  /\ \A c \in {prefix, guild, player, message} : c \notin {"[", "]", ":", "space"}
  /\ player \notin {prefix, guild, message} \cup Inserted /\ message \notin {prefix, guild}

LEMMA PlaceholdersMean == Placeholders("{prefix}", "{guild}", "{player}", "{message}")
  BY Zenon DEF Placeholders, Symbols, Inserted

LEMMA BracketsMean == {"[", "]", ":", "space"} \subseteq Symbols
  BY DEF Symbols

LEMMA DefaultTemplate ==
  ASSUME NEW prefix, NEW guild, NEW player, NEW message, NEW t,
         Placeholders(prefix, guild, player, message),
         t = <<"[", prefix, "]", "space", "[", guild, "]", "space", player, ":", "space", message>>
  PROVE  Fit(t)
<1>1. /\ Len(t) = 12 /\ t[1] = "[" /\ t[2] = prefix /\ t[3] = "]" /\ t[4] = "space" /\ t[5] = "["
      /\ t[6] = guild /\ t[7] = "]" /\ t[8] = "space" /\ t[9] = player /\ t[10] = ":" /\ t[11] = "space"
      /\ t[12] = message
  OBVIOUS
<1>2. t \in Seq(Symbols)
  BY BracketsMean DEF Placeholders
<1>3. \A i \in 1 .. 12 : i = 1 \/ i = 2 \/ i = 3 \/ i = 4 \/ i = 5 \/ i = 6 \/ i = 7 \/ i = 8 \/ i = 9 \/ i = 10 \/ i = 11 \/ i = 12
  OBVIOUS
<1>4. \A i \in 1 .. 12 : t[i] = "[" => i = 1 \/ i = 5
  BY <1>1, <1>3 DEF Placeholders
<1>5. /\ t[1 + 1] = prefix /\ t[1 + 2] = "]"
      /\ t[5 + 1] = guild /\ t[5 + 2] = "]"
  BY <1>1
<1>6. Ready(t)
  BY <1>1, <1>4, <1>5 DEF Ready, Placeholders
<1> QED
  BY <1>2, <1>6 DEF Fit

LEMMA TaggedTemplate ==
  ASSUME NEW prefix, NEW guild, NEW player, NEW message, NEW t,
         Placeholders(prefix, guild, player, message),
         t = <<"[", prefix, "]", "[", guild, "]", "[", player, ":", "space", message>>
  PROVE  Fit(t)
<1>1. /\ Len(t) = 11 /\ t[1] = "[" /\ t[2] = prefix /\ t[3] = "]" /\ t[4] = "[" /\ t[5] = guild
      /\ t[6] = "]" /\ t[7] = "[" /\ t[8] = player /\ t[9] = ":" /\ t[10] = "space" /\ t[11] = message
  OBVIOUS
<1>2. t \in Seq(Symbols)
  BY BracketsMean DEF Placeholders
<1>3. \A i \in 1 .. 11 : i = 1 \/ i = 2 \/ i = 3 \/ i = 4 \/ i = 5 \/ i = 6 \/ i = 7 \/ i = 8 \/ i = 9 \/ i = 10 \/ i = 11
  OBVIOUS
<1>4. \A i \in 1 .. 11 : t[i] = "[" => i = 1 \/ i = 4 \/ i = 7
  BY <1>1, <1>3 DEF Placeholders
<1>5. /\ t[1 + 1] = prefix /\ t[1 + 2] = "]"
      /\ t[4 + 1] = guild /\ t[4 + 2] = "]"
      /\ t[7 + 1] = player /\ t[7 + 2] = ":"
  BY <1>1
<1>6. Ready(t)
  BY <1>1, <1>4, <1>5 DEF Ready, Placeholders
<1> QED
  BY <1>2, <1>6 DEF Fit

LEMMA NoMessageTemplate ==
  ASSUME NEW prefix, NEW guild, NEW player, NEW message, NEW t,
         Placeholders(prefix, guild, player, message),
         t = <<"[", guild, "]", "space", player>>
  PROVE  Fit(t)
<1>1. /\ Len(t) = 5 /\ t[1] = "[" /\ t[2] = guild /\ t[3] = "]" /\ t[4] = "space" /\ t[5] = player
  OBVIOUS
<1>2. t \in Seq(Symbols)
  BY BracketsMean DEF Placeholders
<1>3. \A i \in 1 .. 5 : i = 1 \/ i = 2 \/ i = 3 \/ i = 4 \/ i = 5
  OBVIOUS
<1>4. \A i \in 1 .. 5 : t[i] = "[" => i = 1
  BY <1>1, <1>3 DEF Placeholders
<1>5. /\ t[1 + 1] = guild /\ t[1 + 2] = "]"
  BY <1>1
<1>6. Ready(t)
  BY <1>1, <1>4, <1>5 DEF Ready, Placeholders
<1> QED
  BY <1>2, <1>6 DEF Fit

LEMMA NestedTemplate ==
  ASSUME NEW prefix, NEW guild, NEW player, NEW message, NEW t,
         Placeholders(prefix, guild, player, message),
         t = <<"[", player, "space", "[", guild, "]", ":", message, "]">>
  PROVE  Fit(t)
<1>1. /\ Len(t) = 9 /\ t[1] = "[" /\ t[2] = player /\ t[3] = "space" /\ t[4] = "[" /\ t[5] = guild
      /\ t[6] = "]" /\ t[7] = ":" /\ t[8] = message /\ t[9] = "]"
  OBVIOUS
<1>2. t \in Seq(Symbols)
  BY BracketsMean DEF Placeholders
<1>3. \A i \in 1 .. 9 : i = 1 \/ i = 2 \/ i = 3 \/ i = 4 \/ i = 5 \/ i = 6 \/ i = 7 \/ i = 8 \/ i = 9
  OBVIOUS
<1>4. \A i \in 1 .. 9 : t[i] = "[" => i = 1 \/ i = 4
  BY <1>1, <1>3 DEF Placeholders
<1>5. /\ t[1 + 1] = player /\ t[1 + 2] = "space"
      /\ t[4 + 1] = guild /\ t[4 + 2] = "]"
  BY <1>1
<1>6. Ready(t)
  BY <1>1, <1>4, <1>5 DEF Ready, Placeholders
<1> QED
  BY <1>2, <1>6 DEF Fit

LEMMA GuildTemplate ==
  ASSUME NEW prefix, NEW guild, NEW player, NEW message, NEW t,
         Placeholders(prefix, guild, player, message),
         t = <<"[", guild, "]", message>>
  PROVE  Fit(t)
<1>1. /\ Len(t) = 4 /\ t[1] = "[" /\ t[2] = guild /\ t[3] = "]" /\ t[4] = message
  OBVIOUS
<1>2. t \in Seq(Symbols)
  BY BracketsMean DEF Placeholders
<1>3. \A i \in 1 .. 4 : i = 1 \/ i = 2 \/ i = 3 \/ i = 4
  OBVIOUS
<1>4. \A i \in 1 .. 4 : t[i] = "[" => i = 1
  BY <1>1, <1>3 DEF Placeholders
<1>5. /\ t[1 + 1] = guild /\ t[1 + 2] = "]"
  BY <1>1
<1>6. Ready(t)
  BY <1>1, <1>4, <1>5 DEF Ready, Placeholders
<1> QED
  BY <1>2, <1>6 DEF Fit

LEMMA PrefixTemplate ==
  ASSUME NEW prefix, NEW guild, NEW player, NEW message, NEW t,
         Placeholders(prefix, guild, player, message),
         t = <<"[", prefix, "]", message, player>>
  PROVE  Fit(t)
<1>1. /\ Len(t) = 5 /\ t[1] = "[" /\ t[2] = prefix /\ t[3] = "]" /\ t[4] = message /\ t[5] = player
  OBVIOUS
<1>2. t \in Seq(Symbols)
  BY BracketsMean DEF Placeholders
<1>3. \A i \in 1 .. 5 : i = 1 \/ i = 2 \/ i = 3 \/ i = 4 \/ i = 5
  OBVIOUS
<1>4. \A i \in 1 .. 5 : t[i] = "[" => i = 1
  BY <1>1, <1>3 DEF Placeholders
<1>5. /\ t[1 + 1] = prefix /\ t[1 + 2] = "]"
  BY <1>1
<1>6. Ready(t)
  BY <1>1, <1>4, <1>5 DEF Ready, Placeholders
<1> QED
  BY <1>2, <1>6 DEF Fit

LEMMA TemplatesFit ==
  ASSUME NEW t \in Templates, t # <<>>
  PROVE  Fit(t)
<1>1. CASE t = <<"[", "{prefix}", "]", "space", "[", "{guild}", "]", "space", "{player}", ":", "space", "{message}">>
  BY Zenon, <1>1, PlaceholdersMean, DefaultTemplate
<1>2. CASE t = <<"[", "{prefix}", "]", "[", "{guild}", "]", "[", "{player}", ":", "space", "{message}">>
  BY Zenon, <1>2, PlaceholdersMean, TaggedTemplate
<1>3. CASE t = <<"[", "{guild}", "]", "space", "{player}">>
  BY Zenon, <1>3, PlaceholdersMean, NoMessageTemplate
<1>4. CASE t = <<"[", "{player}", "space", "[", "{guild}", "]", ":", "{message}", "]">>
  BY Zenon, <1>4, PlaceholdersMean, NestedTemplate
<1>5. CASE t = <<"[", "{guild}", "]", "{message}">>
  BY Zenon, <1>5, PlaceholdersMean, GuildTemplate
<1>6. CASE t = <<"[", "{prefix}", "]", "{message}", "{player}">>
  BY Zenon, <1>6, PlaceholdersMean, PrefixTemplate
<1> QED
  BY Zenon, <1>1, <1>2, <1>3, <1>4, <1>5, <1>6 DEF Templates

LEMMA SameStart ==
  ASSUME NEW S, NEW s \in Seq(S), NEW t \in Seq(S), NEW n \in Nat, n <= Len(s), n <= Len(t),
         \A i \in 1 .. n : s[i] = t[i]
  PROVE  SubSeq(s, 1, n) = SubSeq(t, 1, n)
<1>1. n \in 0 .. Len(s) /\ n \in 0 .. Len(t)
  BY LenProperties
<1> DEFINE v == SubSeq(s, 1, n)
           w == SubSeq(t, 1, n)
<1>2. v \in Seq(S) /\ Len(v) = n /\ \A i \in 1 .. n : v[i] = s[i]
  BY <1>1, StartOf
<1>3. w \in Seq(S) /\ Len(w) = n /\ \A i \in 1 .. n : w[i] = t[i]
  BY <1>1, StartOf
<1> HIDE DEF v, w
<1>4. v = w
  BY <1>2, <1>3, SeqEqual
<1> QED
  BY <1>4 DEF v, w

LEMMA WholeText ==
  ASSUME NEW S, NEW s \in Seq(S)
  PROVE  SubSeq(s, 1, Len(s)) = s
<1>1. Len(s) \in 0 .. Len(s)
  BY LenProperties
<1> DEFINE v == SubSeq(s, 1, Len(s))
<1>2. v \in Seq(S) /\ Len(v) = Len(s) /\ \A i \in 1 .. Len(s) : v[i] = s[i]
  BY <1>1, StartOf
<1> HIDE DEF v
<1>3. v = s
  BY <1>2, SeqEqual
<1> QED
  BY <1>3 DEF v

(* The two placeholders, by name.                                          *)
PlayerMark  == "{player}"
MessageMark == "{message}"

(* SenderPart is the beginning of the template, and what follows is the    *)
(* message or the colon and the space before it.                           *)
LEMMA BeforeMeans ==
  ASSUME NEW t \in Seq(Symbols)
  PROVE  \E m \in 0 .. Len(t) :
           /\ Before(t) = SubSeq(t, 1, m)
           /\ HasMessage(t) => m < Len(t) /\ t[m + 1] = MessageMark
           /\ ~HasMessage(t) => m = Len(t)
           /\ \A i \in 1 .. m : t[i] # MessageMark
<1> DEFINE places == {i \in 1 .. Len(t) : t[i] = MessageMark}
           n      == Len(t)
<1>0. n \in Nat /\ places \in SUBSET (1 .. n) /\ places \in SUBSET Nat
  BY LenProperties
<1>a. HasMessage(t) <=> places # {}
  <2>1. HasMessage(t) <=> \E i \in 1 .. Len(t) : t[i] = MessageMark
    BY Zenon DEF HasMessage, MessageMark
  <2> QED
    BY <2>1
<1>1. Before(t) = IF places = {} THEN t ELSE SubSeq(t, 1, Min(places) - 1)
  BY Zenon DEF Before, MessageMark
<1>2. CASE places = {}
  <2>1. SubSeq(t, 1, n) = t
    BY WholeText
  <2> QED
    <3>1. Before(t) = SubSeq(t, 1, n) /\ ~HasMessage(t)
      BY <1>a, <1>1, <1>2, <2>1
    <3>2. n \in 0 .. n /\ \A i \in 1 .. n : t[i] # MessageMark
      BY <1>0, <1>2
    <3> QED
      BY <3>1, <3>2
<1>3. CASE places # {}
  <2> DEFINE first == Min(places)
  <2>1. first \in places /\ \A i \in places : first <= i
    <3> HIDE DEF places
    <3> QED
      BY <1>0, <1>3, MinOf
  <2>2. first \in 1 .. n /\ t[first] = MessageMark
    BY <2>1
  <2>3. \A i \in 1 .. n : t[i] = MessageMark => first <= i
    BY <2>1
  <2> HIDE DEF first, n
  <2>4. first - 1 \in 0 .. n /\ first - 1 < n /\ (first - 1) + 1 = first
    BY <1>0, <2>2
  <2>5. \A i \in 1 .. first - 1 : i \in 1 .. n /\ ~(first <= i)
    BY <1>0, <2>2
  <2>6. \A i \in 1 .. first - 1 : t[i] # MessageMark
    BY <2>3, <2>5
  <2> QED
    BY <1>0, <1>a, <1>1, <1>3, <2>2, <2>4, <2>6 DEF first, n
<1> QED
  BY <1>2, <1>3

LEMMA SenderPartMeans ==
  ASSUME NEW t \in Seq(Symbols)
  PROVE  \E n \in 0 .. Len(t) :
           /\ SenderPart(t) = SubSeq(t, 1, n)
           /\ \A i \in n + 1 .. Len(t) :
                t[i] \in {":", "space"} \/ \E j \in 1 .. i : t[j] = MessageMark
<1> DEFINE l == Len(t)
           b == Before(t)
           Rest(n) == \A i \in n + 1 .. l :
                        t[i] \in {":", "space"} \/ \E j \in 1 .. i : t[j] = MessageMark
<1>0. l \in Nat
  BY LenProperties
<1>1. PICK m \in 0 .. l : /\ b = SubSeq(t, 1, m)
                          /\ HasMessage(t) => m < l /\ t[m + 1] = MessageMark
                          /\ ~HasMessage(t) => m = l
  BY BeforeMeans
<1>2. b \in Seq(Symbols) /\ Len(b) = m /\ \A i \in 1 .. m : b[i] = t[i]
  BY <1>0, <1>1, StartOf
<1> HIDE DEF l, b
<1>3. CASE ~HasMessage(t)
  <2>1. SenderPart(t) = t /\ t = SubSeq(t, 1, l)
    BY <1>3, WholeText DEF SenderPart, l
  <2>2. l \in 0 .. l /\ \A i \in l + 1 .. l : FALSE
    BY <1>0
  <2>3. Rest(l)
    BY <2>2
  <2> QED
    BY <2>1, <2>2, <2>3 DEF l
<1>4. CASE HasMessage(t)
  <2>1. ASSUME NEW k \in 0 .. m, \A i \in m - k + 1 .. m : b[i] \in {":", "space"}
        PROVE  WithoutLast(b, k) = SubSeq(t, 1, m - k) /\ m - k \in 0 .. l /\ Rest(m - k)
    <3>1. WithoutLast(b, k) = SubSeq(b, 1, m - k)
      BY <1>2 DEF WithoutLast
    <3>2. SubSeq(b, 1, m - k) = SubSeq(t, 1, m - k)
      BY <1>0, <1>2, SameStart DEF l
    <3>3. ASSUME NEW i \in m - k + 1 .. l
          PROVE  t[i] \in {":", "space"} \/ \E j \in 1 .. i : t[j] = MessageMark
      <4>1. CASE i <= m
        <5>1. i \in m - k + 1 .. m /\ i \in 1 .. m
          BY <1>0, <4>1
        <5> QED
          BY <1>2, <2>1, <5>1
      <4>2. CASE i > m
        <5>1. m + 1 \in 1 .. i
          BY <1>0, <4>2
        <5> QED
          BY <1>1, <1>4, <5>1
      <4> QED
        BY <1>0, <4>1, <4>2
    <3>4. m - k \in 0 .. l
      BY <1>0
    <3> QED
      BY <3>1, <3>2, <3>3, <3>4
  <2>2. ASSUME EndsIn(b, <<":", "space">>)
        PROVE  2 <= m /\ b[m - 1] = ":" /\ b[m] = "space"
    <3> DEFINE part == <<":", "space">>
    <3>1. part \in Seq(Symbols) /\ Len(part) = 2 /\ part[1] = ":" /\ part[2] = "space"
      BY BracketsMean
    <3>2. 2 <= m /\ IsAt(b, part, m - 2 + 1)
      BY <1>2, <2>2, <3>1 DEF EndsIn
    <3> HIDE DEF part
    <3> DEFINE a == m - 2 + 1
    <3>3. a \in Nat \ {0} /\ a + 1 - 1 = m - 1 /\ a + 2 - 1 = m
      BY <1>0, <3>2
    <3>4. IsAt(b, part, a)
      BY <3>2
    <3> HIDE DEF a
    <3>5. \A i \in 1 .. Len(part) : b[a + i - 1] = part[i]
      <4>1. IsAt(b, part, a) <=> /\ a + Len(part) - 1 <= Len(b)
                                 /\ \A i \in 1 .. Len(part) : b[a + i - 1] = part[i]
        <5>1. a \in Nat \ {0} /\ part \in Seq(Symbols)
          BY <3>1, <3>3
        <5> QED
          BY <1>2, <5>1, IsAtMeans
      <4> QED
        BY <3>4, <4>1
    <3>6. b[a + 1 - 1] = part[1] /\ b[a + 2 - 1] = part[2]
      BY <3>1, <3>5
    <3> QED
      BY <3>1, <3>2, <3>3, <3>6
  <2>3. ASSUME EndsIn(b, <<":">>)
        PROVE  1 <= m /\ b[m] = ":"
    <3>1. ":" \in Symbols
      BY BracketsMean
    <3>2. 1 <= m /\ IsAt(b, <<":">>, m - 1 + 1) /\ m - 1 + 1 = m
      <4>1. Len(<<":">>) = 1
        OBVIOUS
      <4>2. 1 <= m /\ IsAt(b, <<":">>, m - 1 + 1)
        BY <1>2, <2>3, <4>1 DEF EndsIn
      <4>3. m \in Int
        BY <1>0
      <4>4. m - 1 + 1 = m
        BY <4>3
      <4> QED
        BY <4>2, <4>4
    <3>3. m \in 1 .. Len(b)
      BY <1>2, <3>2
    <3> QED
      BY <1>2, <3>1, <3>2, <3>3, Single
  <2>4. CASE EndsIn(b, <<":", "space">>)
    <3>1. SenderPart(t) = WithoutLast(b, 2)
      BY <1>4, <2>4 DEF SenderPart, b
    <3>2. 2 \in 0 .. m /\ \A i \in m - 2 + 1 .. m : i = m - 1 \/ i = m
      BY <2>2, <2>4
    <3>3. \A i \in m - 2 + 1 .. m : b[i] \in {":", "space"}
      BY <2>2, <2>4, <3>2
    <3>4. SenderPart(t) = SubSeq(t, 1, m - 2) /\ m - 2 \in 0 .. l /\ Rest(m - 2)
      BY <2>1, <3>1, <3>2, <3>3
    <3> QED
      BY <3>4 DEF l
  <2>5. CASE ~EndsIn(b, <<":", "space">>) /\ EndsIn(b, <<":">>)
    <3>1. SenderPart(t) = WithoutLast(b, 1)
      BY <1>4, <2>5 DEF SenderPart, b
    <3>2. 1 \in 0 .. m /\ \A i \in m - 1 + 1 .. m : i = m
      BY <2>3, <2>5
    <3>3. \A i \in m - 1 + 1 .. m : b[i] \in {":", "space"}
      BY <2>3, <2>5, <3>2
    <3>4. SenderPart(t) = SubSeq(t, 1, m - 1) /\ m - 1 \in 0 .. l /\ Rest(m - 1)
      BY <2>1, <3>1, <3>2, <3>3
    <3> QED
      BY <3>4 DEF l
  <2>6. CASE ~EndsIn(b, <<":", "space">>) /\ ~EndsIn(b, <<":">>)
    <3>1. SenderPart(t) = b
      BY <1>4, <2>6 DEF SenderPart, b
    <3>2. 0 \in 0 .. m /\ m - 0 = m /\ \A i \in m - 0 + 1 .. m : b[i] \in {":", "space"}
      OBVIOUS
    <3>3. m - 0 \in 0 .. l /\ Rest(m - 0)
      BY <2>1, <3>2
    <3>4. m \in 0 .. l /\ Rest(m)
      BY <3>2, <3>3
    <3> QED
      BY <1>1, <3>1, <3>4 DEF l
  <2> QED
    BY <2>4, <2>5, <2>6
<1> QED
  BY <1>3, <1>4

(* What the template has before {message}, with its player.                *)
LEMMA BeforeFits ==
  ASSUME NEW t \in Seq(Symbols)
  PROVE  /\ Before(t) \in Seq(Symbols)
         /\ Has(Before(t), <<PlayerMark>>) =>
              \E i \in 1 .. Len(t) : t[i] = PlayerMark /\ \A j \in 1 .. i : t[j] # MessageMark
<1> DEFINE b == Before(t)
           l == Len(t)
<1>0. l \in Nat
  BY LenProperties
<1>a. PlayerMark \in Symbols
  BY Zenon, PlaceholdersMean DEF Placeholders, PlayerMark
<1>1. PICK m \in 0 .. l : b = SubSeq(t, 1, m) /\ \A i \in 1 .. m : t[i] # MessageMark
  BY BeforeMeans
<1>2. b \in Seq(Symbols) /\ Len(b) = m /\ \A i \in 1 .. m : b[i] = t[i]
  BY <1>0, <1>1, StartOf
<1> HIDE DEF b, l
<1>3. ASSUME Has(b, <<PlayerMark>>)
      PROVE  \E i \in 1 .. l : t[i] = PlayerMark /\ \A j \in 1 .. i : t[j] # MessageMark
  <2>1. PICK i \in 1 .. Len(b) : b[i] = PlayerMark
    BY Zenon, <1>a, <1>2, <1>3, HasSymbol
  <2>2. i \in 1 .. m /\ i \in 1 .. l /\ \A j \in 1 .. i : j \in 1 .. m
    BY <1>0, <1>2, <2>1
  <2>3. t[i] = PlayerMark
    BY Zenon, <1>2, <2>1, <2>2
  <2> QED
    BY Zenon, <1>1, <2>2, <2>3
<1> QED
  BY <1>2, <1>3 DEF b, l

LEMMA SenderPartFits ==
  ASSUME NEW t, Fit(t)
  PROVE  /\ SenderPart(t) \in Seq(Symbols) /\ Ready(SenderPart(t))
         /\ Has(Before(t), <<PlayerMark>>) => Has(SenderPart(t), <<PlayerMark>>)
<1> DEFINE l == Len(t)
           s == SenderPart(t)
<1>0. t \in Seq(Symbols) /\ Ready(t) /\ l \in Nat
  BY LenProperties DEF Fit
<1>a. PlayerMark \in Symbols /\ PlayerMark \notin {":", "space"}
  BY Zenon, PlaceholdersMean DEF Placeholders, PlayerMark
<1>1. PICK n \in 0 .. l :
        /\ s = SubSeq(t, 1, n)
        /\ \A i \in n + 1 .. l :
             t[i] \in {":", "space"} \/ \E j \in 1 .. i : t[j] = MessageMark
  BY <1>0, SenderPartMeans
<1>2. s \in Seq(Symbols) /\ Len(s) = n /\ \A i \in 1 .. n : s[i] = t[i]
  BY <1>0, <1>1, StartOf
<1> HIDE DEF l, s
<1>3. ASSUME NEW i \in 1 .. n, s[i] = "[", i < n
      PROVE  s[i + 1] \notin {"space", "["} /\ (s[i + 1] \in Inserted /\ i + 1 < n => s[i + 2] = "]")
  <2>1. i \in 1 .. l /\ i < l /\ i + 1 \in 1 .. n /\ (i + 1 < n => i + 1 < l /\ i + 2 \in 1 .. n)
    BY <1>0, <1>3
  <2>2. /\ t[i + 1] \notin {"space", "["}
        /\ t[i + 1] \in Inserted /\ i + 1 < l => t[i + 2] = "]"
    BY <1>0, <1>2, <1>3, <2>1 DEF Ready, l
  <2> QED
    BY <1>2, <2>1, <2>2
<1>4. Ready(s)
  BY <1>2, <1>3 DEF Ready
<1>5. ASSUME Has(Before(t), <<PlayerMark>>)
      PROVE  Has(s, <<PlayerMark>>)
  <2>2. PICK i \in 1 .. l : t[i] = PlayerMark /\ \A j \in 1 .. i : t[j] # MessageMark
    BY Zenon, <1>0, <1>5, BeforeFits DEF l
  <2>3. i \notin n + 1 .. l
    BY Zenon, <1>a, <1>1, <2>2
  <2>4. i \in 1 .. n
    BY <1>0, <2>3
  <2>5. i \in 1 .. Len(s) /\ s[i] = PlayerMark
    BY Zenon, <1>2, <2>2, <2>4
  <2> QED
    BY Zenon, <1>a, <1>2, <2>5, HasSymbol
<1> QED
  BY <1>2, <1>4, <1>5 DEF s

-----------------------------------------------------------------------------
(* The sender                                                              *)

LEMMA HasHolds ==
  ASSUME NEW s \in Seq(Symbols), NEW part \in Seq(Symbols), part # <<>>
  PROVE  Holds(s, part) <=> Has(s, part)
<1> DEFINE l == Len(s)
           k == Len(part)
<1>0. l \in Nat /\ k \in Nat \ {0}
  BY LenProperties, EmptySeq
<1>1. ASSUME NEW i \in Nat \ {0}
      PROVE  IsAt(s, part, i) <=> i + k - 1 <= l /\ \A m \in 1 .. k : s[i + m - 1] = part[m]
  BY IsAtMeans
<1> HIDE DEF l, k
<1>2. ASSUME Holds(s, part)
      PROVE  Has(s, part)
  <2>1. PICK i \in 1 .. l : IsAt(s, part, i)
    BY <1>2 DEF Holds, l
  <2>2. i + k - 1 <= l /\ \A m \in 1 .. k : s[i + m - 1] = part[m]
    BY <1>1, <2>1
  <2> DEFINE o == i - 1
  <2>3. o \in 0 .. l - k /\ \A m \in 1 .. k : o + m = i + m - 1
    BY <1>0, <2>2
  <2> HIDE DEF o
  <2>4. \A m \in 1 .. k : s[o + m] = part[m]
    BY <2>2, <2>3
  <2>5. PartAt(s, part, o)
    BY <2>3, <2>4 DEF PartAt, l, k
  <2> QED
    BY <2>3, <2>5 DEF Has, l, k
<1>3. ASSUME Has(s, part)
      PROVE  Holds(s, part)
  <2>1. PICK o : PartAt(s, part, o)
    BY <1>3 DEF Has
  <2>2. o \in 0 .. l - k /\ \A m \in 1 .. k : s[o + m] = part[m]
    BY <2>1 DEF PartAt, l, k
  <2> DEFINE i == o + 1
  <2>3. i \in Nat \ {0} /\ i \in 1 .. l /\ i + k - 1 <= l /\ \A m \in 1 .. k : i + m - 1 = o + m
    BY <1>0, <2>2
  <2> HIDE DEF i
  <2>4. \A m \in 1 .. k : s[i + m - 1] = part[m]
    BY <2>2, <2>3
  <2>5. IsAt(s, part, i)
    BY <1>1, <2>3, <2>4
  <2> QED
    BY <2>3, <2>5 DEF Holds, l
<1> QED
  BY <1>2, <1>3

(* What a text has, and has not, it has and has not behind another one     *)
(* without brackets.                                                       *)
LEMMA Behind ==
  ASSUME NEW w \in Seq(Symbols), NEW s \in Seq(Symbols)
  PROVE  /\ w \o s \in Seq(Symbols)
         /\ \A p : Has(s, p) /\ Len(p) \in Nat => Has(w \o s, p)
         /\ Bare(s) /\ (\A i \in 1 .. Len(w) : w[i] # "[") => Bare(w \o s)
<1> DEFINE v == w \o s
           l == Len(w)
           n == Len(s)
<1>1. /\ v \in Seq(Symbols) /\ l \in Nat /\ n \in Nat /\ Len(v) = l + n
      /\ \A i \in 1 .. l : v[i] = w[i]
      /\ \A i \in 1 .. n : v[l + i] = s[i]
  <2>1. v \in Seq(Symbols) /\ l \in Nat /\ n \in Nat /\ Len(v) = l + n
    BY ConcatProperties, LenProperties
  <2>2. \A i \in 1 .. l + n : v[i] = IF i <= l THEN w[i] ELSE s[i - l]
    BY ConcatProperties
  <2> HIDE DEF v, l, n
  <2>3. \A i \in 1 .. l : i \in 1 .. l + n /\ i <= l
    BY <2>1
  <2>4. \A i \in 1 .. n : l + i \in 1 .. l + n /\ ~(l + i <= l) /\ (l + i) - l = i
    BY <2>1
  <2>5. \A i \in 1 .. l : v[i] = w[i]
    BY <2>2, <2>3
  <2>6. \A i \in 1 .. n : v[l + i] = s[i]
    <3> TAKE i \in 1 .. n
    <3>1. v[l + i] = s[(l + i) - l]
      BY <2>2, <2>4
    <3> QED
      BY <2>4, <3>1
  <2> QED
    BY <2>1, <2>5, <2>6
<1> HIDE DEF v, l, n
<1>2. ASSUME NEW p, Has(s, p), Len(p) \in Nat
      PROVE  Has(v, p)
  <2> DEFINE k == Len(p)
  <2>1. PICK o : PartAt(s, p, o)
    BY <1>2 DEF Has
  <2>2. o \in 0 .. n - k /\ k \in Nat /\ \A m \in 1 .. k : s[o + m] = p[m]
    BY <1>2, <2>1 DEF PartAt, n
  <2> HIDE DEF k
  <2> DEFINE q == l + o
  <2>3. q \in 0 .. Len(v) - k /\ \A m \in 1 .. k : o + m \in 1 .. n /\ q + m = l + (o + m)
    BY <1>1, <2>2
  <2> HIDE DEF q
  <2>4. \A m \in 1 .. k : v[q + m] = p[m]
    BY <1>1, <2>2, <2>3
  <2>5. PartAt(v, p, q)
    BY <2>3, <2>4 DEF PartAt, k
  <2> QED
    BY <2>3, <2>5 DEF Has, k
<1>3. ASSUME Bare(s), \A i \in 1 .. l : w[i] # "["
      PROVE  Bare(v)
  <2> SUFFICES ASSUME NEW i \in 1 .. Len(v), v[i] = "[", i < Len(v)
               PROVE  v[i + 1] \notin {"]", "space"}
    BY DEF Bare
  <2> DEFINE j == i - l
  <2>1. i > l
    <3>1. i <= l => i \in 1 .. l
      BY <1>1
    <3>2. i <= l => v[i] = w[i] /\ w[i] # "["
      BY <1>1, <1>3, <3>1
    <3> QED
      BY <1>1, <3>2
  <2>2. j \in 1 .. n /\ j < n /\ j + 1 \in 1 .. n /\ i = l + j /\ i + 1 = l + (j + 1)
    BY <1>1, <2>1
  <2> HIDE DEF j
  <2>3. s[j] = "[" /\ v[i + 1] = s[j + 1]
    BY <1>1, <2>2
  <2> QED
    BY <1>3, <2>2, <2>3 DEF Bare, n
<1> QED
  BY <1>1, <1>2, <1>3 DEF v, l, n

LEMMA WithoutBracketKeeps ==
  ASSUME NEW s \in Seq(Symbols), Bare(s), NEW p \in PlainNames
  PROVE  /\ WithoutBracket(s) \in Seq(Symbols) /\ Bare(WithoutBracket(s))
         /\ Has(s, p) => Has(<<"[">> \o WithoutBracket(s), p)
<1>0. "[" \in Symbols /\ <<"[">> \in Seq(Symbols) /\ Len(p) \in Nat
  BY BracketsMean, OneSymbol, NameMeans
<1> DEFINE n == Len(s)
           v == Tail(s)
<1>1. CASE IsAt(s, <<"[">>, 1)
  <2>1. n \in Nat
    BY LenProperties
  <2>2. 1 \in 1 .. n /\ s[1] = "["
    <3>1. 1 <= n
      <4>1. Len(<<"[">>) = 1 /\ 1 + Len(<<"[">>) - 1 <= Len(s)
        BY <1>1 DEF IsAt
      <4> QED
        BY <2>1, <4>1
    <3>2. 1 \in 1 .. n
      BY <2>1, <3>1
    <3> QED
      BY <1>0, <1>1, <3>2, Single
  <2>3. s # <<>>
    BY <2>1, <2>2, EmptySeq
  <2>4. v \in Seq(Symbols) /\ Len(v) = n - 1 /\ \A i \in 1 .. n - 1 : v[i] = s[i + 1]
    BY <2>3, HeadTailProperties
  <2>5. WithoutBracket(s) = v
    BY <1>1 DEF WithoutBracket
  <2>6. <<"[">> \o v = s
    <3>1. Head(s) = s[1]
      OBVIOUS
    <3>2. <<Head(s)>> \o Tail(s) = s
      BY <2>3, HeadTailProperties
    <3> QED
      BY <2>2, <3>1, <3>2
  <2> HIDE DEF v, n
  <2>7. Bare(v)
    <3> SUFFICES ASSUME NEW i \in 1 .. Len(v), v[i] = "[", i < Len(v)
                 PROVE  v[i + 1] \notin {"]", "space"}
      BY DEF Bare
    <3> DEFINE j == i + 1
    <3>1. /\ i \in 1 .. n - 1 /\ j \in 1 .. n - 1 /\ j \in 1 .. n /\ j < n
      BY <2>1, <2>4
    <3>2. s[j] = "[" /\ v[j] = s[j + 1]
      BY <2>4, <3>1
    <3> HIDE DEF j
    <3>3. v[j] \notin {"]", "space"}
      BY <3>1, <3>2 DEF Bare, n
    <3> QED
      BY <3>3 DEF j
  <2> QED
    BY <2>4, <2>5, <2>6, <2>7
<1>2. CASE ~IsAt(s, <<"[">>, 1)
  <2>1. WithoutBracket(s) = s
    BY <1>2 DEF WithoutBracket
  <2>2. Has(s, p) => Has(<<"[">> \o s, p)
    BY <1>0, Behind
  <2> QED
    BY <2>1, <2>2
<1> QED
  BY <1>1, <1>2

LEMMA NameStands ==
  ASSUME NEW p \in PlainNames
  PROVE  Bare(p) /\ Has(p, p)
<1> DEFINE l == Len(p)
<1>0. /\ p \in Seq(Symbols) /\ p # <<>> /\ l \in {1, 3}
      /\ l = 1 => p[1] = "n"
      /\ l = 3 => \/ p[1] = "[" /\ p[2] = "n" /\ p[3] = "]"
                  \/ p[1] = "n" /\ p[2] = "space" /\ p[3] = "n"
  BY NameMeans
<1> HIDE DEF l
<1>1. \A i \in 1 .. l : i = 1 \/ i = 2 \/ i = 3
  BY <1>0, OneOrThree
<1>2. \A i \in 1 .. l : p[i] = "[" => i = 1 /\ p[2] = "n"
  BY <1>0, <1>1, OneOrThree
<1>3. Bare(p)
  BY <1>2 DEF Bare, l
<1>4. 0 \in 0 .. l - l /\ \A m \in 1 .. l : 0 + m = m
  BY <1>0
<1>5. PartAt(p, p, 0)
  BY <1>4 DEF PartAt, l
<1>6. Has(p, p)
  BY <1>4, <1>5 DEF Has, l
<1> QED
  BY <1>3, <1>6

(* Without a template: the name, behind the prefix if there is one.        *)
LEMMA UnformattedKeeps ==
  ASSUME NEW x \in Prefixes, NEW p \in PlainNames
  PROVE  /\ Unformatted(x, p) \in Seq(Symbols) /\ Bare(Unformatted(x, p))
         /\ Has(Unformatted(x, p), p)
<1> DEFINE gap == IF x # <<>> /\ p # <<>> THEN <<"space">> ELSE <<>>
           w   == x \o gap
<1>0. p \in Seq(Symbols) /\ Len(p) \in Nat /\ Bare(p) /\ Has(p, p)
  BY NameMeans, NameStands
<1>1. Unformatted(x, p) = w \o p
  BY DEF Unformatted
<1>2. w \in Seq(Symbols) /\ \A i \in 1 .. Len(w) : w[i] # "["
  <2>0. p # <<>>
    BY NameMeans
  <2>1. CASE x = <<>>
    <3>1. w = <<>>
      BY <2>1
    <3> QED
      BY <3>1, EmptySeq
  <2>2. CASE x = <<"p">>
    <3> DEFINE v == <<"space">>
    <3>1. w = x \o v
      BY <2>0, <2>2
    <3>2. "p" \in Symbols /\ "space" \in Symbols
      BY BracketsMean DEF Symbols
    <3>3. x \in Seq(Symbols) /\ Len(x) = 1 /\ x[1] = "p"
      BY <2>2, <3>2
    <3>4. v \in Seq(Symbols) /\ Len(v) = 1 /\ v[1] = "space"
      BY <3>2
    <3> HIDE DEF v, w
    <3>5. /\ x \o v \in Seq(Symbols) /\ Len(x \o v) = Len(x) + Len(v)
          /\ \A i \in 1 .. Len(x) + Len(v) :
               (x \o v)[i] = IF i <= Len(x) THEN x[i] ELSE v[i - Len(x)]
      BY <3>3, <3>4, ConcatProperties
    <3>6. w \in Seq(Symbols) /\ Len(w) = 2
          /\ \A i \in 1 .. 2 : w[i] = IF i <= 1 THEN x[i] ELSE v[i - 1]
      BY <3>1, <3>3, <3>4, <3>5
    <3>7. \A i \in 1 .. 2 : i = 1 \/ (i = 2 /\ ~(i <= 1) /\ i - 1 = 1)
      OBVIOUS
    <3> QED
      BY <3>3, <3>4, <3>6, <3>7
  <2> QED
    BY <2>1, <2>2 DEF Prefixes
<1> HIDE DEF w
<1> QED
  BY <1>0, <1>1, <1>2, Behind

(* Whoever is shown, the sender is not empty.                              *)
LEMMA SenderStands ==
  ASSUME NEW t, NEW x \in Prefixes, NEW g, NEW p \in Names, NEW m
  PROVE  ApplyChatFormat(t, x, g, p, m).sender # <<>>
<1> DEFINE s == ApplyChatFormat(t, x, g, p, m).sender
<1>1. p # <<>> /\ OrUnknown(p) # <<>>
  BY DEF Names, OrUnknown
<1>2. CASE t = <<>>
  <2>1. s = OrUnknown(Unformatted(x, p))
    BY <1>2 DEF ApplyChatFormat
  <2>2. <<"Unknown">> # <<>>
    OBVIOUS
  <2> DEFINE u == Unformatted(x, p)
  <2> HIDE DEF s, u
  <2>3. OrUnknown(u) # <<>>
    BY <2>2 DEF OrUnknown
  <2> QED
    BY <2>1, <2>3 DEF s, u
<1>3. CASE t # <<>>
  <2> DEFINE cut == WithoutBracket(CleanSender(SenderPart(t), x, g, p))
  <2>1. s = IF cut = <<>> THEN OrUnknown(p) ELSE cut
    BY <1>3 DEF ApplyChatFormat
  <2> HIDE DEF cut, s
  <2>2. s # <<>>
    BY <1>1, <2>1
  <2> QED
    BY <2>2 DEF s
<1> QED
  BY <1>2, <1>3

LEMMA SenderKeeps ==
  ASSUME NEW t \in Templates, NEW x \in Prefixes, NEW g \in Guilds, NEW p \in PlainNames, NEW m
  PROVE  LET sender == ApplyChatFormat(t, x, g, p, m).sender
         IN  /\ sender \in Seq(Symbols) /\ sender # <<>> /\ Bare(sender)
             /\ t = <<>> \/ Has(Before(t), <<PlayerMark>>) => Has(<<"[">> \o sender, p)
<1> DEFINE s == ApplyChatFormat(t, x, g, p, m).sender
<1>0. /\ p \in Seq(Symbols) /\ p # <<>> /\ Len(p) \in Nat /\ Bare(p) /\ Has(p, p)
      /\ <<"[">> \in Seq(Symbols)
  BY NameMeans, NameStands, BracketsMean, OneSymbol
<1>1. CASE t = <<>>
  <2> DEFINE u == Unformatted(x, p)
  <2>1. u \in Seq(Symbols) /\ Bare(u) /\ Has(u, p)
    BY UnformattedKeeps
  <2>2. u # <<>>
    <3>1. Len(u) \in Nat /\ Len(p) \in Nat \ {0} /\ Len(p) <= Len(u)
      <4>1. Len(u) \in Nat /\ Len(p) \in Nat /\ Len(p) # 0
        BY <1>0, <2>1, LenProperties, EmptySeq
      <4>2. \E o \in 0 .. Len(u) - Len(p) : TRUE
        BY <2>1 DEF Has
      <4> HIDE DEF u
      <4> QED
        BY <4>1, <4>2
    <3> QED
      BY <3>1, EmptySeq
  <2>3. s = u
    BY <1>1, <2>2 DEF ApplyChatFormat, OrUnknown
  <2> HIDE DEF s, u
  <2>4. Has(<<"[">> \o u, p)
    BY <1>0, <2>1, Behind
  <2> QED
    BY <2>1, <2>2, <2>3, <2>4 DEF s
<1>2. CASE t # <<>>
  <2> DEFINE part  == SenderPart(t)
             clean == CleanSender(part, x, g, p)
             cut   == WithoutBracket(clean)
  <2>1. Fit(t)
    BY Zenon, <1>2, TemplatesFit
  <2>2. /\ part \in Seq(Symbols) /\ Ready(part)
        /\ Has(Before(t), <<PlayerMark>>) => Has(part, <<PlayerMark>>)
    BY <2>1, SenderPartFits
  <2>3. s = IF cut = <<>> THEN OrUnknown(p) ELSE cut
    BY <1>2 DEF ApplyChatFormat
  <2> HIDE DEF part
  <2>4. /\ clean \in Seq(Symbols) /\ Bare(clean)
        /\ Has(part, <<PlayerMark>>) => Has(clean, p)
    BY Zenon, <2>2, CleanSenderKeeps DEF PlayerMark
  <2> HIDE DEF clean
  <2>5. /\ cut \in Seq(Symbols) /\ Bare(cut)
        /\ Has(clean, p) => Has(<<"[">> \o cut, p)
    BY <2>4, WithoutBracketKeeps
  <2> HIDE DEF cut, s
  <2>6. CASE cut = <<>>
    <3>1. s = p
      BY <1>0, <2>3, <2>6 DEF OrUnknown
    <3>2. Has(<<"[">> \o p, p)
      BY <1>0, Behind
    <3> QED
      BY <1>0, <3>1, <3>2 DEF s
  <2>7. CASE cut # <<>>
    <3>1. s = cut
      BY <2>3, <2>7
    <3> QED
      BY <1>2, <2>2, <2>4, <2>5, <2>7, <3>1 DEF s
  <2> QED
    BY <2>6, <2>7
<1> QED
  BY <1>1, <1>2

(* A sender in which no bracket is opened in vain has no empty pair.       *)
LEMMA BareHolds ==
  ASSUME NEW s \in Seq(Symbols), Bare(s)
  PROVE  ~Holds(s, <<"[", "]">>) /\ ~Holds(s, <<"[", "space", "]">>)
<1>0. Len(s) \in Nat
  BY LenProperties
<1>1. ASSUME NEW from \in Empties, from[1] = "[", from[2] \in {"]", "space"},
             NEW i \in 1 .. Len(s), IsAt(s, from, i)
      PROVE  FALSE
  <2>1. i \in Nat \ {0}
    BY <1>0
  <2>2. /\ Len(from) \in {2, 3} /\ i + Len(from) - 1 <= Len(s)
        /\ s[i] = from[1] /\ s[i + 1] = from[2]
    BY <1>1, <2>1, EmptiesAt
  <2> DEFINE l == Len(from)
             n == Len(s)
  <2>3. n \in Nat /\ (l = 2 \/ l = 3) /\ i + l - 1 <= n /\ i \in Nat
    BY <1>0, <2>1, <2>2
  <2> HIDE DEF l, n
  <2>4. i < n
    BY <2>3
  <2> QED
    BY <1>1, <2>2, <2>4 DEF Bare, n
<1>2. <<"[", "]">> \in Empties /\ <<"[", "space", "]">> \in Empties
  BY DEF Empties
<1>3. ~Holds(s, <<"[", "]">>)
  <2> DEFINE from == <<"[", "]">>
  <2>1. from \in Empties /\ from[1] = "[" /\ from[2] = "]"
    BY <1>2
  <2> HIDE DEF from
  <2>2. ~Holds(s, from)
    BY <1>1, <2>1 DEF Holds
  <2> QED
    BY <2>2 DEF from
<1>4. ~Holds(s, <<"[", "space", "]">>)
  <2> DEFINE from == <<"[", "space", "]">>
  <2>1. from \in Empties /\ from[1] = "[" /\ from[2] = "space"
    BY <1>2
  <2> HIDE DEF from
  <2>2. ~Holds(s, from)
    BY <1>1, <2>1 DEF Holds
  <2> QED
    BY <2>2 DEF from
<1> QED
  BY <1>3, <1>4

LEMMA TextKeeps ==
  ASSUME NEW t, NEW x, NEW g, NEW p, NEW m
  PROVE  ApplyChatFormat(t, x, g, p, m).text \in {m, <<"space">> \o m}
  BY DEF ApplyChatFormat, MessagePart

-----------------------------------------------------------------------------
(* The line that is shown                                                  *)

(* It is one that ApplyChatFormat has made of the text.                    *)
LineInv ==
  stage = "shown" =>
    \E t \in Templates, x \in Prefixes, g \in Guilds, p \in Names :
      LET shown == ApplyChatFormat(t, x, g, p, text)
      IN  line = [template |-> t, guild |-> g, player |-> p,
                  sender |-> shown.sender, text |-> shown.text]

LEMMA LineIsInvariant == Spec => []LineInv
<1>1. Init => LineInv
  BY DEF Init, LineInv
<1>2. LineInv /\ [Next]_vars => LineInv'
  <2> SUFFICES ASSUME LineInv, [Next]_vars PROVE LineInv'
    OBVIOUS
  <2>1. CASE Capture
    BY <2>1 DEF Capture, LineInv
  <2>2. CASE Post \/ Fetch
    BY <2>2 DEF Post, Fetch, LineInv
  <2>3. ASSUME NEW t \in Templates, NEW x \in Prefixes, NEW g \in Guilds, NEW p \in Names,
               Show(t, x, g, p)
        PROVE  LineInv'
    <3>1. CASE text' = <<>>
      BY <2>3, <3>1 DEF Show, LineInv
    <3>2. CASE text' # <<>>
      <4>1. LET shown == ApplyChatFormat(t, x, g, p, text')
            IN  line' = [template |-> t, guild |-> g, player |-> p,
                         sender |-> shown.sender, text |-> shown.text]
        BY <2>3, <3>2 DEF Show
      <4> QED
        BY <4>1 DEF LineInv
    <3> QED
      BY <3>1, <3>2
  <2>4. CASE UNCHANGED vars
    BY <2>4 DEF vars, LineInv
  <2> QED
    BY <2>1, <2>2, <2>3, <2>4 DEF Next
<1> QED
  BY <1>1, <1>2, PTL DEF Spec

(* A name that the cleanup leaves alone is one of those for which it has   *)
(* been shown.                                                             *)
LEMMA PlainMeans ==
  ASSUME NEW p \in Names, Plain(p)
  PROVE  p \in PlainNames
<1>0. {"[", "n", "]", "space"} \subseteq Symbols
  BY DEF Symbols
<1>1. ASSUME NEW name \in Seq(Symbols), NEW part \in Seq(Symbols), Len(part) = 2,
             3 <= Len(name), name[2] = part[1], name[3] = part[2]
      PROVE  Holds(name, part)
  <2>1. Len(name) \in Nat /\ 2 \in Nat \ {0} /\ 2 \in 1 .. Len(name)
    BY <1>1, LenProperties
  <2>2. \A m \in 1 .. Len(part) : name[2 + m - 1] = part[m]
    <3>1. \A m \in 1 .. Len(part) : (m = 1 /\ 2 + m - 1 = 2) \/ (m = 2 /\ 2 + m - 1 = 3)
      BY <1>1
    <3> QED
      BY <1>1, <3>1
  <2>3. 2 + Len(part) - 1 <= Len(name)
    BY <1>1
  <2>4. IsAt(name, part, 2)
    BY <2>1, <2>2, <2>3, IsAtMeans
  <2> QED
    BY <2>1, <2>4 DEF Holds
<1>2. p # <<"n", "[", "]">>
  <2> DEFINE name == <<"n", "[", "]">>
             part == <<"[", "]">>
  <2>1. name \in Seq(Symbols) /\ Len(name) = 3 /\ name[2] = "[" /\ name[3] = "]"
    BY <1>0
  <2>2. part \in Seq(Symbols) /\ Len(part) = 2 /\ part[1] = "[" /\ part[2] = "]"
    BY <1>0
  <2>3. Plain(name) => ~Holds(name, part)
    BY DEF Plain
  <2> HIDE DEF name, part
  <2>4. 3 <= Len(name) /\ name[2] = part[1] /\ name[3] = part[2]
    BY <2>1, <2>2
  <2>5. Holds(name, part)
    BY Zenon, <1>1, <2>1, <2>2, <2>4
  <2> QED
    BY <2>3, <2>5 DEF name
<1>3. p # <<"n", "space", "space", "n">>
  <2> DEFINE name == <<"n", "space", "space", "n">>
             part == <<"space", "space">>
  <2>1. name \in Seq(Symbols) /\ Len(name) = 4 /\ name[2] = "space" /\ name[3] = "space"
    BY <1>0
  <2>2. part \in Seq(Symbols) /\ Len(part) = 2 /\ part[1] = "space" /\ part[2] = "space"
    BY <1>0
  <2>3. Plain(name) => ~Holds(name, part)
    BY DEF Plain
  <2> HIDE DEF name, part
  <2>4. 3 <= Len(name) /\ name[2] = part[1] /\ name[3] = part[2]
    BY <2>1, <2>2
  <2>5. Holds(name, part)
    BY Zenon, <1>1, <2>1, <2>2, <2>4
  <2> QED
    BY <2>3, <2>5 DEF name
<1> QED
  BY Zenon, <1>2, <1>3 DEF Names, PlainNames

(* ShownLineIsWhole: for every text, every template, prefix, guild and     *)
(* player of the model, ApplyChatFormat gives the message whole, and a     *)
(* sender that is not empty; and, for a name it leaves alone, one that names *)
(* him where the template does so before {message}, and has no empty       *)
(* brackets, whatever the four replacements of CleanupEmptyGuildBrackets   *)
(* meet.                                                                   *)
THEOREM ShownLineCorrect == Spec => []ShownLineIsWhole
<1>1. LineInv => ShownLineIsWhole
  <2> SUFFICES ASSUME LineInv, stage = "shown"
               PROVE  /\ line.text \in {text, <<"space">> \o text}
                      /\ line.sender # <<>>
                      /\ Plain(line.player) =>
                           /\ line.template = <<>> \/ Holds(Before(line.template), <<"{player}">>)
                                => Holds(<<"[">> \o line.sender, line.player)
                           /\ line.guild = <<>> => ~Holds(line.sender, <<"[", "]">>)
                                                   /\ ~Holds(line.sender, <<"[", "space", "]">>)
    BY Zenon DEF ShownLineIsWhole
  <2>1. PICK t \in Templates, x \in Prefixes, g \in Guilds, p \in Names :
          LET shown == ApplyChatFormat(t, x, g, p, text)
          IN  line = [template |-> t, guild |-> g, player |-> p,
                      sender |-> shown.sender, text |-> shown.text]
    BY DEF LineInv
  <2> DEFINE s == ApplyChatFormat(t, x, g, p, text).sender
             m == ApplyChatFormat(t, x, g, p, text).text
  <2>2. line.template = t /\ line.guild = g /\ line.player = p /\ line.sender = s /\ line.text = m
    BY <2>1
  <2>3. m \in {text, <<"space">> \o text}
    BY TextKeeps
  <2>4. s # <<>>
    BY SenderStands
  <2>5. ASSUME Plain(p)
        PROVE  /\ t = <<>> \/ Holds(Before(t), <<"{player}">>) => Holds(<<"[">> \o s, p)
               /\ ~Holds(s, <<"[", "]">>) /\ ~Holds(s, <<"[", "space", "]">>)
    <3>1. p \in PlainNames
      BY <2>5, PlainMeans
    <3>2. /\ s \in Seq(Symbols) /\ s # <<>> /\ Bare(s)
          /\ t = <<>> \/ Has(Before(t), <<PlayerMark>>) => Has(<<"[">> \o s, p)
      BY <3>1, SenderKeeps
    <3> HIDE DEF s
    <3>3. ~Holds(s, <<"[", "]">>) /\ ~Holds(s, <<"[", "space", "]">>)
      BY <3>2, BareHolds
    <3>4. Holds(Before(t), <<"{player}">>) => t = <<>> \/ Has(Before(t), <<PlayerMark>>)
      <4>1. <<PlayerMark>> \in Seq(Symbols) /\ <<PlayerMark>> # <<>>
        <5>1. PlayerMark \in Symbols
          BY Zenon, PlaceholdersMean DEF Placeholders, PlayerMark
        <5> QED
          BY <5>1, OneSymbol
      <4>2. t # <<>> => Before(t) \in Seq(Symbols)
        BY Zenon, TemplatesFit, BeforeFits DEF Fit
      <4>3. Holds(Before(t), <<PlayerMark>>) => t = <<>> \/ Has(Before(t), <<PlayerMark>>)
        BY Zenon, <4>1, <4>2, HasHolds
      <4> QED
        BY Zenon, <4>3 DEF PlayerMark
    <3>5. <<"[">> \o s \in Seq(Symbols) /\ p \in Seq(Symbols) /\ p # <<>>
      <4>1. <<"[">> \in Seq(Symbols)
        BY BracketsMean, OneSymbol
      <4>2. p \in Seq(Symbols) /\ p # <<>>
        BY <3>1, NameMeans
      <4>3. <<"[">> \o s \in Seq(Symbols)
        BY <3>2, <4>1, Behind
      <4> QED
        BY <4>2, <4>3
    <3>6. Has(<<"[">> \o s, p) => Holds(<<"[">> \o s, p)
      BY Zenon, <3>5, HasHolds
    <3> QED
      BY Zenon, <3>2, <3>3, <3>4, <3>6
  <2> HIDE DEF s, m
  <2>6. ASSUME Plain(line.player)
        PROVE  /\ line.template = <<>> \/ Holds(Before(line.template), <<"{player}">>)
                    => Holds(<<"[">> \o line.sender, line.player)
               /\ line.guild = <<>> => ~Holds(line.sender, <<"[", "]">>)
                                       /\ ~Holds(line.sender, <<"[", "space", "]">>)
    <3>1. Plain(p)
      BY Zenon, <2>2, <2>6
    <3>2. t = <<>> \/ Holds(Before(t), <<"{player}">>) => Holds(<<"[">> \o s, p)
      BY Zenon, <2>5, <3>1
    <3>3. ~Holds(s, <<"[", "]">>) /\ ~Holds(s, <<"[", "space", "]">>)
      BY Zenon, <2>5, <3>1
    <3> QED
      BY Zenon, <2>2, <3>2, <3>3
  <2>7. line.text \in {text, <<"space">> \o text} /\ line.sender # <<>>
    BY Zenon, <2>2, <2>3, <2>4
  <2> QED
    BY Zenon, <2>6, <2>7
<1> QED
  BY <1>1, LineIsInvariant, PTL
=============================================================================
