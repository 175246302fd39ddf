--------------------------- MODULE ChatInjectProofs ---------------------------
(***************************************************************************)
(* Proofs about ChatInject, for any players, any number of PlayerStates    *)
(* and messages, queues of any size and any number of faults.  The first   *)
(* part is about what ChatInject is built on: theorems about PlatformId,   *)
(* for every text, and lemmas about the roster of Audience, one for each   *)
(* function of the tracker.                                                *)
(***************************************************************************)
EXTENDS ChatInject, BoundedQueueProofs

Character == {Space, "x"} \cup Digits \cup Known \cup Steam

-----------------------------------------------------------------------------
(* White space                                                             *)

(* What is trimmed begins and ends with ink.                               *)
Inky(s) == s # <<>> /\ s[1] # Space /\ s[Len(s)] # Space

LEMMA TrimmedType ==
  ASSUME NEW raw \in Text
  PROVE  Trimmed(raw) \in Text /\ (Trimmed(raw) = <<>> \/ Inky(Trimmed(raw)))
<1>0. raw \in Seq(Character) /\ Len(raw) \in Nat
  BY LenProperties DEF Text, Character
<1>1. CASE Ink(raw) = {}
  BY <1>1, EmptySeq DEF Trimmed, Text
<1>2. CASE Ink(raw) # {}
  <2> DEFINE first == CHOOSE i \in Ink(raw) : \A j \in Ink(raw) : i <= j
             last  == CHOOSE i \in Ink(raw) : \A j \in Ink(raw) : j <= i
             s     == SubSeq(raw, first, last)
  <2>1. Ink(raw) \in SUBSET Nat /\ Ink(raw) \in SUBSET (0 .. Len(raw))
    BY <1>0 DEF Ink
  <2>2. first \in Ink(raw) /\ \A j \in Ink(raw) : first <= j
    BY <1>2, <2>1, Smallest
  <2>3. last \in Ink(raw) /\ \A j \in Ink(raw) : j <= last
    BY <1>0, <1>2, <2>1, Largest
  <2>4. Trimmed(raw) = s
    BY <1>2 DEF Trimmed
  <2> HIDE DEF first, last
  <2>5. /\ first \in 1 .. Len(raw) /\ last \in 1 .. Len(raw) /\ first <= last
        /\ raw[first] # Space /\ raw[last] # Space
    BY <2>2, <2>3 DEF Ink
  <2>6. /\ s \in Seq(Character) /\ Len(s) = last - first + 1
        /\ \A i \in 1 .. last - first + 1 : s[i] = raw[first + i - 1]
    <3>1. \A i \in first .. last : raw[i] \in Character
      BY <1>0, <2>5, ElementOfSeq
    <3> QED
      BY <2>5, <3>1, SubSeqProperties
  <2> HIDE DEF s
  <2>7. Inky(s)
    <3>1. s[1] = raw[first] /\ s[Len(s)] = raw[last] /\ Len(s) # 0
      BY <2>5, <2>6
    <3> QED
      BY <2>5, <3>1, EmptySeq DEF Inky
  <2> QED
    BY <2>4, <2>6, <2>7 DEF Text, Character
<1> QED
  BY <1>1, <1>2

LEMMA TrimmedAgain ==
  ASSUME NEW s \in Text, Inky(s)
  PROVE  Trimmed(s) = s
<1>1. Len(s) \in Nat \ {0} /\ s \in Seq(Character)
  BY LenProperties, EmptySeq DEF Inky, Text, Character
<1>2. 1 \in Ink(s) /\ Len(s) \in Ink(s) /\ \A i \in Ink(s) : i \in 1 .. Len(s)
  BY <1>1 DEF Ink, Inky
<1>3. (CHOOSE i \in Ink(s) : \A j \in Ink(s) : i <= j) = 1
  BY <1>1, <1>2
<1>4. (CHOOSE i \in Ink(s) : \A j \in Ink(s) : j <= i) = Len(s)
  BY <1>1, <1>2
<1>5. Trimmed(s) = SubSeq(s, 1, Len(s))
  BY <1>2, <1>3, <1>4 DEF Trimmed
<1> QED
  BY <1>1, <1>5, SubSeqFull

-----------------------------------------------------------------------------
(* Ids                                                                     *)

(* The form of every id.                                                   *)
IsId(id) == id \in Text /\ Inky(id) /\ id[1] \in Known

LEMMA SteamId ==
  ASSUME NEW s \in Text, IsDigits(s), NEW word \in Known \cup Steam
  PROVE  LET t == <<word>> \o s
         IN  t \in Text /\ Inky(t) /\ t[1] = word /\ Tail(t) = s /\ Len(t) = Len(s) + 1
<1> DEFINE t == <<word>> \o s
           w == <<word>>
<1>1. s \in Seq(Character) /\ Len(s) \in Nat /\ Len(s) # 0
  BY LenProperties, EmptySeq DEF Text, Character, IsDigits
<1>2. w \in Seq(Character) /\ Len(w) = 1 /\ w[1] = word
  BY DEF Character
<1> HIDE DEF w
<1>3. /\ t \in Seq(Character) /\ Len(t) = Len(s) + 1
      /\ t[1] = word /\ \A i \in 1 .. Len(s) : t[i + 1] = s[i]
  <2>1. /\ w \o s \in Seq(Character) /\ Len(w \o s) = Len(w) + Len(s)
        /\ \A i \in 1 .. Len(w) + Len(s) :
             (w \o s)[i] = IF i <= Len(w) THEN w[i] ELSE s[i - Len(w)]
    BY <1>1, <1>2, ConcatProperties
  <2>2. t = w \o s
    BY DEF w
  <2> HIDE DEF t
  <2>3. \A i \in 1 .. Len(s) : i + 1 \in 1 .. Len(w) + Len(s) /\ ~(i + 1 <= Len(w))
                              /\ i + 1 - Len(w) = i
    BY <1>1, <1>2
  <2>4. 1 \in 1 .. Len(w) + Len(s)
    BY <1>1, <1>2
  <2> QED
    BY <1>2, <2>1, <2>2, <2>3, <2>4
<1> HIDE DEF t
<1>4. t # <<>> /\ Tail(t) \in Seq(Character) /\ Len(Tail(t)) = Len(s)
      /\ \A i \in 1 .. Len(s) : Tail(t)[i] = t[i + 1]
  BY <1>1, <1>3, EmptySeq, HeadTailProperties
<1>5. Tail(t) = s
  BY <1>1, <1>3, <1>4, SeqEqual
<1>6. Inky(t)
  <2>1. t[Len(t)] = s[Len(s)]
    BY <1>1, <1>3
  <2>2. s[Len(s)] \in Digits
    BY <1>1 DEF IsDigits
  <2> QED
    BY <1>3, <1>4, <2>1, <2>2 DEF Inky, Space, Digits, Known, Steam
<1> QED
  BY <1>3, <1>5, <1>6 DEF t, Text, Character

(* A text without a usable id becomes the empty one, any other an id.      *)
LEMMA NormalizedType ==
  ASSUME NEW raw \in Text
  PROVE  \/ NormalizePlatformUserId(raw) = <<>>
         \/ IsId(NormalizePlatformUserId(raw))
<1> DEFINE s  == Trimmed(raw)
           id == NormalizePlatformUserId(raw)
<1>1. s \in Text /\ (s = <<>> \/ Inky(s))
  BY TrimmedType
<1>2. id = IF s # <<>> /\ s[1] \in Known THEN s
           ELSE IF s # <<>> /\ s[1] \in Steam /\ IsDigits(Tail(s)) THEN <<"steam_">> \o Tail(s)
           ELSE IF IsDigits(s) /\ Len(s) >= 15 THEN <<"steam_">> \o s
           ELSE <<>>
  BY DEF NormalizePlatformUserId
<1> HIDE DEF s, id
<1>3. s # <<>> => Tail(s) \in Text
  BY <1>1, HeadTailProperties DEF Text
<1>4. "steam_" \in Known
  BY DEF Known
<1>5. ASSUME NEW t \in Text, IsDigits(t)
      PROVE  IsId(<<"steam_">> \o t)
  BY <1>4, <1>5, SteamId DEF IsId
<1>6. id = <<>> \/ IsId(id)
  BY <1>1, <1>2, <1>3, <1>5 DEF IsId
<1> QED
  BY <1>6 DEF id

(* An id that goes through the normalisation again, as every platform does *)
(* in Upsert that HandleHook or ReadJoinIdentityImpl has normalised, stays *)
(* what it is.                                                             *)
THEOREM NormalizedTwice ==
  ASSUME NEW raw \in Text
  PROVE  NormalizePlatformUserId(NormalizePlatformUserId(raw)) = NormalizePlatformUserId(raw)
<1> DEFINE id == NormalizePlatformUserId(raw)
<1>1. id = <<>> \/ IsId(id)
  BY NormalizedType
<1> HIDE DEF id
<1>2. CASE IsId(id)
  <2>1. Trimmed(id) = id
    BY <1>2, TrimmedAgain DEF IsId
  <2> QED
    BY <1>2, <2>1 DEF IsId, Inky, NormalizePlatformUserId, id
<1>3. CASE id = <<>>
  <2>1. Trimmed(id) = <<>>
    BY <1>3, EmptySeq DEF Trimmed, Ink
  <2> QED
    BY <1>3, <2>1 DEF NormalizePlatformUserId, IsDigits, id
<1> QED
  BY <1>1, <1>2, <1>3

(* A Steam account has one id, however the game spells it: digits alone,   *)
(* or after Steam:, steam: or steam_.                                      *)
THEOREM OneIdPerSteamAccount ==
  ASSUME NEW digits \in Text, IsDigits(digits), Len(digits) >= 15
  PROVE  /\ NormalizePlatformUserId(digits) = <<"steam_">> \o digits
         /\ \A word \in Steam \cup {"steam_"} :
              NormalizePlatformUserId(<<word>> \o digits) = <<"steam_">> \o digits
<1>1. Trimmed(digits) = digits /\ digits[1] \in Digits
  <2>1. Len(digits) \in Nat \ {0}
    BY LenProperties, EmptySeq DEF Text, IsDigits
  <2>2. digits[1] \in Digits /\ digits[Len(digits)] \in Digits
    BY <2>1 DEF IsDigits
  <2>3. Inky(digits)
    BY <2>2 DEF Inky, IsDigits, Digits, Space
  <2> QED
    BY <2>2, <2>3, TrimmedAgain
<1>2. NormalizePlatformUserId(digits) = <<"steam_">> \o digits
  BY <1>1 DEF NormalizePlatformUserId, Digits, Known, Steam
<1>3. ASSUME NEW word \in Steam \cup {"steam_"}
      PROVE  NormalizePlatformUserId(<<word>> \o digits) = <<"steam_">> \o digits
  <2> DEFINE t == <<word>> \o digits
  <2>1. word \in Known \cup Steam
    BY DEF Known
  <2>2. t \in Text /\ Inky(t) /\ t[1] = word /\ Tail(t) = digits
    BY <2>1, SteamId
  <2>t. word = "steam_" => t = <<"steam_">> \o digits
    OBVIOUS
  <2> HIDE DEF t
  <2>3. Trimmed(t) = t
    BY <2>2, TrimmedAgain
  <2>4. NormalizePlatformUserId(t) = <<"steam_">> \o digits
    <3>1. CASE word = "steam_"
      BY <2>2, <2>3, <2>t, <3>1 DEF NormalizePlatformUserId, Inky, Known
    <3>2. CASE word # "steam_"
      BY <2>2, <2>3, <3>2 DEF NormalizePlatformUserId, Inky, Known, Steam
    <3> QED
      BY <3>1, <3>2
  <2> QED
    BY <2>4 DEF t
<1> QED
  BY <1>2, <1>3

-----------------------------------------------------------------------------
(* The roster                                                              *)

Visit == [player : Players, live : BOOLEAN, uid : BOOLEAN, account : BOOLEAN]

(* Entries point to a PlayerState of their own player, and nobody is taken *)
(* for an Xbox player who is not one.                                      *)
Good(vs, r) ==
  /\ DOMAIN r \subseteq Players
  /\ \A p \in DOMAIN r :
       /\ r[p] \in [platform : Text, state : 1 .. Len(vs)]
       /\ vs[r[p].state].player = p
       /\ IsXboxPlatform(r[p].platform) => p \in Xbox

JoinsInv ==
  /\ DOMAIN joins \subseteq States
  /\ \A k \in DOMAIN joins : joins[k] \in Nat /\ joins[k] < MaxWait
  /\ bootstrapped \in BOOLEAN /\ givenUp \subseteq States

AudienceInv ==
  /\ visits \in Seq(Visit) /\ Good(visits, roster) /\ JoinsInv
  /\ xbox = XboxOf(roster) /\ others = OthersOf(roster)

LEMMA AudienceInvIsType == AudienceInv => AudienceTypeOK /\ ListsPartitionRoster
<1> SUFFICES ASSUME AudienceInv PROVE AudienceTypeOK /\ ListsPartitionRoster
  OBVIOUS
<1> USE DEF AudienceInv, Good, XboxOf, OthersOf, IsXbox, States
<1>1. AudienceTypeOK
  BY DEF AudienceTypeOK, JoinsInv, Visit
<1>2. ListsPartitionRoster
  BY DEF ListsPartitionRoster
<1> QED
  BY <1>1, <1>2

-----------------------------------------------------------------------------
(* Rosters                                                                 *)

(* The platform that is found for a PlayerState is its player's.           *)
IdOf(id, k) == id \in Text /\ (IsXboxPlatform(id) => visits[k].player \in Xbox)

LEMMA IdsOfPlayers ==
  ASSUME NEW p \in Players
  PROVE  \A id \in {AccountId[p], EitherId[p], BareId[p], <<>>} :
           id \in Text /\ (IsXboxPlatform(id) => p \in Xbox)
<1> DEFINE account == NormalizePlatformUserId(AccountName[p])
           net     == NormalizePlatformUserId(NetId[p])
           none    == NormalizePlatformUserId(<<>>)
<1>0. <<>> \in Text /\ ~IsXboxPlatform(<<>>)
  BY EmptySeq DEF Text, IsXboxPlatform
<1>1. account \in Text /\ net \in Text
  BY <1>0, PlatformAssumption, NormalizedType DEF IsId
<1>2. (IsXboxPlatform(account) => p \in Xbox) /\ (IsXboxPlatform(net) => p \in Xbox)
  BY PlatformAssumption
<1>3. none = <<>>
  BY EmptySeq DEF NormalizePlatformUserId, Trimmed, Ink, IsDigits
<1>4. /\ AccountId[p] = account
      /\ EitherId[p] = IF account # <<>> THEN account ELSE net
      /\ BareId[p] = IF none # <<>> THEN none ELSE net
  BY DEF AccountId, EitherId, BareId, ResolvePlatformUserId
<1> HIDE DEF account, net, none
<1> QED
  BY <1>0, <1>1, <1>2, <1>3, <1>4

LEMMA AccountType ==
  ASSUME visits \in Seq(Visit), NEW k \in States
  PROVE  visits[k] \in Visit /\ \A id \in LinkIds(k) : IdOf(id, k)
<1>1. visits[k] \in Visit
  BY ElementOfSeq DEF States
<1>2. visits[k].player \in Players
  BY <1>1 DEF Visit
<1> QED
  BY <1>1, <1>2, IdsOfPlayers DEF Account, LinkIds, IdOf

LEMMA UpsertedAsGood ==
  ASSUME visits \in Seq(Visit), NEW r, Good(visits, r), NEW ids,
         DOMAIN ids \subseteq States, \A k \in DOMAIN ids : IdOf(ids[k], k)
  PROVE  Good(visits, UpsertedAs(r, ids))
<1> DEFINE ks == DOMAIN ids
           u  == UpsertedAs(r, ids)
<1>1. DOMAIN u = DOMAIN r \cup {visits[k].player : k \in ks}
  BY DEF UpsertedAs
<1>2. DOMAIN u \subseteq Players
  <2>1. \A k \in States : visits[k].player \in Players
    BY AccountType DEF Visit
  <2>2. {visits[k].player : k \in ks} \subseteq Players
    BY <2>1
  <2> HIDE DEF u
  <2> QED
    BY <1>1, <2>2 DEF Good
<1>3. ASSUME NEW p \in DOMAIN u
      PROVE  /\ u[p] \in [platform : Text, state : 1 .. Len(visits)]
             /\ visits[u[p].state].player = p
             /\ IsXboxPlatform(u[p].platform) => p \in Xbox
  <2>1. CASE VisitIn(ks, p) = {}
    <3>1. p \notin {visits[k].player : k \in ks}
      BY <2>1 DEF VisitIn
    <3>2. p \in DOMAIN r /\ u[p] = r[p]
      BY <1>1, <1>3, <2>1, <3>1 DEF UpsertedAs
    <3> HIDE DEF u
    <3> QED
      BY <3>2 DEF Good
  <2>2. CASE VisitIn(ks, p) # {}
    <3> DEFINE k == CHOOSE k \in VisitIn(ks, p) : TRUE
    <3>1. k \in VisitIn(ks, p)
      BY <2>2
    <3>2. u[p] = Entry(r, k, ids[k])
      BY <1>1, <1>3, <2>2 DEF UpsertedAs
    <3> HIDE DEF k, u
    <3>3. k \in States /\ k \in ks /\ visits[k].player = p
      BY <3>1 DEF VisitIn
    <3> DEFINE seen == ids[k]
               old  == r[p].platform
               new  == IF seen = <<>> /\ p \in DOMAIN r THEN old ELSE seen
    <3>4. u[p] = [platform |-> new, state |-> k]
      BY <3>2, <3>3 DEF Entry
    <3>5. seen \in Text /\ (IsXboxPlatform(seen) => p \in Xbox)
      BY <3>3 DEF IdOf
    <3>6. p \in DOMAIN r => old \in Text /\ (IsXboxPlatform(old) => p \in Xbox)
      BY DEF Good
    <3> HIDE DEF seen, old
    <3>7. new \in Text /\ (IsXboxPlatform(new) => p \in Xbox)
      BY <3>5, <3>6
    <3> HIDE DEF new
    <3>8. u[p].platform = new /\ u[p].state = k
      BY <3>4
    <3> QED
      BY <3>3, <3>4, <3>7, <3>8 DEF States
  <2> QED
    BY <2>1, <2>2
<1> HIDE DEF u
<1>4. Good(visits, u)
  BY <1>2, <1>3 DEF Good
<1> QED
  BY <1>4 DEF u

LEMMA UpsertedGood ==
  ASSUME visits \in Seq(Visit), NEW r, Good(visits, r), NEW ks \in SUBSET States
  PROVE  Good(visits, Upserted(r, ks))
<1> DEFINE ids == [k \in ks |-> Account(k)]
<1>1. DOMAIN ids \subseteq States /\ \A k \in DOMAIN ids : IdOf(ids[k], k)
  BY AccountType DEF LinkIds
<1> HIDE DEF ids
<1>2. Good(visits, UpsertedAs(r, ids))
  BY <1>1, UpsertedAsGood
<1> QED
  BY <1>2 DEF Upserted, ids

(* After a pruning everyone who is listed is online.                       *)
LEMMA PrunedGood ==
  ASSUME NEW r, Good(visits, r)
  PROVE  Good(visits, Pruned(r)) /\ DOMAIN Pruned(r) \subseteq Online
<1>1. /\ DOMAIN Pruned(r) = {p \in DOMAIN r : Live(r[p].state)}
      /\ \A p \in DOMAIN Pruned(r) : Pruned(r)[p] = r[p]
  BY DEF Pruned
<1>2. Good(visits, Pruned(r))
  BY <1>1 DEF Good
<1>3. ASSUME NEW p \in DOMAIN Pruned(r)
      PROVE  p \in Online
  <2>1. /\ r[p].state \in States /\ visits[r[p].state].player = p /\ Live(r[p].state)
    BY <1>1 DEF Good, States
  <2> QED
    BY <2>1 DEF Online
<1> QED
  BY <1>2, <1>3

LEMMA ForgottenGood ==
  ASSUME NEW r, Good(visits, r), NEW gone
  PROVE  Good(visits, Forgotten(r, gone))
BY DEF Good, Forgotten

LEMMA ListsInRoster ==
  ASSUME NEW r, Good(visits, r)
  PROVE  /\ XboxOf(r) \subseteq DOMAIN r /\ OthersOf(r) \subseteq DOMAIN r
         /\ XboxOf(r) \subseteq Xbox /\ XboxOf(r) \cap OthersOf(r) = {}
BY DEF XboxOf, OthersOf, IsXbox, Good

-----------------------------------------------------------------------------
(* Steps                                                                   *)

LEMMA InitAudience == AudienceInit => AudienceInv
<1> SUFFICES ASSUME AudienceInit PROVE AudienceInv
  OBVIOUS
<1>1. visits \in Seq(Visit) /\ DOMAIN roster = {} /\ DOMAIN joins = {}
  BY EmptySeq DEF AudienceInit
<1> QED
  BY <1>1 DEF AudienceInit, AudienceInv, Good, JoinsInv, XboxOf, OthersOf, States

(* PlayerStates are added and changed, never taken for another player's.   *)
Later(vs, ws) ==
  /\ ws \in Seq(Visit) /\ Len(vs) <= Len(ws)
  /\ \A k \in 1 .. Len(vs) : ws[k].player = vs[k].player

LEMMA ChangedVisit ==
  ASSUME visits \in Seq(Visit), NEW k \in States, NEW v \in Visit,
         v.player = visits[k].player
  PROVE  Later(visits, [visits EXCEPT ![k] = v])
<1> DEFINE ws == [visits EXCEPT ![k] = v]
<1>1. /\ ws \in Seq(Visit) /\ Len(ws) = Len(visits)
      /\ \A j \in 1 .. Len(visits) : ws[j] = IF j = k THEN v ELSE visits[j]
  BY ExceptSeq DEF States
<1> HIDE DEF ws
<1>2. Len(visits) \in Nat
  BY LenProperties
<1>3. Later(visits, ws)
  BY <1>1, <1>2 DEF Later
<1> QED
  BY <1>3 DEF ws

LEMMA EventVisits ==
  ASSUME visits \in Seq(Visit), PlayerEvent
  PROVE  Later(visits, visits')
<1>1. Len(visits) \in Nat
  BY LenProperties
<1>2. ASSUME NEW p \in Players, Enter(p)
      PROVE  Later(visits, visits')
  <2>1. PICK u, a \in Filled :
          visits' = Append(visits, [player |-> p, live |-> TRUE, uid |-> u, account |-> a])
    BY <1>2 DEF Enter
  <2> DEFINE v == [player |-> p, live |-> TRUE, uid |-> u, account |-> a]
  <2>2. v \in Visit /\ visits' = Append(visits, v)
    BY <2>1, GameAssumption DEF Visit
  <2> HIDE DEF v
  <2> QED
    BY <1>1, <2>2, AppendProperties DEF Later
<1>3. ASSUME NEW k \in States, FillIn(k) \/ Leave(k)
      PROVE  Later(visits, visits')
  <2>1. visits[k] \in Visit
    BY AccountType
  <2>2. CASE visits' = [visits EXCEPT ![k].uid = TRUE]
    <3>1. [visits[k] EXCEPT !.uid = TRUE] \in Visit
          /\ [visits[k] EXCEPT !.uid = TRUE].player = visits[k].player
      BY <2>1 DEF Visit
    <3> QED
      BY <2>2, <3>1, ChangedVisit
  <2>3. CASE visits' = [visits EXCEPT ![k].account = TRUE]
    <3>1. [visits[k] EXCEPT !.account = TRUE] \in Visit
          /\ [visits[k] EXCEPT !.account = TRUE].player = visits[k].player
      BY <2>1 DEF Visit
    <3> QED
      BY <2>3, <3>1, ChangedVisit
  <2>4. CASE visits' = [visits EXCEPT ![k].live = FALSE]
    <3>1. [visits[k] EXCEPT !.live = FALSE] \in Visit
          /\ [visits[k] EXCEPT !.live = FALSE].player = visits[k].player
      BY <2>1 DEF Visit
    <3> QED
      BY <2>4, <3>1, ChangedVisit
  <2> QED
    BY <1>3, <2>2, <2>3, <2>4 DEF FillIn, Leave
<1>4. ASSUME NEW k \in States, RequestJoin(k)
      PROVE  Later(visits, visits')
  BY <1>1, <1>4 DEF RequestJoin, Later
<1> QED
  BY <1>2, <1>3, <1>4 DEF PlayerEvent

LEMMA GoodLater ==
  ASSUME NEW vs, NEW ws, NEW r, Good(vs, r), Later(vs, ws), Len(vs) \in Nat,
         Len(ws) \in Nat
  PROVE  Good(ws, r)
<1>1. \A i \in 1 .. Len(vs) : i \in 1 .. Len(ws) /\ ws[i].player = vs[i].player
  BY DEF Later
<1>2. ASSUME NEW p \in DOMAIN r
      PROVE  /\ r[p] \in [platform : Text, state : 1 .. Len(ws)]
             /\ ws[r[p].state].player = p
             /\ IsXboxPlatform(r[p].platform) => p \in Xbox
  <2>1. /\ r[p] \in [platform : Text, state : 1 .. Len(vs)]
        /\ r[p].state \in 1 .. Len(vs)
    BY DEF Good
  <2>2. r[p] \in [platform : Text, state : 1 .. Len(ws)]
    BY <1>1, <2>1
  <2> QED
    BY <1>1, <2>1, <2>2 DEF Good
<1> QED
  BY <1>2 DEF Good

LEMMA EventAudience ==
  ASSUME AudienceInv, PlayerEvent
  PROVE  AudienceInv' /\ UNCHANGED roster
<1>1. Later(visits, visits') /\ visits \in Seq(Visit) /\ visits' \in Seq(Visit)
  BY EventVisits DEF AudienceInv, Later
<1>2. Len(visits) \in Nat /\ Len(visits') \in Nat
  BY <1>1, LenProperties
<1>3. UNCHANGED <<roster, xbox, others, bootstrapped, givenUp>>
  BY DEF PlayerEvent, Enter, FillIn, Leave, RequestJoin
<1>4. Good(visits', roster')
  BY <1>1, <1>2, <1>3, GoodLater DEF AudienceInv
<1>5. CASE UNCHANGED joins
  <2>1. JoinsInv'
    BY <1>1, <1>2, <1>3, <1>5 DEF AudienceInv, JoinsInv, States, Later
  <2> QED
    BY <1>1, <1>3, <1>4, <2>1 DEF AudienceInv
<1>6. ASSUME NEW k \in States, RequestJoin(k)
      PROVE  AudienceInv'
  <2>1. JoinsInv'
    BY <1>3, <1>6, FrameAssumption DEF AudienceInv, JoinsInv, RequestJoin, States
  <2> QED
    BY <1>1, <1>3, <1>4, <2>1 DEF AudienceInv
<1> QED
  BY <1>3, <1>5, <1>6 DEF PlayerEvent, Enter, FillIn, Leave

LEMMA TickAudience ==
  ASSUME AudienceInv, NEW r, Good(visits, r), Tick(r)
  PROVE  AudienceInv'
<1> DEFINE ready == {k \in DOMAIN joins : Ready(k)}
<1>1. ready \in SUBSET States
  BY DEF AudienceInv, JoinsInv
<1> HIDE DEF ready
<1>2. Good(visits, Pruned(Upserted(r, ready)))
  BY <1>1, UpsertedGood, PrunedGood DEF AudienceInv
<1>3. roster' = Pruned(Upserted(r, ready)) /\ visits' = visits /\ bootstrapped' = bootstrapped
  BY DEF Tick, ready
<1>4. xbox' = XboxOf(roster') /\ others' = OthersOf(roster')
  BY DEF Tick, RebuildLists
<1>5. JoinsInv'
  <2>1. joins' = [k \in {k \in DOMAIN joins : Waiting(k)} |-> Frames(k)]
    BY DEF Tick
  <2>2. \A k \in DOMAIN joins : Waiting(k) => joins[k] + 1 < MaxWait
    BY DEF Waiting, Frames
  <2>3. givenUp' \subseteq States
    BY DEF Tick, AudienceInv, JoinsInv
  <2> QED
    BY <1>3, <2>1, <2>2, <2>3 DEF AudienceInv, JoinsInv, States, Frames
<1> QED
  BY <1>2, <1>3, <1>4, <1>5 DEF AudienceInv

LEMMA ChatAudience ==
  ASSUME AudienceInv, NEW k \in States, ChatUpsert(k)
  PROVE  AudienceInv'
<1>1. PICK id \in LinkIds(k) :
        roster' = UpsertedAs(roster, [j \in {k} |-> id])
  BY DEF ChatUpsert
<1> DEFINE ids == [j \in {k} |-> id]
<1>2. DOMAIN ids \subseteq States /\ \A j \in DOMAIN ids : IdOf(ids[j], j)
  BY AccountType DEF AudienceInv
<1> HIDE DEF ids
<1>3. Good(visits, UpsertedAs(roster, ids))
  BY <1>2, UpsertedAsGood DEF AudienceInv
<1>4. Good(visits, roster')
  BY <1>1, <1>3 DEF ids
<1> QED
  BY <1>4 DEF ChatUpsert, RebuildLists, AudienceInv, JoinsInv, States

-----------------------------------------------------------------------------
(* The inductive invariant of ChatInject                                   *)

MessageFates ==
  {"queued", "overflow", "failed", "filtered", "shown", "nobody", "circuit"}
Message ==
  [kind : {"row", "tagged", "private", "screen"}, sender : Players \cup {Nobody},
   state : Nat, bad : BOOLEAN, fate : MessageFates]
Broadcast ==
  [message : Nat, to : SUBSET (Players \cup {Nobody}),
   style : {"formatted", "plain", "private", "screen"}]

FlagInv ==
  /\ world \in BOOLEAN /\ cached \in BOOLEAN /\ function \in BOOLEAN /\ circuit \in BOOLEAN
  /\ cached => world

CountInv ==
  /\ step \in {"idle", "flush", "inject"} /\ left \in 0 .. Cap
  /\ findFaults \in 0 .. FindFaultsMax /\ faults \in 0 .. MaxFaults
  /\ ~circuit => findFaults < FindFaultsMax
  /\ warm \in {"unseen", "warming", "ramp", "full"}

ControlInv == FlagInv /\ CountInv

(* What a broadcast may change of it.                                      *)
SearchInv ==
  /\ world \in BOOLEAN /\ cached \in BOOLEAN /\ circuit \in BOOLEAN /\ (cached => world)
  /\ findFaults \in 0 .. FindFaultsMax /\ faults \in 0 .. MaxFaults
  /\ ~circuit => findFaults < FindFaultsMax

QueueInv ==
  /\ messages \in Seq(Message) /\ hand \in 0 .. Len(messages)
  /\ deferred \in Seq(Numbers) /\ Len(deferred) <= DeferredMax /\ Distinct(deferred)
  /\ inbound \in Seq(Numbers) /\ Len(inbound) <= QueueMax /\ Distinct(inbound)
  /\ requeued \subseteq Numbers

(* Where messages are.  A row is in the queue once, or in hand, exactly as *)
(* long as its fate is open; the deferred list holds no rows.              *)
PlaceInv ==
  /\ \A n \in Items(deferred) : ~Is(n, "row") /\ messages[n].fate = "queued"
  /\ \A n \in Items(inbound) : Is(n, "row") /\ messages[n].fate = "queued" /\ n # hand
  /\ hand # 0 => Is(hand, "row") /\ messages[hand].fate = "queued"
  /\ \A n \in Numbers : Is(n, "row") /\ messages[n].fate = "queued"
                          => n \in Items(inbound) \cup {hand}
  /\ \A n \in Numbers : ~Is(n, "row") => messages[n].state \in States

(* What has been shown is finished or was pushed back, and only what was   *)
(* pushed back is shown to a player twice.                                 *)
ShownInv ==
  /\ shown \in Seq(Broadcast)
  /\ \A i \in 1 .. Len(shown) :
       /\ shown[i].message \in Numbers
       /\ messages[shown[i].message].fate # "queued" \/ shown[i].message \in requeued
  /\ ShownTwiceOnlyByRetry

InjectInv == AudienceInv /\ ControlInv /\ QueueInv /\ PlaceInv /\ ShownInv

LEMMA InjectInvIsType == InjectInv => TypeOK /\ RowsInOnePlace /\ ShownTwiceOnlyByRetry
<1> SUFFICES ASSUME InjectInv PROVE TypeOK /\ RowsInOnePlace /\ ShownTwiceOnlyByRetry
  OBVIOUS
<1> USE DEF InjectInv
<1>1. TypeOK
  BY AudienceInvIsType DEF TypeOK, ControlInv, FlagInv, CountInv, QueueInv
<1>2. RowsInOnePlace
  BY LenProperties DEF RowsInOnePlace, PlaceInv, QueueInv, Numbers
<1> QED
  BY <1>1, <1>2 DEF ShownInv

-----------------------------------------------------------------------------
(* Messages                                                                *)

LEMMA Limits ==
  /\ Cap \in Nat \ {0} /\ DeferredMax \in Nat \ {0} /\ QueueMax \in Nat \ {0}
  /\ FindFaultsMax \in Nat \ {0} /\ MaxFaults \in Nat
BY InjectLimits

(* Any subset of the numbers is a set of naturals without 0.               *)
LEMMA NumbersAreNat ==
  ASSUME messages \in Seq(Message)
  PROVE  Len(messages) \in Nat /\ Numbers \subseteq Nat \ {0}
BY LenProperties DEF Numbers

LEMMA GrowSeq ==
  ASSUME NEW S, NEW T, S \subseteq T, NEW q \in Seq(S)
  PROVE  q \in Seq(T)
BY SeqMonotonic

LEMMA FunctionSeq ==
  ASSUME NEW S, NEW n \in Nat, NEW f \in [1 .. n -> S]
  PROVE  f \in Seq(S) /\ Len(f) = n
<1>1. f \in Seq(S)
  BY SeqDef
<1>2. Len(f) \in Nat /\ 1 .. Len(f) = 1 .. n
  BY <1>1, LenProperties
<1>3. Len(f) = n
  <2>1. Len(f) >= n
    BY <1>2
  <2>2. Len(f) <= n
    BY <1>2
  <2> QED
    BY <1>2, <2>1, <2>2
<1> QED
  BY <1>1, <1>3

(* Mark changes fates only.                                                *)
LEMMA MarkType ==
  ASSUME messages \in Seq(Message), NEW ns, NEW fate \in MessageFates
  PROVE  /\ Mark(ns, fate) \in Seq(Message) /\ Len(Mark(ns, fate)) = Len(messages)
         /\ \A n \in Numbers :
              /\ Mark(ns, fate)[n].kind = messages[n].kind
              /\ Mark(ns, fate)[n].state = messages[n].state
              /\ Mark(ns, fate)[n].sender = messages[n].sender
              /\ Mark(ns, fate)[n].fate = IF n \in ns THEN fate ELSE messages[n].fate
<1> DEFINE marked == Mark(ns, fate)
<1>1. \A n \in Numbers : messages[n] \in Message
  BY ElementOfSeq DEF Numbers
<1>2. \A n \in Numbers : marked[n] = IF n \in ns THEN [messages[n] EXCEPT !.fate = fate]
                                     ELSE messages[n]
  BY DEF Mark
<1>3. DOMAIN marked = 1 .. Len(messages)
  BY DEF Mark, Numbers
<1>m. marked = [n \in Numbers |-> marked[n]]
  BY DEF Mark
<1> HIDE DEF marked
<1>4. ASSUME NEW n \in Numbers
      PROVE  /\ marked[n] \in Message
             /\ marked[n].kind = messages[n].kind
             /\ marked[n].state = messages[n].state
             /\ marked[n].sender = messages[n].sender
             /\ marked[n].fate = IF n \in ns THEN fate ELSE messages[n].fate
  BY <1>1, <1>2 DEF Message
<1>5. marked \in [1 .. Len(messages) -> Message]
  BY <1>3, <1>4, <1>m DEF Numbers
<1>6. marked \in Seq(Message) /\ Len(marked) = Len(messages)
  BY <1>5, FunctionSeq, LenProperties
<1> QED
  BY <1>4, <1>6 DEF marked

(* EnqueueDeferred: what is in the list stays as it is, what is not is     *)
(* lost, and no other message is touched.                                  *)
Enqueued(n, m) ==
  messages'[n] = IF n \in Items(deferred') THEN m ELSE [m EXCEPT !.fate = "overflow"]

LEMMA EnqueueType ==
  ASSUME messages \in Seq(Message), deferred \in Seq(Numbers), Distinct(deferred),
         NEW new \in Seq(Message), EnqueueDeferred(new)
  PROVE  /\ messages' \in Seq(Message) /\ Len(messages') = Len(messages) + Len(new)
         /\ deferred' \in Seq(Numbers') /\ Len(deferred') <= DeferredMax
         /\ Distinct(deferred')
         /\ Items(deferred') \subseteq Items(deferred) \cup (Numbers' \ Numbers)
         /\ \A n \in Items(deferred) : Enqueued(n, messages[n])
         /\ \A n \in Numbers \ Items(deferred) : messages'[n] = messages[n]
         /\ \A i \in 1 .. Len(new) : Enqueued(Len(messages) + i, new[i])
<1> DEFINE old  == Len(messages)
           last == old + Len(new)
           ns   == [i \in 1 .. Len(new) |-> old + i]
           all  == messages \o new
           kept == PushAll(deferred, ns, DeferredMax)
           lost == Items(deferred \o ns) \ Items(kept)
<1>1. /\ deferred' = kept
      /\ messages' = [n \in 1 .. Len(all) |->
                        IF n \in lost THEN [all[n] EXCEPT !.fate = "overflow"] ELSE all[n]]
  BY DEF EnqueueDeferred
<1>2. old \in Nat /\ Len(new) \in Nat /\ last \in Nat /\ Numbers = 1 .. old
  BY LenProperties DEF Numbers
<1>3. /\ all \in Seq(Message) /\ Len(all) = last
      /\ \A n \in 1 .. last : all[n] = IF n <= old THEN messages[n] ELSE new[n - old]
  BY ConcatProperties
<1> HIDE DEF all
<1>4. ns \in Seq(1 .. last) /\ Len(ns) = Len(new) /\ \A i \in 1 .. Len(new) : ns[i] = old + i
  <2>1. ns \in [1 .. Len(new) -> 1 .. last]
    BY <1>2
  <2> QED
    BY <1>2, <2>1, FunctionSeq
<1>5. Items(ns) = 1 .. last \ 1 .. old /\ Distinct(ns)
  <2> HIDE DEF ns, old
  <2>1. \A i \in 1 .. Len(ns) : ns[i] \in 1 .. last \ 1 .. old
    BY <1>2, <1>4
  <2>2. ASSUME NEW n \in 1 .. last \ 1 .. old
        PROVE  n \in Items(ns)
    <3>1. n - old \in 1 .. Len(ns) /\ ns[n - old] = n
      BY <1>2, <1>4
    <3> QED
      BY <3>1 DEF Items
  <2>3. Distinct(ns)
    BY <1>2, <1>4 DEF Distinct
  <2> QED
    BY <2>1, <2>2, <2>3 DEF Items
<1>6. deferred \in Seq(1 .. last) /\ Items(deferred) \subseteq Numbers
  <2>1. deferred \in Seq(1 .. last)
    BY <1>2, GrowSeq
  <2>2. \A i \in 1 .. Len(deferred) : deferred[i] \in Numbers
    BY ElementOfSeq
  <2> QED
    BY <2>1, <2>2 DEF Items
<1> HIDE DEF ns
<1>7. Items(deferred) \cap Items(ns) = {}
  BY <1>2, <1>5, <1>6
<1>8. /\ kept \in Seq(1 .. last) /\ Len(kept) <= DeferredMax /\ Distinct(kept)
      /\ Items(kept) \subseteq Items(deferred) \cup Items(ns)
  BY <1>4, <1>5, <1>6, <1>7, PushAllDistinct, Limits
<1>9. lost = (Items(deferred) \cup Items(ns)) \ Items(kept)
  BY <1>4, <1>6, ConcatItems
<1> HIDE DEF lost, kept
<1>10. \A n \in 1 .. last : messages'[n] = IF n \in lost THEN [all[n] EXCEPT !.fate = "overflow"]
                                           ELSE all[n]
  BY <1>1, <1>3
<1>11. messages' \in Seq(Message) /\ Len(messages') = last
  <2>1. ASSUME NEW n \in 1 .. last
        PROVE  messages'[n] \in Message
    <3>1. all[n] \in Message
      BY <1>3, ElementOfSeq
    <3> QED
      BY <1>10, <3>1 DEF Message, MessageFates
  <2>2. messages' \in [1 .. last -> Message]
    BY <1>1, <1>3, <2>1
  <2> QED
    BY <1>2, <2>2, FunctionSeq
<1>12. Numbers' = 1 .. last
  BY <1>11 DEF Numbers
<1>13. Items(deferred') \subseteq Items(deferred) \cup (Numbers' \ Numbers)
  BY <1>1, <1>2, <1>5, <1>8, <1>12
<1>14. ASSUME NEW n \in Items(deferred)
       PROVE  Enqueued(n, messages[n])
  <2>1. n \in 1 .. last /\ all[n] = messages[n] /\ (n \in lost <=> n \notin Items(deferred'))
    BY <1>1, <1>2, <1>3, <1>6, <1>9
  <2> QED
    BY <1>10, <2>1 DEF Enqueued
<1>15. ASSUME NEW n \in Numbers \ Items(deferred)
       PROVE  messages'[n] = messages[n]
  <2>1. n \in 1 .. last /\ all[n] = messages[n] /\ n \notin lost
    BY <1>2, <1>3, <1>5, <1>9
  <2> QED
    BY <1>10, <2>1
<1>16. ASSUME NEW i \in 1 .. Len(new)
       PROVE  Enqueued(old + i, new[i])
  <2> DEFINE n == old + i
  <2>1. n \in 1 .. last /\ n \notin 1 .. old /\ n - old = i /\ ~(n <= old)
    BY <1>2
  <2> HIDE DEF n, old
  <2>2. all[n] = new[i] /\ (n \in lost <=> n \notin Items(deferred'))
    BY <1>1, <1>3, <1>5, <1>9, <2>1
  <2>3. Enqueued(n, new[i])
    BY <1>10, <2>1, <2>2 DEF Enqueued
  <2> QED
    BY <2>3 DEF n
<1> QED
  BY <1>1, <1>8, <1>11, <1>12, <1>13, <1>14, <1>15, <1>16

(* A message keeps its number and all but its fate, however it is          *)
(* enqueued.                                                               *)
LEMMA EnqueueKeeps ==
  ASSUME messages \in Seq(Message), deferred \in Seq(Numbers), Distinct(deferred),
         NEW new \in Seq(Message), EnqueueDeferred(new)
  PROVE  /\ Numbers \subseteq Numbers'
         /\ \A n \in Numbers :
              /\ messages'[n].kind = messages[n].kind /\ messages'[n].state = messages[n].state
              /\ messages'[n].sender = messages[n].sender
              /\ messages[n].fate # "queued" => messages'[n].fate # "queued"
              /\ messages'[n].fate = messages[n].fate \/ messages'[n].fate = "overflow"
<1>1. /\ Len(messages') = Len(messages) + Len(new)
      /\ \A n \in Items(deferred) : Enqueued(n, messages[n])
      /\ \A n \in Numbers \ Items(deferred) : messages'[n] = messages[n]
  BY EnqueueType
<1>2. Len(messages) \in Nat /\ Len(new) \in Nat
  BY LenProperties
<1>3. Numbers \subseteq Numbers'
  BY <1>1, <1>2 DEF Numbers
<1>4. ASSUME NEW n \in Numbers
      PROVE  /\ messages'[n].kind = messages[n].kind /\ messages'[n].state = messages[n].state
             /\ messages'[n].sender = messages[n].sender
             /\ messages[n].fate # "queued" => messages'[n].fate # "queued"
             /\ messages'[n].fate = messages[n].fate \/ messages'[n].fate = "overflow"
  <2>1. messages[n] \in Message
    BY ElementOfSeq DEF Numbers
  <2>2. messages'[n] = messages[n] \/ messages'[n] = [messages[n] EXCEPT !.fate = "overflow"]
    BY <1>1 DEF Enqueued
  <2> QED
    BY <2>1, <2>2 DEF Message
<1> QED
  BY <1>3, <1>4

-----------------------------------------------------------------------------
(* Broadcasts                                                              *)

(* Calls for message n: each player at most once, the formatted and plain  *)
(* forms to players who are online, the plain form with its conditions.    *)
GoodCall(c, n) ==
  /\ c \in Broadcast /\ c.message = n
  /\ c.style \in {"formatted", "plain"} => c.to \subseteq Online
  /\ c.style = "plain" => Sender(n) \in Online /\ c.to \subseteq Xbox

GoodCalls(calls, n) ==
  /\ calls \in Seq(Broadcast)
  /\ \A i \in 1 .. Len(calls) : GoodCall(calls[i], n)
  /\ \A i, j \in 1 .. Len(calls) : i # j => calls[i].to \cap calls[j].to = {}

(* The present step adds some of them to what was shown before.            *)
Adds(n) ==
  /\ shown' \in Seq(Broadcast) /\ Len(shown) <= Len(shown')
  /\ \A i \in 1 .. Len(shown) : shown'[i] = shown[i]
  /\ \A i \in 1 .. Len(shown') \ 1 .. Len(shown) : GoodCall(shown'[i], n)
  /\ \A i, j \in 1 .. Len(shown') \ 1 .. Len(shown) :
       i # j => shown'[i].to \cap shown'[j].to = {}

LEMMA NothingAdded ==
  ASSUME shown \in Seq(Broadcast), shown' = shown, NEW n
  PROVE  Adds(n)
BY LenProperties DEF Adds

LEMMA PartAdded ==
  ASSUME shown \in Seq(Broadcast), NEW n, NEW calls, GoodCalls(calls, n),
         NEW part \in Seq(Broadcast), Len(part) <= Len(calls),
         \A i \in 1 .. Len(part) : part[i] = calls[i],
         shown' = shown \o part
  PROVE  Adds(n)
<1>1. /\ shown' \in Seq(Broadcast) /\ Len(shown') = Len(shown) + Len(part)
      /\ \A i \in 1 .. Len(shown) + Len(part) :
           shown'[i] = IF i <= Len(shown) THEN shown[i] ELSE part[i - Len(shown)]
  BY ConcatProperties
<1>2. Len(shown) \in Nat /\ Len(part) \in Nat /\ Len(calls) \in Nat
  BY LenProperties DEF GoodCalls
<1>3. ASSUME NEW i \in 1 .. Len(shown') \ 1 .. Len(shown)
      PROVE  i - Len(shown) \in 1 .. Len(calls) /\ shown'[i] = calls[i - Len(shown)]
  BY <1>1, <1>2, <1>3
<1>4. \A i \in 1 .. Len(shown) : shown'[i] = shown[i]
  BY <1>1, <1>2
<1>5. ASSUME NEW i \in 1 .. Len(shown') \ 1 .. Len(shown),
             NEW j \in 1 .. Len(shown') \ 1 .. Len(shown), i # j
      PROVE  shown'[i].to \cap shown'[j].to = {}
  <2>1. i - Len(shown) # j - Len(shown)
    BY <1>1, <1>2, <1>5
  <2> QED
    BY <1>3, <2>1 DEF GoodCalls
<1>6. \A i \in 1 .. Len(shown') \ 1 .. Len(shown) : GoodCall(shown'[i], n)
  BY <1>3 DEF GoodCalls
<1>7. shown' \in Seq(Broadcast) /\ Len(shown) <= Len(shown')
  BY <1>1, <1>2
<1> QED
  BY <1>4, <1>5, <1>6, <1>7, Zenon DEF Adds

LEMMA OneAdded ==
  ASSUME shown \in Seq(Broadcast), NEW n, NEW c, GoodCall(c, n), shown' = Append(shown, c)
  PROVE  Adds(n)
<1> DEFINE calls == <<c>>
<1>1. c \in Broadcast
  BY DEF GoodCall
<1>2. calls \in Seq(Broadcast) /\ Len(calls) = 1 /\ calls[1] = c
  BY <1>1
<1>3. shown' = shown \o calls
  BY <1>1, AppendIsConcat
<1> HIDE DEF calls
<1>4. GoodCalls(calls, n)
  BY <1>2 DEF GoodCalls
<1>5. Len(calls) <= Len(calls) /\ \A i \in 1 .. Len(calls) : calls[i] = calls[i]
  BY <1>2
<1> QED
  BY <1>2, <1>3, <1>4, <1>5, PartAdded

LEMMA FirstAdded ==
  ASSUME shown \in Seq(Broadcast), NEW n, NEW calls, GoodCalls(calls, n),
         NEW i \in 0 .. Len(calls), shown' = shown \o SubSeq(calls, 1, i)
  PROVE  Adds(n)
<1> DEFINE part == SubSeq(calls, 1, i)
<1>1. calls \in Seq(Broadcast) /\ Len(calls) \in Nat
  BY LenProperties DEF GoodCalls
<1>2. part \in Seq(Broadcast) /\ Len(part) = i /\ \A j \in 1 .. i : part[j] = calls[j]
  <2>1. \A j \in 1 .. i : calls[j] \in Broadcast
    BY <1>1, ElementOfSeq
  <2>2. /\ part \in Seq(Broadcast)
        /\ Len(part) = IF 1 <= i THEN i - 1 + 1 ELSE 0
        /\ \A j \in 1 .. i - 1 + 1 : part[j] = calls[1 + j - 1]
    BY <1>1, <2>1, SubSeqProperties
  <2> HIDE DEF part
  <2> QED
    BY <1>1, <2>2
<1>3. shown' = shown \o part
  OBVIOUS
<1> HIDE DEF part
<1>4. Len(part) <= Len(calls) /\ \A j \in 1 .. Len(part) : part[j] = calls[j]
  BY <1>1, <1>2
<1> QED
  BY <1>2, <1>3, <1>4, PartAdded

(* What is counted stays within its limits, whatever comes of a broadcast. *)
LEMMA SearchRests ==
  ASSUME ControlInv, cached' \in {cached, FALSE} \/ (world /\ cached' = TRUE),
         world' = world, findFaults' = findFaults, circuit' \in {circuit, TRUE},
         faults' \in 0 .. MaxFaults
  PROVE  SearchInv'
<1>1. cached' \in BOOLEAN /\ (cached' => world)
  <2>1. CASE cached' = cached
    BY <2>1, Zenon DEF ControlInv, FlagInv
  <2>2. CASE cached' = FALSE
    BY <2>2, Zenon
  <2>3. CASE world /\ cached' = TRUE
    BY <2>3, Zenon
  <2> QED
    BY <2>1, <2>2, <2>3
<1>2. world' \in BOOLEAN /\ circuit' \in BOOLEAN /\ (cached' => world')
  BY <1>1, Zenon DEF ControlInv, FlagInv
<1>3. ~circuit' => ~circuit
  BY Zenon DEF ControlInv, FlagInv
<1>4. /\ findFaults' \in 0 .. FindFaultsMax
      /\ ~circuit' => findFaults' < FindFaultsMax
  BY <1>3 DEF ControlInv, CountInv
<1> QED
  BY <1>1, <1>2, <1>4, Zenon DEF SearchInv

LEMMA MishapsType ==
  ASSUME ControlInv, NEW f \in Nat, Mishaps(f)
  PROVE  /\ circuit' \in BOOLEAN /\ findFaults' \in 0 .. FindFaultsMax
         /\ faults' \in 0 .. MaxFaults
         /\ ~circuit' => findFaults' < FindFaultsMax
<1> DEFINE open == findFaults' >= FindFaultsMax
<1>1. findFaults' \in 0 .. FindFaultsMax /\ faults' \in 0 .. MaxFaults
  BY Limits DEF Mishaps, ControlInv, CountInv
<1>2. open \in BOOLEAN /\ (~open => findFaults' < FindFaultsMax)
  BY <1>1, Limits
<1>3. circuit' = open
  BY DEF Mishaps
<1> HIDE DEF open
<1>4. circuit' \in BOOLEAN /\ (circuit' \/ ~open)
  BY <1>2, <1>3, Zenon
<1> QED
  BY <1>1, <1>2, <1>4

(* BroadcastDisplay.                                                       *)
LEMMA OutcomeStep ==
  ASSUME AudienceInv, ControlInv, shown \in Seq(Broadcast), NEW n, NEW calls,
         GoodCalls(calls, n), NEW r, Good(visits, r), NEW fate, Outcome(calls, r, fate)
  PROVE  /\ Adds(n) /\ SearchInv'
         /\ Good(visits, roster') /\ xbox' = XboxOf(roster') /\ others' = OthersOf(roster')
<1>c. calls \in Seq(Broadcast) /\ Len(calls) \in Nat
  BY LenProperties DEF GoodCalls
<1>f. faults \in 0 .. MaxFaults /\ (Fault => faults' \in 0 .. MaxFaults)
  BY Limits DEF Fault, ControlInv, CountInv
<1>1. CASE AllShown(calls, r)
  <2>1. /\ shown' = shown \o calls /\ Len(calls) <= Len(calls)
        /\ \A i \in 1 .. Len(calls) : calls[i] = calls[i]
    BY <1>1, <1>c DEF AllShown
  <2>2. Adds(n)
    BY <1>c, <2>1, PartAdded
  <2>3. SearchInv'
    BY <1>1, <1>f, SearchRests DEF AllShown
  <2> QED
    BY <1>1, <2>2, <2>3 DEF AllShown, RebuildLists
<1>2. CASE Silent(r)
  <2>1. SearchInv'
    BY <1>2, <1>f, SearchRests DEF Silent
  <2> QED
    BY <1>2, <2>1, NothingAdded DEF Silent, RebuildLists
<1>3. CASE Faults(calls, r)
  <2>1. PICK i \in 1 .. Len(calls) :
          /\ shown' = shown \o SubSeq(calls, 1, i - 1)
          /\ roster' = Forgotten(r, calls[i].to) /\ RebuildLists(Forgotten(r, calls[i].to))
    BY <1>3 DEF Faults
  <2>2. i - 1 \in 0 .. Len(calls)
    BY <1>c
  <2>3. Adds(n)
    BY <2>1, <2>2, FirstAdded
  <2>4. Good(visits, roster')
    BY <2>1, ForgottenGood
  <2>5. SearchInv'
    BY <1>3, <1>f, SearchRests DEF Faults
  <2>6. xbox' = XboxOf(roster') /\ others' = OthersOf(roster')
    BY <2>1 DEF RebuildLists
  <2> QED
    BY <2>3, <2>4, <2>5, <2>6
<1>4. CASE Unready(r)
  <2>1. SearchInv'
    BY <1>4, <1>f, SearchRests DEF Unready
  <2> QED
    BY <1>4, <2>1, NothingAdded DEF Unready, RebuildLists
<1>5. CASE Lost(calls, r)
  <2>i. PICK i \in 1 .. Len(calls) : \E f \in 0 .. Len(calls) + 1 - i :
          /\ world' = FALSE \/ (world /\ world' = TRUE /\ f = Len(calls) + 1 - i)
          /\ shown' = shown \o SubSeq(calls, 1, i - 1)
          /\ Mishaps(f)
    BY <1>5 DEF Lost
  <2>1. PICK f \in 0 .. Len(calls) + 1 - i :
          /\ world' = FALSE \/ (world /\ world' = TRUE /\ f = Len(calls) + 1 - i)
          /\ shown' = shown \o SubSeq(calls, 1, i - 1)
          /\ Mishaps(f)
    BY <2>i
  <2>2. i - 1 \in 0 .. Len(calls) /\ f \in Nat
    BY <1>c
  <2>3. Adds(n)
    BY <2>1, <2>2, FirstAdded
  <2>4. cached' = FALSE /\ world' \in BOOLEAN
    BY <1>5, <2>1, Zenon DEF Lost
  <2>5. SearchInv'
    BY <2>1, <2>2, <2>4, MishapsType, Zenon DEF SearchInv
  <2> QED
    BY <1>5, <2>3, <2>5 DEF Lost, RebuildLists
<1>6. CASE FoundAgain(calls, r)
  <2>1. /\ 2 \in 1 .. Len(calls) /\ shown' = Append(shown, calls[2])
        /\ Mishaps(1) /\ 1 \in Nat /\ cached' = TRUE /\ world' = world
    BY <1>6 DEF FoundAgain
  <2>2. GoodCall(calls[2], n)
    BY <2>1 DEF GoodCalls
  <2>3. Adds(n)
    BY <2>1, <2>2, OneAdded
  <2>4. world
    BY <1>6 DEF FoundAgain
  <2>5. SearchInv'
    <3>1. world' \in BOOLEAN /\ cached' \in BOOLEAN /\ (cached' => world')
      BY <2>1, <2>4, Zenon DEF ControlInv, FlagInv
    <3> QED
      BY <2>1, <3>1, MishapsType, Zenon DEF SearchInv
  <2> QED
    BY <1>6, <2>3, <2>5 DEF FoundAgain, RebuildLists
<1>7. CASE Thrown(calls, r)
  <2>1. PICK i \in 0 .. Len(calls) :
          /\ i > 0 => i < Len(calls) /\ ~circuit /\ world /\ function
          /\ shown' = shown \o SubSeq(calls, 1, i)
          /\ cached' = (cached \/ i > 0)
    BY <1>7 DEF Thrown
  <2>2. Adds(n)
    BY <2>1, FirstAdded
  <2>3. cached' \in {cached, FALSE} \/ (world /\ cached' = TRUE)
    <3>1. CASE i > 0
      BY <2>1, <3>1, Zenon
    <3>2. CASE ~(i > 0)
      <4>1. cached' = (cached \/ FALSE) /\ cached \in BOOLEAN
        BY <2>1, <3>2, Zenon DEF ControlInv, FlagInv
      <4> QED
        BY <4>1, Zenon
    <3> QED
      BY <3>1, <3>2
  <2>4. SearchInv'
    BY <1>7, <1>f, <2>3, SearchRests DEF Thrown
  <2> QED
    BY <1>7, <2>2, <2>4 DEF Thrown, RebuildLists
<1> QED
  BY <1>1, <1>2, <1>3, <1>4, <1>5, <1>6, <1>7 DEF Outcome

(* One call, or none.                                                      *)
LEMMA OneCall ==
  ASSUME NEW c \in Broadcast, NEW cond \in BOOLEAN
  PROVE  LET calls == IF cond THEN <<c>> ELSE <<>>
         IN  /\ calls \in Seq(Broadcast) /\ Len(calls) \in 0 .. 1
             /\ \A i \in 1 .. Len(calls) : cond /\ i = 1 /\ calls[i] = c
<1>1. /\ <<c>> \in Seq(Broadcast) /\ Len(<<c>>) = 1 /\ <<c>>[1] = c
  OBVIOUS
<1>2. <<>> \in Seq(Broadcast) /\ Len(<<>>) = 0
  BY EmptySeq
<1>3. CASE cond
  BY <1>1, <1>3
<1>4. CASE ~cond
  BY <1>2, <1>4
<1> QED
  BY <1>3, <1>4

(* BroadcastDual: the two lists have no player in common.                  *)
LEMMA CallsAreGood ==
  ASSUME NEW r, Good(visits, r), DOMAIN r \subseteq Online, NEW n \in Nat
  PROVE  GoodCalls(Calls(r, n), n)
<1> DEFINE a == Call(n, OthersOf(r), "formatted")
           b == Call(n, XboxOf(r), "plain")
           toOthers == OthersOf(r) # {}
           toXbox   == XboxOf(r) # {} /\ Attributed(r, n)
           first  == IF toOthers THEN <<a>> ELSE <<>>
           second == IF toXbox THEN <<b>> ELSE <<>>
           calls  == first \o second
<1>1. /\ XboxOf(r) \subseteq Online /\ OthersOf(r) \subseteq Online
      /\ XboxOf(r) \subseteq Players /\ OthersOf(r) \subseteq Players
      /\ XboxOf(r) \subseteq Xbox /\ XboxOf(r) \cap OthersOf(r) = {}
  BY ListsInRoster DEF Good
<1>2. a \in Broadcast /\ b \in Broadcast
  BY <1>1 DEF Call, Broadcast
<1>3. a.message = n /\ a.to = OthersOf(r) /\ a.style = "formatted"
  BY DEF Call
<1>4. b.message = n /\ b.to = XboxOf(r) /\ b.style = "plain"
  BY DEF Call
<1>5. toXbox => Sender(n) \in Online
  BY DEF Attributed
<1> HIDE DEF a, b, toOthers, toXbox
<1>6. GoodCall(a, n) /\ (toXbox => GoodCall(b, n)) /\ a.to \cap b.to = {}
  BY <1>1, <1>2, <1>3, <1>4, <1>5 DEF GoodCall
<1>b. toOthers \in BOOLEAN /\ toXbox \in BOOLEAN
  BY DEF toOthers, toXbox
<1>7. /\ first \in Seq(Broadcast) /\ Len(first) \in 0 .. 1
      /\ \A i \in 1 .. Len(first) : toOthers /\ i = 1 /\ first[i] = a
  BY <1>2, <1>b, OneCall
<1>8. /\ second \in Seq(Broadcast) /\ Len(second) \in 0 .. 1
      /\ \A i \in 1 .. Len(second) : toXbox /\ i = 1 /\ second[i] = b
  BY <1>2, <1>b, OneCall
<1>9. calls = Calls(r, n)
  BY DEF Calls, a, b, toOthers, toXbox
<1> HIDE DEF first, second
<1>10. /\ calls \in Seq(Broadcast) /\ Len(calls) = Len(first) + Len(second)
       /\ \A i \in 1 .. Len(first) + Len(second) :
            calls[i] = IF i <= Len(first) THEN first[i] ELSE second[i - Len(first)]
  BY <1>7, <1>8, ConcatProperties
<1> HIDE DEF calls
<1>11. ASSUME NEW i \in 1 .. Len(calls)
       PROVE  \/ i <= Len(first) /\ i = 1 /\ calls[i] = a
              \/ i > Len(first) /\ i = Len(first) + 1 /\ calls[i] = b /\ toXbox
  <2>1. CASE i <= Len(first)
    BY <1>7, <1>10, <2>1
  <2>2. CASE i > Len(first)
    <3>1. i - Len(first) \in 1 .. Len(second)
      BY <1>7, <1>8, <1>10, <2>2
    <3> QED
      BY <1>7, <1>8, <1>10, <2>2, <3>1
  <2> QED
    BY <1>7, <2>1, <2>2
<1>12. \A i \in 1 .. Len(calls) : GoodCall(calls[i], n)
  BY <1>6, <1>11
<1>13. \A i, j \in 1 .. Len(calls) : i # j => calls[i].to \cap calls[j].to = {}
  BY <1>6, <1>11
<1> QED
  BY <1>9, <1>10, <1>12, <1>13 DEF GoodCalls

LEMMA DualStep ==
  ASSUME AudienceInv, ControlInv, shown \in Seq(Broadcast), NEW n \in Nat, NEW fate,
         BroadcastDual(n, fate)
  PROVE  Adds(n) /\ AudienceInv' /\ visits' = visits /\ SearchInv'
<1>1. PICK found \in {Readable, {}} :
        Outcome(Calls(Pruned(Bootstrapped(found)), n), Pruned(Bootstrapped(found)), fate)
  BY DEF BroadcastDual
<1>2. bootstrapped' = TRUE /\ UNCHANGED <<visits, joins, givenUp>>
  BY DEF BroadcastDual
<1>3. found \in SUBSET States
  BY DEF Readable
<1>4. Good(visits, Bootstrapped(found))
  BY <1>3, UpsertedGood DEF AudienceInv, Bootstrapped
<1> DEFINE r == Pruned(Bootstrapped(found))
<1>5. Good(visits, r) /\ DOMAIN r \subseteq Online
  BY <1>4, PrunedGood
<1>6. Outcome(Calls(r, n), r, fate)
  BY <1>1
<1> HIDE DEF r
<1>7. GoodCalls(Calls(r, n), n)
  BY <1>5, CallsAreGood
<1>8. /\ Adds(n) /\ SearchInv'
      /\ Good(visits, roster') /\ xbox' = XboxOf(roster') /\ others' = OthersOf(roster')
  BY <1>5, <1>6, <1>7, OutcomeStep
<1>9. JoinsInv'
  BY <1>2 DEF AudienceInv, JoinsInv, States
<1> QED
  BY <1>2, <1>8, <1>9 DEF AudienceInv

LEMMA PrivateStep ==
  ASSUME AudienceInv, ControlInv, shown \in Seq(Broadcast), NEW n \in Nat, NEW fate,
         Sender(n) \in Players \cup {Nobody}, BroadcastPrivate(n, fate)
  PROVE  Adds(n) /\ AudienceInv' /\ visits' = visits /\ SearchInv'
<1> DEFINE c == Call(n, {Sender(n)}, "private")
           calls == <<c>>
<1>1. Outcome(calls, roster, fate) /\ UNCHANGED <<visits, joins, givenUp, bootstrapped>>
  BY DEF BroadcastPrivate
<1>2. GoodCall(c, n)
  BY DEF GoodCall, Call, Broadcast
<1> HIDE DEF c
<1>3. calls \in Seq(Broadcast) /\ Len(calls) = 1 /\ calls[1] = c
  BY <1>2 DEF GoodCall
<1> HIDE DEF calls
<1>4. GoodCalls(calls, n)
  BY <1>2, <1>3 DEF GoodCalls
<1>5. Good(visits, roster)
  BY DEF AudienceInv
<1>6. /\ Adds(n) /\ SearchInv'
      /\ Good(visits, roster') /\ xbox' = XboxOf(roster') /\ others' = OthersOf(roster')
  BY <1>1, <1>4, <1>5, OutcomeStep
<1>7. JoinsInv'
  BY <1>1 DEF AudienceInv, JoinsInv, States
<1> QED
  BY <1>1, <1>6, <1>7 DEF AudienceInv

LEMMA ScreenStep ==
  ASSUME AudienceInv, ControlInv, shown \in Seq(Broadcast), NEW n \in Nat, NEW fate,
         messages[n].state \in States, SendScreenLog(n, fate)
  PROVE  Adds(n) /\ AudienceInv' /\ visits' = visits /\ SearchInv'
<1> DEFINE c == Call(n, {visits[messages[n].state].player}, "screen")
<1>1. /\ UNCHANGED <<audienceVars, world, cached, findFaults, circuit>>
      /\ faults' \in 0 .. MaxFaults
  BY Limits DEF SendScreenLog, Fault, ControlInv, CountInv
<1>2. AudienceInv' /\ visits' = visits
  BY <1>1 DEF audienceVars, AudienceInv, JoinsInv, States
<1>3. SearchInv'
  BY <1>1, SearchRests
<1>4. CASE shown' = shown
  BY <1>2, <1>3, <1>4, NothingAdded
<1>5. CASE shown' = Append(shown, c)
  <2>1. visits[messages[n].state].player \in Players
    BY AccountType DEF AudienceInv, Visit
  <2>2. GoodCall(c, n)
    BY <2>1 DEF GoodCall, Call, Broadcast
  <2> HIDE DEF c
  <2> QED
    BY <1>2, <1>3, <1>5, <2>2, OneAdded
<1> QED
  BY <1>4, <1>5 DEF SendScreenLog

LEMMA ThrownStep ==
  ASSUME AudienceInv, ControlInv, shown \in Seq(Broadcast), NEW n, ThrownAtOnce
  PROVE  Adds(n) /\ AudienceInv' /\ visits' = visits /\ SearchInv'
<1> DEFINE calls == <<>>
<1>1. Outcome(calls, roster, "thrown") /\ UNCHANGED <<visits, joins, givenUp, bootstrapped>>
  BY DEF ThrownAtOnce, Outcome
<1>2. calls \in Seq(Broadcast) /\ Len(calls) = 0
  BY EmptySeq
<1> HIDE DEF calls
<1>3. GoodCalls(calls, n)
  BY <1>2 DEF GoodCalls
<1>4. Good(visits, roster)
  BY DEF AudienceInv
<1>5. /\ Adds(n) /\ SearchInv'
      /\ Good(visits, roster') /\ xbox' = XboxOf(roster') /\ others' = OthersOf(roster')
  BY <1>1, <1>3, <1>4, OutcomeStep
<1>6. JoinsInv'
  BY <1>1 DEF AudienceInv, JoinsInv, States
<1> QED
  BY <1>1, <1>5, <1>6 DEF AudienceInv

(* A message that is still queued has not been shown before, unless it was *)
(* pushed back.                                                            *)
LEMMA AddsShown ==
  ASSUME ShownInv, messages \in Seq(Message), NEW n \in Numbers,
         messages[n].fate = "queued", Adds(n), Len(messages') \in Nat,
         Len(messages) <= Len(messages'), requeued \subseteq requeued',
         messages'[n].fate # "queued" \/ n \in requeued',
         \A m \in Numbers : messages[m].fate # "queued" => messages'[m].fate # "queued"
  PROVE  ShownInv'
<1>1. Len(shown) \in Nat /\ Len(shown') \in Nat /\ Len(messages) \in Nat
  BY LenProperties DEF ShownInv, Adds
<1>2. Numbers \subseteq Numbers'
  BY <1>1 DEF Numbers
<1>3. ASSUME NEW i \in 1 .. Len(shown)
      PROVE  /\ shown'[i] = shown[i] /\ shown[i].message \in Numbers
             /\ shown[i].message = n => n \in requeued'
             /\ \/ messages'[shown[i].message].fate # "queued"
                \/ shown[i].message \in requeued'
  BY DEF ShownInv, Adds
<1>4. ASSUME NEW i \in 1 .. Len(shown') \ 1 .. Len(shown)
      PROVE  shown'[i].message = n
  BY DEF Adds, GoodCall
<1>5. ASSUME NEW i \in 1 .. Len(shown')
      PROVE  /\ shown'[i].message \in Numbers'
             /\ \/ messages'[shown'[i].message].fate # "queued"
                \/ shown'[i].message \in requeued'
  <2>1. CASE i \in 1 .. Len(shown)
    BY <1>2, <1>3, <2>1
  <2>2. CASE i \notin 1 .. Len(shown)
    BY <1>2, <1>4, <2>2
  <2> QED
    BY <2>1, <2>2
<1>6. ASSUME NEW i \in 1 .. Len(shown'), NEW j \in 1 .. Len(shown'), i # j,
             shown'[i].message = shown'[j].message, shown'[i].message \notin requeued'
      PROVE  shown'[i].to \cap shown'[j].to = {}
  <2>1. CASE i \in 1 .. Len(shown) /\ j \in 1 .. Len(shown)
    <3>1. shown[i].message \notin requeued /\ shown[i].message = shown[j].message
      BY <1>3, <1>6, <2>1
    <3>2. shown[i].to \cap shown[j].to = {}
      BY <1>6, <2>1, <3>1 DEF ShownInv, ShownTwiceOnlyByRetry
    <3> QED
      BY <1>3, <2>1, <3>2
  <2>2. CASE i \notin 1 .. Len(shown) /\ j \notin 1 .. Len(shown)
    BY <1>6, <2>2 DEF Adds
  <2>3. CASE i \in 1 .. Len(shown) /\ j \notin 1 .. Len(shown)
    BY <1>3, <1>4, <1>6, <2>3
  <2>4. CASE i \notin 1 .. Len(shown) /\ j \in 1 .. Len(shown)
    BY <1>3, <1>4, <1>6, <2>4
  <2> QED
    BY <2>1, <2>2, <2>3, <2>4
<1>7. ShownTwiceOnlyByRetry'
  BY <1>6 DEF ShownTwiceOnlyByRetry
<1>8. shown' \in Seq(Broadcast)
  BY DEF Adds
<1> QED
  BY <1>5, <1>7, <1>8 DEF ShownInv

-----------------------------------------------------------------------------
(* The invariant                                                           *)

LEMMA InitInject == Init => InjectInv
<1> SUFFICES ASSUME Init PROVE InjectInv
  OBVIOUS
<1>1. AudienceInv
  BY InitAudience DEF Init
<1>2. ControlInv
  <2>1. FlagInv
    BY Zenon DEF Init, FlagInv
  <2>2. CountInv
    BY Limits DEF Init, CountInv
  <2> QED
    BY <2>1, <2>2 DEF ControlInv
<1>3. messages = <<>> /\ deferred = <<>> /\ inbound = <<>> /\ shown = <<>> /\ Len(<<>>) = 0
  BY EmptySeq DEF Init
<1>4. /\ Numbers = {} /\ Items(deferred) = {} /\ Items(inbound) = {}
      /\ Distinct(deferred) /\ Distinct(inbound)
  BY <1>3 DEF Numbers, Items, Distinct
<1>5. QueueInv
  BY <1>3, <1>4, EmptySeq, Limits DEF Init, QueueInv
<1>6. PlaceInv
  BY <1>4 DEF Init, PlaceInv
<1>7. ShownInv
  BY <1>3, EmptySeq DEF ShownInv, ShownTwiceOnlyByRetry
<1> QED
  BY <1>1, <1>2, <1>5, <1>6, <1>7 DEF InjectInv

(* A step that leaves the messages where they are.                         *)
Resting == UNCHANGED <<hand, deferred, inbound, messages, shown, requeued>>

LEMMA RestingStep ==
  ASSUME InjectInv, Resting, AudienceInv', ControlInv', Len(visits) <= Len(visits')
  PROVE  InjectInv'
<1>1. Len(visits) \in Nat /\ Len(visits') \in Nat
  BY LenProperties DEF InjectInv, AudienceInv
<1>2. States \subseteq States'
  BY <1>1 DEF States
<1>3. QueueInv'
  BY DEF InjectInv, Resting, QueueInv, Numbers, Distinct
<1>4. PlaceInv'
  BY <1>2 DEF InjectInv, Resting, PlaceInv, Numbers, Is, Items
<1>5. ShownInv'
  BY DEF InjectInv, Resting, ShownInv, ShownTwiceOnlyByRetry, Numbers
<1> QED
  BY <1>3, <1>4, <1>5 DEF InjectInv

LEMMA AudienceRests ==
  ASSUME AudienceInv, UNCHANGED audienceVars
  PROVE  AudienceInv' /\ UNCHANGED visits /\ Len(visits) <= Len(visits')
<1>1. Len(visits) \in Nat
  BY LenProperties DEF AudienceInv
<1> QED
  BY <1>1 DEF audienceVars, AudienceInv, JoinsInv, States

(* What the game does between two frames.                                  *)
LEMMA BetweenStep ==
  ASSUME InjectInv, WorldUp \/ WorldDown \/ FunctionLoads \/ Warm \/ FlushDone \/ InjectDone
  PROVE  InjectInv'
<1>1. Resting /\ UNCHANGED audienceVars
  BY DEF WorldUp, WorldDown, FunctionLoads, Warm, FlushDone, InjectDone, Between, Resting
<1>2. ControlInv'
  <2> USE Limits DEF InjectInv, ControlInv, Between
  <2>1. CASE WorldUp \/ WorldDown \/ FunctionLoads
    <3>1. FlagInv'
      <4>1. circuit' = circuit
        BY <2>1 DEF WorldUp, WorldDown, FunctionLoads
      <4>2. CASE WorldUp
        <5>1. world' = TRUE /\ cached' = cached /\ function' = function
          BY <4>2 DEF WorldUp
        <5> QED
          BY <4>1, <5>1, Zenon DEF FlagInv
      <4>3. CASE WorldDown
        <5>1. world' = FALSE /\ cached' = FALSE /\ function' = function
          BY <4>3 DEF WorldDown
        <5> QED
          BY <4>1, <5>1, Zenon DEF FlagInv
      <4>4. CASE FunctionLoads
        <5>1. world' = world /\ cached' = cached /\ function' = TRUE
          BY <4>4 DEF FunctionLoads
        <5> QED
          BY <4>1, <5>1, Zenon DEF FlagInv
      <4> QED
        BY <2>1, <4>2, <4>3, <4>4
    <3>2. CountInv'
      BY <2>1 DEF CountInv, WorldUp, WorldDown, FunctionLoads
    <3> QED
      BY <3>1, <3>2
  <2>2. CASE Warm
    BY <2>2 DEF Warm, FlagInv, CountInv
  <2>3. CASE FlushDone \/ InjectDone
    BY <2>3 DEF FlushDone, InjectDone, Limit, FlagInv, CountInv
  <2> QED
    BY <2>1, <2>2, <2>3
<1> QED
  BY <1>1, <1>2, AudienceRests, RestingStep DEF InjectInv

LEMMA GameStep ==
  ASSUME InjectInv, GameEvent \/ Chat
  PROVE  InjectInv'
<1>1. Resting /\ UNCHANGED injectVars
  BY DEF GameEvent, Chat, injectVars, Resting
<1>2. ControlInv'
  BY <1>1 DEF InjectInv, ControlInv, FlagInv, CountInv, injectVars
<1>3. CASE GameEvent
  <2>1. AudienceInv' /\ Later(visits, visits')
    BY <1>3, EventAudience, EventVisits DEF GameEvent, InjectInv, AudienceInv
  <2> QED
    BY <1>1, <1>2, <2>1, RestingStep DEF Later
<1>4. CASE Chat
  <2>1. AudienceInv' /\ visits' = visits
    BY <1>4, ChatAudience DEF Chat, ChatUpsert, InjectInv
  <2>2. Len(visits) <= Len(visits')
    BY <2>1, LenProperties DEF InjectInv, AudienceInv
  <2> QED
    BY <1>1, <1>2, <2>1, <2>2, RestingStep
<1> QED
  BY <1>3, <1>4

(* A frame begins, with a roster to which players may have been added.     *)
LEMMA UpdateFrameStep ==
  ASSUME InjectInv, NEW r, Good(visits, r), UpdateFrame(r)
  PROVE  AudienceInv' /\ ControlInv'
<1>1. Tick(r) /\ CanInjectNow /\ UNCHANGED <<hand, world, function, inbound, shown,
                                             requeued, visits>>
  BY DEF UpdateFrame, Tick
<1>2. AudienceInv'
  BY <1>1, TickAudience DEF InjectInv, AudienceInv
<1>3. ControlInv'
  <2> USE Limits DEF InjectInv, ControlInv
  <2>1. CASE circuit /\ UNCHANGED <<step, left, cached, findFaults, warm, circuit, faults>>
    BY <1>1, <2>1 DEF FlagInv, CountInv
  <2>2. CASE ~circuit /\ Unresolved /\ UNCHANGED <<step, left, warm>>
    <3>a. /\ cached' = FALSE
          /\ faults' = faults \/ (faults < MaxFaults /\ faults' = faults + 1)
          /\ \/ findFaults' = findFaults /\ circuit' = circuit
             \/ findFaults' = findFaults + 1 /\ circuit' = (findFaults + 1 >= FindFaultsMax)
      BY <2>2 DEF Unresolved, Fault
    <3>1. /\ circuit' \in BOOLEAN
          /\ findFaults' = findFaults \/ circuit' \/ findFaults' < FindFaultsMax
          /\ findFaults' \in {findFaults, findFaults + 1}
      <4>1. CASE findFaults' = findFaults /\ circuit' = circuit
        BY <4>1, Zenon DEF FlagInv
      <4>2. CASE /\ findFaults' = findFaults + 1
                 /\ circuit' = (findFaults + 1 >= FindFaultsMax)
        <5> DEFINE open == findFaults + 1 >= FindFaultsMax
        <5>1. open \in BOOLEAN /\ (~open => findFaults + 1 < FindFaultsMax)
          BY DEF CountInv
        <5>2. circuit' = open /\ findFaults' = findFaults + 1
          BY <4>2
        <5> HIDE DEF open
        <5>3. circuit' \in BOOLEAN /\ (circuit' \/ ~open)
          BY <5>1, <5>2, Zenon
        <5> QED
          BY <5>1, <5>2, <5>3
      <4> QED
        BY <3>a, <4>1, <4>2
    <3>2. FlagInv'
      BY <1>1, <3>a, <3>1, Zenon DEF FlagInv
    <3>3. CountInv'
      BY <1>1, <2>2, <3>a, <3>1 DEF CountInv
    <3> QED
      BY <3>2, <3>3
  <2>3. CASE ~circuit /\ Resolved /\ warm' = (IF warm = "unseen" THEN "warming" ELSE warm)
             /\ IF warm \in {"ramp", "full"} THEN step' = "flush" /\ left' = Limit
                ELSE UNCHANGED <<step, left>>
    <3>1. FlagInv'
      BY <1>1, <2>3, Zenon DEF FlagInv, Resolved
    <3>2. CountInv'
      BY <1>1, <2>3 DEF CountInv, Resolved, Limit
    <3> QED
      BY <3>1, <3>2
  <2> QED
    BY <1>1, <2>1, <2>2, <2>3 DEF CanInjectNow
<1> QED
  BY <1>2, <1>3

LEMMA UpdateStep == InjectInv /\ Update => InjectInv'
<1> SUFFICES ASSUME InjectInv, Update PROVE InjectInv'
  OBVIOUS
<1>1. UpdateFrame(roster) /\ UNCHANGED <<hand, inbound, shown, requeued, deferred, messages,
                                         visits>>
  BY DEF Update, UpdateFrame, Tick
<1>2. AudienceInv' /\ ControlInv'
  BY <1>1, UpdateFrameStep DEF InjectInv, AudienceInv
<1>4. Resting
  BY <1>1 DEF Resting
<1>5. Len(visits) <= Len(visits')
  BY <1>1, LenProperties DEF InjectInv, AudienceInv
<1> QED
  BY <1>2, <1>4, <1>5, RestingStep

LEMMA ControlAfter ==
  ASSUME ControlInv, SearchInv', function' = function, warm' = warm,
         step' \in {"idle", "flush", "inject"}, left' \in 0 .. Cap
  PROVE  ControlInv'
<1>1. FlagInv'
  BY Zenon DEF ControlInv, FlagInv, SearchInv
<1>2. CountInv'
  BY DEF ControlInv, CountInv, SearchInv
<1> QED
  BY <1>1, <1>2 DEF ControlInv

(* A step that starts no broadcast.                                        *)
LEMMA ControlRests ==
  ASSUME ControlInv, UNCHANGED <<world, cached, findFaults, function, warm, circuit, faults>>,
         step' \in {"idle", "flush", "inject"}, left' \in 0 .. Cap
  PROVE  ControlInv'
<1>1. faults' \in 0 .. MaxFaults
  BY DEF ControlInv, CountInv
<1>2. SearchInv'
  BY <1>1, SearchRests
<1> QED
  BY <1>2, ControlAfter

LEMMA Popped == ControlInv /\ left > 0 /\ left' = left - 1 => left' \in 0 .. Cap
BY Limits DEF ControlInv, CountInv

(* Messages from or for a player, ready to be deferred.                    *)
FreshMessages(new) ==
  /\ new \in Seq(Message)
  /\ \A i \in 1 .. Len(new) :
       new[i].kind # "row" /\ new[i].state \in States /\ new[i].fate = "queued"

LEMMA EnqueueStep ==
  ASSUME InjectInv, NEW new, FreshMessages(new), EnqueueDeferred(new),
         UNCHANGED <<hand, inbound, shown, requeued, visits>>
  PROVE  QueueInv' /\ PlaceInv' /\ ShownInv'
<1>1. QueueInv /\ PlaceInv /\ ShownInv /\ messages \in Seq(Message) /\ new \in Seq(Message)
      /\ deferred \in Seq(Numbers) /\ Distinct(deferred)
  BY DEF InjectInv, QueueInv, FreshMessages
<1>2. Len(messages) \in Nat /\ Numbers \subseteq Nat \ {0} /\ Numbers = 1 .. Len(messages)
  BY <1>1, NumbersAreNat DEF Numbers
<1>3. /\ messages' \in Seq(Message) /\ Len(messages') = Len(messages) + Len(new)
      /\ deferred' \in Seq(Numbers') /\ Len(deferred') <= DeferredMax /\ Distinct(deferred')
      /\ Items(deferred') \subseteq Items(deferred) \cup (Numbers' \ Numbers)
      /\ \A n \in Items(deferred) : Enqueued(n, messages[n])
      /\ \A n \in Numbers \ Items(deferred) : messages'[n] = messages[n]
      /\ \A i \in 1 .. Len(new) : Enqueued(Len(messages) + i, new[i])
  BY <1>1, EnqueueType
<1>4. /\ Numbers \subseteq Numbers'
      /\ \A n \in Numbers :
           /\ messages'[n].kind = messages[n].kind /\ messages'[n].state = messages[n].state
           /\ messages[n].fate # "queued" => messages'[n].fate # "queued"
  BY <1>1, EnqueueKeeps
<1>5. Items(deferred) \subseteq Numbers /\ Items(inbound) \subseteq Numbers
  BY <1>1, ElementOfSeq DEF QueueInv, Items
<1>6. ASSUME NEW n \in Numbers' \ Numbers
      PROVE  /\ messages'[n].kind # "row" /\ messages'[n].state \in States
             /\ n \in Items(deferred') => messages'[n].fate = "queued"
  <2>1. PICK i \in 1 .. Len(new) : n = Len(messages) + i
    <3>1. Len(new) \in Nat /\ n \in 1 .. Len(messages) + Len(new) \ 1 .. Len(messages)
      BY <1>1, <1>2, <1>3, LenProperties DEF Numbers
    <3>2. n - Len(messages) \in 1 .. Len(new) /\ n = Len(messages) + (n - Len(messages))
      BY <1>2, <3>1
    <3> QED
      BY <3>2
  <2>2. /\ new[i] \in Message /\ new[i].kind # "row" /\ new[i].state \in States
        /\ new[i].fate = "queued"
    BY <1>1, ElementOfSeq DEF FreshMessages
  <2>3. messages'[n] = IF n \in Items(deferred') THEN new[i]
                       ELSE [new[i] EXCEPT !.fate = "overflow"]
    BY <1>3, <2>1 DEF Enqueued
  <2> QED
    BY <2>2, <2>3 DEF Message
<1>7. ASSUME NEW n \in Numbers, messages[n].kind = "row"
      PROVE  messages'[n] = messages[n]
  BY <1>1, <1>3, <1>7 DEF PlaceInv, Is
<1>8. hand # 0 => hand \in Numbers
  BY <1>1, <1>2 DEF QueueInv
<1>9. QueueInv'
  <2>1. inbound' \in Seq(Numbers')
    BY <1>1, <1>4, GrowSeq DEF QueueInv
  <2>2. hand' \in 0 .. Len(messages')
    <3>1. Len(messages') \in Nat
      BY <1>3, LenProperties
    <3>2. hand \in 0 .. Len(messages) /\ Len(messages) <= Len(messages')
      BY <1>1, <1>2, <1>3, LenProperties DEF QueueInv
    <3> QED
      BY <1>2, <3>1, <3>2
  <2>3. Len(inbound') <= QueueMax /\ Distinct(inbound') /\ requeued' \subseteq Numbers'
    BY <1>1, <1>4 DEF QueueInv, Distinct
  <2> QED
    BY <1>3, <2>1, <2>2, <2>3 DEF QueueInv
<1>10. PlaceInv'
  <2>1. ASSUME NEW n \in Items(deferred')
        PROVE  messages'[n].kind # "row" /\ messages'[n].fate = "queued"
    <3>1. CASE n \in Items(deferred)
      <4>1. messages'[n] = messages[n]
        BY <1>3, <3>1 DEF Enqueued
      <4> QED
        BY <1>1, <3>1, <4>1 DEF PlaceInv, Is
    <3>2. CASE n \notin Items(deferred)
      BY <1>3, <1>6, <3>2
    <3> QED
      BY <3>1, <3>2
  <2>2. \A n \in Items(inbound') : /\ messages'[n].kind = "row" /\ messages'[n].fate = "queued"
                                   /\ n # hand'
    BY <1>1, <1>5, <1>7 DEF PlaceInv, Is
  <2>3. hand' # 0 => messages'[hand'].kind = "row" /\ messages'[hand'].fate = "queued"
    BY <1>1, <1>7, <1>8 DEF PlaceInv, Is
  <2>4. States' = States
    BY DEF States
  <2>5. ASSUME NEW n \in Numbers'
        PROVE  /\ messages'[n].kind = "row" /\ messages'[n].fate = "queued"
                     => n \in Items(inbound') \cup {hand'}
               /\ messages'[n].kind # "row" => messages'[n].state \in States'
    <3>1. CASE n \notin Numbers
      BY <1>6, <2>4, <3>1
    <3>2. CASE n \in Numbers
      BY <1>1, <1>4, <1>7, <2>4, <3>2 DEF PlaceInv, Is
    <3> QED
      BY <3>1, <3>2
  <2> QED
    BY <2>1, <2>2, <2>3, <2>5 DEF PlaceInv, Is
<1>11. ShownInv'
  BY <1>1, <1>4 DEF ShownInv, ShownTwiceOnlyByRetry
<1> QED
  BY <1>9, <1>10, <1>11

(* A line from a player is one.                                            *)
LEMMA FromPlayerType ==
  ASSUME visits \in Seq(Visit), NEW kind \in {"tagged", "private", "screen"}, NEW k \in States
  PROVE  /\ FromPlayer(kind, k) \in Message /\ FromPlayer(kind, k).kind = kind
         /\ FromPlayer(kind, k).state = k /\ FromPlayer(kind, k).fate = "queued"
         /\ FreshMessages(<<FromPlayer(kind, k)>>)
<1>1. visits[k] \in Visit /\ k \in Nat
  <2>1. k \in Nat
    BY LenProperties DEF States
  <2> QED
    BY <2>1, AccountType
<1>2. visits[k].player \in Players
  BY <1>1 DEF Visit
<1> DEFINE m == FromPlayer(kind, k)
<1>3. m \in Message /\ m.kind = kind /\ m.state = k /\ m.fate = "queued"
  BY <1>1, <1>2, MessageAssumption DEF FromPlayer, NewMessage, Message, MessageFates
<1> HIDE DEF m
<1>4. FreshMessages(<<m>>)
  <2>1. <<m>> \in Seq(Message) /\ Len(<<m>>) = 1 /\ <<m>>[1] = m
    BY <1>3
  <2> QED
    BY <1>3, <2>1 DEF FreshMessages
<1> QED
  BY <1>3, <1>4 DEF m

LEMMA DeferStep ==
  ASSUME InjectInv, NEW kind \in Kinds, NEW k \in States, Defer(kind, k)
  PROVE  InjectInv'
<1>1. /\ EnqueueDeferred(<<FromPlayer(kind, k)>>) /\ kind # "row"
      /\ UNCHANGED <<audienceVars, step, left, hand, world, cached, findFaults, function, warm,
                     circuit, inbound, faults, shown, requeued>>
  BY DEF Defer
<1>2. FreshMessages(<<FromPlayer(kind, k)>>)
  BY <1>1, FromPlayerType, MessageAssumption DEF InjectInv, AudienceInv
<1>3. AudienceInv' /\ visits' = visits
  BY <1>1, AudienceRests DEF InjectInv
<1>4. ControlInv'
  BY <1>1, ControlRests DEF InjectInv, ControlInv, CountInv
<1>5. QueueInv' /\ PlaceInv' /\ ShownInv'
  BY <1>1, <1>2, <1>3, EnqueueStep
<1> QED
  BY <1>3, <1>4, <1>5 DEF InjectInv

LEMMA PushRowStep ==
  ASSUME InjectInv, NEW sender \in Players \cup {Nobody}, NEW bad \in BOOLEAN,
         PushRow(sender, bad)
  PROVE  InjectInv'
<1> DEFINE m    == NewMessage("row", sender, 0, bad)
           new  == Len(messages) + 1
           lost == Dropped(inbound, QueueMax)
           old  == Mark(lost, "overflow")
<1>1. /\ messages' = Append(old, m) /\ inbound' = Push(inbound, new, QueueMax)
      /\ UNCHANGED <<audienceVars, step, left, hand, world, cached, findFaults, function, warm,
                     circuit, deferred, faults, shown, requeued>>
  BY DEF PushRow
<1>2. m \in Message /\ m.kind = "row" /\ m.fate = "queued"
  BY DEF NewMessage, Message, MessageFates
<1> HIDE DEF m
<1>3. QueueInv /\ PlaceInv /\ ShownInv /\ AudienceInv /\ ControlInv
  BY DEF InjectInv
<1>4. Len(messages) \in Nat /\ Numbers \subseteq Nat \ {0} /\ Numbers = 1 .. Len(messages)
  BY <1>3, NumbersAreNat DEF QueueInv, Numbers
<1>5. Items(deferred) \subseteq Numbers /\ Items(inbound) \subseteq Numbers
  BY <1>3, ElementOfSeq DEF QueueInv, Items
<1>6. /\ old \in Seq(Message) /\ Len(old) = Len(messages)
      /\ \A n \in Numbers :
           /\ old[n].kind = messages[n].kind /\ old[n].state = messages[n].state
           /\ old[n].fate = IF n \in lost THEN "overflow" ELSE messages[n].fate
  <2>1. "overflow" \in MessageFates /\ messages \in Seq(Message)
    BY <1>3 DEF MessageFates, QueueInv
  <2> QED
    BY <2>1, MarkType
<1> HIDE DEF old
<1>7. /\ messages' \in Seq(Message) /\ Len(messages') = new /\ messages'[new] = m
      /\ \A n \in Numbers : messages'[n] = old[n]
  BY <1>1, <1>2, <1>4, <1>6, AppendProperties
<1>8. Numbers' = Numbers \cup {new} /\ new \in Nat \ {0} /\ new \notin Numbers
      /\ Numbers \cup {new} = 1 .. new
  BY <1>4, <1>7 DEF Numbers
<1>9. inbound \in Seq(Numbers') /\ deferred \in Seq(Numbers') /\ new \in Numbers'
  BY <1>3, <1>8, GrowSeq DEF QueueInv
<1>10. inbound' \in Seq(Numbers') /\ Len(inbound') <= QueueMax
  BY <1>1, <1>3, <1>9, PushType, Limits DEF QueueInv
<1>11. /\ Distinct(inbound') /\ lost \subseteq Items(inbound)
       /\ Items(inbound') = (Items(inbound) \ lost) \cup {new}
  BY <1>1, <1>3, <1>5, <1>8, <1>9, PushDistinct, Limits DEF QueueInv
<1> HIDE DEF lost
<1>12. AudienceInv' /\ visits' = visits
  BY <1>1, <1>3, AudienceRests
<1>13. ControlInv'
  BY <1>1, <1>3, ControlRests DEF ControlInv, CountInv
<1>14. QueueInv'
  <2>1. hand' \in 0 .. Len(messages')
    BY <1>1, <1>3, <1>4, <1>7 DEF QueueInv
  <2>2. deferred' \in Seq(Numbers') /\ Len(deferred') <= DeferredMax /\ Distinct(deferred')
    BY <1>1, <1>3, <1>9 DEF QueueInv
  <2>3. requeued' \subseteq Numbers'
    BY <1>1, <1>3, <1>8 DEF QueueInv
  <2> QED
    BY <1>7, <1>10, <1>11, <2>1, <2>2, <2>3 DEF QueueInv
<1> HIDE DEF new
<1>15. PlaceInv'
  <2>1. \A n \in Items(deferred') : messages'[n].kind # "row" /\ messages'[n].fate = "queued"
    <3>1. \A n \in Items(deferred) : n \in Numbers /\ n \notin lost
      BY <1>3, <1>5, <1>11 DEF PlaceInv, Is
    <3>2. Items(deferred') = Items(deferred)
      BY <1>1
    <3>3. \A n \in Items(deferred) : messages[n].kind # "row" /\ messages[n].fate = "queued"
      BY <1>3 DEF PlaceInv, Is
    <3>4. \A n \in Items(deferred) : /\ messages'[n].kind = messages[n].kind
                                     /\ messages'[n].fate = messages[n].fate
      BY <1>6, <1>7, <3>1
    <3> QED
      BY <3>2, <3>3, <3>4
  <2>2. hand' = hand /\ hand # new /\ (hand # 0 => hand \in Numbers /\ hand \notin lost)
    BY <1>1, <1>3, <1>4, <1>8, <1>11 DEF PlaceInv, QueueInv
  <2>3. \A n \in Items(inbound') : /\ messages'[n].kind = "row" /\ messages'[n].fate = "queued"
                                   /\ n # hand'
    <3>1. ASSUME NEW n \in Items(inbound')
          PROVE  messages'[n].kind = "row" /\ messages'[n].fate = "queued" /\ n # hand'
      <4>1. CASE n = new
        BY <1>2, <1>7, <2>2, <4>1
      <4>2. CASE n # new
        BY <1>3, <1>5, <1>6, <1>7, <1>11, <2>2, <4>2 DEF PlaceInv, Is
      <4> QED
        BY <4>1, <4>2
    <3> QED
      BY <3>1
  <2>4. hand' # 0 => messages'[hand'].kind = "row" /\ messages'[hand'].fate = "queued"
    BY <1>3, <1>6, <1>7, <2>2 DEF PlaceInv, Is
  <2>5. ASSUME NEW n \in Numbers'
        PROVE  /\ messages'[n].kind = "row" /\ messages'[n].fate = "queued"
                     => n \in Items(inbound') \cup {hand'}
               /\ messages'[n].kind # "row" => messages'[n].state \in States'
    <3>1. CASE n = new
      BY <1>2, <1>7, <1>11, <3>1
    <3>2. CASE n # new
      BY <1>3, <1>6, <1>7, <1>8, <1>11, <1>12, <2>2, <3>2 DEF PlaceInv, Is, States
    <3> QED
      BY <3>1, <3>2
  <2> QED
    BY <2>1, <2>3, <2>4, <2>5 DEF PlaceInv, Is
<1>16. ShownInv'
  <2>1. \A n \in Numbers : messages[n].fate # "queued" => messages'[n].fate # "queued"
    BY <1>6, <1>7
  <2> QED
    BY <1>1, <1>3, <1>8, <2>1 DEF ShownInv, ShownTwiceOnlyByRetry
<1> QED
  BY <1>12, <1>13, <1>14, <1>15, <1>16 DEF InjectInv

-----------------------------------------------------------------------------
(* The frame                                                               *)

LEMMA DoStep ==
  ASSUME InjectInv, NEW n \in Items(deferred), NEW fate \in Fates, Do(n, fate)
  PROVE  Adds(n) /\ AudienceInv' /\ visits' = visits /\ SearchInv'
<1>1. AudienceInv /\ ControlInv /\ shown \in Seq(Broadcast) /\ messages \in Seq(Message)
  BY DEF InjectInv, ShownInv, QueueInv
<1>2. n \in Numbers /\ n \in Nat
  BY <1>1, ElementOfSeq, NumbersAreNat DEF InjectInv, QueueInv, Items
<1>3. messages[n] \in Message
  BY <1>1, <1>2, ElementOfSeq DEF Numbers
<1>4. Sender(n) \in Players \cup {Nobody}
  BY <1>3 DEF Message, Sender
<1>5. messages[n].state \in States
  BY <1>2 DEF InjectInv, PlaceInv
<1>6. CASE BroadcastDual(n, fate)
  BY <1>1, <1>2, <1>6, DualStep
<1>7. CASE BroadcastPrivate(n, fate)
  BY <1>1, <1>2, <1>4, <1>7, PrivateStep
<1>8. CASE SendScreenLog(n, fate)
  BY <1>1, <1>2, <1>5, <1>8, ScreenStep
<1>9. CASE ThrownAtOnce
  BY <1>1, <1>9, ThrownStep
<1> QED
  BY <1>6, <1>7, <1>8, <1>9 DEF Do

LEMMA FlushStep == InjectInv /\ FlushOne => InjectInv'
<1> SUFFICES ASSUME InjectInv, FlushOne PROVE InjectInv'
  OBVIOUS
<1> DEFINE n == Head(deferred)
<1>1. PICK fate \in Fates :
        /\ Do(n, fate)
        /\ messages' = Mark({n}, IF fate \in {"retry", "thrown"} THEN "failed" ELSE fate)
        /\ IF fate = "thrown" THEN AbortFrame ELSE left' = left - 1 /\ UNCHANGED step
  BY DEF FlushOne
<1> DEFINE end == IF fate \in {"retry", "thrown"} THEN "failed" ELSE fate
<1>2. /\ CanPop(deferred) /\ deferred' = Tail(deferred) /\ left > 0
      /\ UNCHANGED <<hand, function, warm, inbound, requeued>>
  BY DEF FlushOne
<1>3. QueueInv /\ PlaceInv /\ ShownInv /\ AudienceInv /\ ControlInv
  BY DEF InjectInv
<1>4. /\ Items(deferred) = {n} \cup Items(Tail(deferred)) /\ n \notin Items(Tail(deferred))
      /\ Distinct(Tail(deferred)) /\ Tail(deferred) \in Seq(Numbers) /\ n \in Numbers
      /\ Len(Tail(deferred)) <= DeferredMax
  <2>1. deferred \in Seq(Numbers) /\ Distinct(deferred) /\ Len(deferred) <= DeferredMax
    BY <1>3 DEF QueueInv
  <2>2. /\ Tail(deferred) \in Seq(Numbers) /\ n \in Numbers
        /\ Len(deferred) \in Nat \ {0} /\ Len(Tail(deferred)) = Len(deferred) - 1
    BY <1>2, <2>1, PopType
  <2>3. Len(Tail(deferred)) <= DeferredMax
    BY <2>1, <2>2, Limits
  <2> QED
    BY <1>2, <2>1, <2>2, <2>3, PopItems, PopDistinct
<1>5. Adds(n) /\ AudienceInv' /\ visits' = visits /\ SearchInv'
  BY <1>1, <1>4, DoStep
<1>6. end \in MessageFates \ {"queued"}
  BY DEF Fates, MessageFates
<1>7. messages' = Mark({n}, end)
  BY <1>1
<1> HIDE DEF n, end
<1>8. /\ messages' \in Seq(Message) /\ Len(messages') = Len(messages)
      /\ \A m \in Numbers :
           /\ messages'[m].kind = messages[m].kind /\ messages'[m].state = messages[m].state
           /\ messages'[m].fate = IF m = n THEN end ELSE messages[m].fate
  <2>1. end \in MessageFates /\ messages \in Seq(Message)
    BY <1>3, <1>6 DEF QueueInv
  <2> QED
    BY <1>7, <2>1, MarkType
<1>9. Numbers' = Numbers /\ Len(messages) \in Nat
  BY <1>3, <1>8, LenProperties DEF Numbers, QueueInv
<1>10. ControlInv'
  <2>1. step' \in {"idle", "flush", "inject"} /\ left' \in 0 .. Cap
    <3>1. CASE fate = "thrown"
      BY <1>1, <3>1, Limits DEF AbortFrame
    <3>2. CASE fate # "thrown"
      BY <1>1, <1>2, <1>3, <3>2, Popped DEF ControlInv, CountInv
    <3> QED
      BY <3>1, <3>2
  <2> QED
    BY <1>2, <1>3, <1>5, <2>1, ControlAfter
<1>11. QueueInv'
  BY <1>2, <1>3, <1>4, <1>8, <1>9 DEF QueueInv
<1>12. PlaceInv'
  <2>1. Items(inbound) \subseteq Numbers /\ Items(deferred) \subseteq Numbers
    BY <1>3, ElementOfSeq DEF QueueInv, Items
  <2>2. messages[n].kind # "row" /\ messages[n].fate = "queued"
    BY <1>3, <1>4 DEF PlaceInv, Is
  <2>3. hand # 0 => hand \in Numbers
    BY <1>3, <1>9 DEF QueueInv, Numbers
  <2>4. \A m \in Items(deferred') : messages'[m].kind # "row" /\ messages'[m].fate = "queued"
    BY <1>2, <1>3, <1>4, <1>8, <2>1 DEF PlaceInv, Is
  <2>5. \A m \in Items(inbound') : /\ messages'[m].kind = "row" /\ messages'[m].fate = "queued"
                                   /\ m # hand'
    BY <1>2, <1>3, <1>8, <2>1, <2>2 DEF PlaceInv, Is
  <2>6. hand' # 0 => messages'[hand'].kind = "row" /\ messages'[hand'].fate = "queued"
    BY <1>2, <1>3, <1>8, <2>2, <2>3 DEF PlaceInv, Is
  <2>7. \A m \in Numbers' :
          /\ messages'[m].kind = "row" /\ messages'[m].fate = "queued"
               => m \in Items(inbound') \cup {hand'}
          /\ messages'[m].kind # "row" => messages'[m].state \in States'
    BY <1>2, <1>3, <1>5, <1>8, <1>9, <2>2 DEF PlaceInv, Is, States
  <2> QED
    BY <2>4, <2>5, <2>6, <2>7 DEF PlaceInv, Is
<1>13. ShownInv'
  <2>1. messages[n].fate = "queued" /\ messages'[n].fate # "queued"
    BY <1>3, <1>4, <1>6, <1>8 DEF PlaceInv
  <2>2. \A m \in Numbers : messages[m].fate # "queued" => messages'[m].fate # "queued"
    BY <1>8, <2>1
  <2> QED
    BY <1>2, <1>3, <1>4, <1>5, <1>8, <1>9, <2>1, <2>2, AddsShown DEF QueueInv
<1> QED
  BY <1>5, <1>10, <1>11, <1>12, <1>13 DEF InjectInv

LEMMA TakeRowStep == InjectInv /\ TakeRow => InjectInv'
<1> SUFFICES ASSUME InjectInv, TakeRow PROVE InjectInv'
  OBVIOUS
<1>1. /\ hand = 0 /\ CanPop(inbound) /\ hand' = Head(inbound) /\ inbound' = Tail(inbound)
      /\ left > 0 /\ left' = left - 1
      /\ UNCHANGED <<audienceVars, step, world, cached, findFaults, function, warm, circuit,
                     deferred, faults, messages, shown, requeued>>
  BY DEF TakeRow
<1>2. QueueInv /\ PlaceInv /\ ShownInv /\ AudienceInv /\ ControlInv
  BY DEF InjectInv
<1>3. /\ Items(inbound) = {hand'} \cup Items(inbound') /\ hand' \notin Items(inbound')
      /\ Distinct(inbound') /\ inbound' \in Seq(Numbers) /\ hand' \in Numbers
      /\ Len(inbound') <= QueueMax
  <2>1. inbound \in Seq(Numbers) /\ Distinct(inbound) /\ Len(inbound) <= QueueMax
    BY <1>2 DEF QueueInv
  <2>2. /\ Tail(inbound) \in Seq(Numbers) /\ Head(inbound) \in Numbers
        /\ Len(inbound) \in Nat \ {0} /\ Len(Tail(inbound)) = Len(inbound) - 1
    BY <1>1, <2>1, PopType
  <2>3. Len(Tail(inbound)) <= QueueMax
    BY <2>1, <2>2, Limits
  <2> QED
    BY <1>1, <2>1, <2>2, <2>3, PopItems, PopDistinct
<1>4. Numbers' = Numbers /\ Numbers = 1 .. Len(messages) /\ Len(messages) \in Nat
  BY <1>1, <1>2, LenProperties DEF Numbers, QueueInv
<1>5. AudienceInv' /\ visits' = visits
  BY <1>1, <1>2, AudienceRests
<1>6. ControlInv'
  BY <1>1, <1>2, Popped, ControlRests DEF ControlInv, CountInv
<1>7. QueueInv'
  <2>1. hand' \in 0 .. Len(messages')
    BY <1>1, <1>3, <1>4
  <2> QED
    BY <1>1, <1>2, <1>3, <1>4, <2>1 DEF QueueInv
<1>8. PlaceInv'
  <2>1. \A n \in Items(deferred') : messages'[n].kind # "row" /\ messages'[n].fate = "queued"
    BY <1>1, <1>2 DEF PlaceInv, Is
  <2>2. /\ \A n \in Items(inbound') : /\ messages'[n].kind = "row"
                                      /\ messages'[n].fate = "queued" /\ n # hand'
        /\ messages'[hand'].kind = "row" /\ messages'[hand'].fate = "queued"
    BY <1>1, <1>2, <1>3 DEF PlaceInv, Is
  <2>3. \A n \in Numbers' :
          /\ messages'[n].kind = "row" /\ messages'[n].fate = "queued"
               => n \in Items(inbound') \cup {hand'}
          /\ messages'[n].kind # "row" => messages'[n].state \in States'
    <3>1. \A n \in Numbers : n # 0
      BY <1>4
    <3> QED
      BY <1>1, <1>2, <1>3, <1>4, <1>5, <3>1 DEF PlaceInv, Is, States
  <2> QED
    BY <2>1, <2>2, <2>3 DEF PlaceInv, Is
<1>9. ShownInv'
  BY <1>1, <1>2, <1>4 DEF ShownInv, ShownTwiceOnlyByRetry
<1> QED
  BY <1>5, <1>6, <1>7, <1>8, <1>9 DEF InjectInv

(* The row in hand is finished.                                            *)
LEMMA HandDone ==
  ASSUME InjectInv, hand # 0, NEW fate \in MessageFates, fate # "queued",
         messages' = Mark({hand}, fate), hand' = 0, visits' = visits,
         UNCHANGED <<deferred, inbound, requeued>>, Adds(hand)
  PROVE  QueueInv' /\ PlaceInv' /\ ShownInv'
<1>1. QueueInv /\ PlaceInv /\ ShownInv /\ messages \in Seq(Message)
  BY DEF InjectInv, QueueInv
<1>2. /\ messages' \in Seq(Message) /\ Len(messages') = Len(messages)
      /\ \A n \in Numbers :
           /\ messages'[n].kind = messages[n].kind /\ messages'[n].state = messages[n].state
           /\ messages'[n].fate = IF n = hand THEN fate ELSE messages[n].fate
  <2>1. \A n : n \in {hand} <=> n = hand
    OBVIOUS
  <2> QED
    BY <1>1, <2>1, MarkType
<1>3. /\ Numbers' = Numbers /\ Numbers = 1 .. Len(messages) /\ Len(messages) \in Nat
      /\ hand \in Numbers
  BY <1>1, <1>2, LenProperties DEF Numbers, QueueInv
<1>4. QueueInv'
  BY <1>1, <1>2, <1>3 DEF QueueInv
<1>5. /\ Items(inbound) \subseteq Numbers /\ Items(deferred) \subseteq Numbers
      /\ hand \notin Items(inbound) /\ hand \notin Items(deferred)
      /\ messages[hand].kind = "row" /\ messages[hand].fate = "queued"
  BY <1>1, ElementOfSeq DEF QueueInv, PlaceInv, Items, Is
<1>6. PlaceInv'
  <2>1. \A n \in Items(deferred') : messages'[n].kind # "row" /\ messages'[n].fate = "queued"
    BY <1>1, <1>2, <1>5 DEF PlaceInv, Is
  <2>2. \A n \in Items(inbound') : /\ messages'[n].kind = "row" /\ messages'[n].fate = "queued"
                                   /\ n # hand'
    <3>1. \A n \in Numbers : n # 0
      BY <1>3
    <3> QED
      BY <1>1, <1>2, <1>5, <3>1 DEF PlaceInv, Is
  <2>3. ASSUME NEW n \in Numbers'
        PROVE  /\ messages'[n].kind = "row" /\ messages'[n].fate = "queued"
                    => n \in Items(inbound') \cup {hand'}
               /\ messages'[n].kind # "row" => messages'[n].state \in States'
    <3>1. n \in Numbers /\ States' = States /\ inbound' = inbound
      BY <1>3 DEF States
    <3>2. CASE n = hand
      BY <1>2, <1>5, <3>1, <3>2
    <3>3. CASE n # hand
      <4>1. messages'[n].kind = messages[n].kind /\ messages'[n].state = messages[n].state
            /\ messages'[n].fate = messages[n].fate
        BY <1>2, <3>1, <3>3
      <4> QED
        BY <1>1, <3>1, <3>3, <4>1 DEF PlaceInv, Is
    <3> QED
      BY <3>2, <3>3
  <2> QED
    BY <2>1, <2>2, <2>3 DEF PlaceInv, Is
<1>7. ShownInv'
  <2>1. messages'[hand].fate # "queued"
    BY <1>2, <1>3
  <2>2. \A n \in Numbers : messages[n].fate # "queued" => messages'[n].fate # "queued"
    BY <1>2
  <2>3. Len(messages) <= Len(messages') /\ Len(messages') \in Nat
    BY <1>2, <1>3
  <2> QED
    BY <1>1, <1>3, <1>5, <2>1, <2>2, <2>3, AddsShown
<1> QED
  BY <1>4, <1>6, <1>7

LEMMA HandIsRow ==
  ASSUME InjectInv, hand # 0
  PROVE  /\ hand \in Numbers /\ hand \in Nat /\ messages \in Seq(Message)
         /\ shown \in Seq(Broadcast) /\ AudienceInv /\ ControlInv
         /\ Len(messages) \in Nat
BY LenProperties DEF InjectInv, QueueInv, ShownInv, Numbers

LEMMA RetryStep ==
  ASSUME InjectInv, step = "inject", hand # 0, RetryRow, hand' = 0,
         UNCHANGED <<function, warm, deferred>>
  PROVE  InjectInv'
<1> DEFINE lost == Dropped(inbound, QueueMax)
<1>1. /\ BroadcastDual(hand, "retry") /\ inbound' = Push(inbound, hand, QueueMax)
      /\ messages' = Mark(lost, "overflow") /\ requeued' = requeued \cup {hand}
      /\ step' = "idle" /\ left' = 0
  BY DEF RetryRow, AbortFrame
<1>2. QueueInv /\ PlaceInv /\ ShownInv /\ AudienceInv /\ ControlInv
  BY DEF InjectInv
<1>3. /\ hand \in Numbers /\ messages \in Seq(Message) /\ Len(messages) \in Nat
      /\ shown \in Seq(Broadcast) /\ hand \in Nat
  BY HandIsRow
<1>4. Adds(hand) /\ AudienceInv' /\ visits' = visits /\ SearchInv'
  BY <1>1, <1>2, <1>3, DualStep
<1>5. /\ messages' \in Seq(Message) /\ Len(messages') = Len(messages)
      /\ \A n \in Numbers :
           /\ messages'[n].kind = messages[n].kind /\ messages'[n].state = messages[n].state
           /\ messages'[n].fate = IF n \in lost THEN "overflow" ELSE messages[n].fate
  <2>1. "overflow" \in MessageFates
    BY DEF MessageFates
  <2> QED
    BY <1>1, <1>3, <2>1, MarkType
<1>6. /\ Items(inbound) \subseteq Numbers /\ Items(deferred) \subseteq Numbers
      /\ hand \notin Items(inbound)
      /\ messages[hand].kind = "row" /\ messages[hand].fate = "queued"
  BY <1>2, ElementOfSeq DEF QueueInv, PlaceInv, Items, Is
<1>7. /\ inbound' \in Seq(Numbers) /\ Len(inbound') <= QueueMax /\ Distinct(inbound')
      /\ lost \subseteq Items(inbound)
      /\ Items(inbound') = (Items(inbound) \ lost) \cup {hand}
  <2>1. inbound \in Seq(Numbers) /\ Len(inbound) <= QueueMax /\ Distinct(inbound)
    BY <1>2 DEF QueueInv
  <2>2. Push(inbound, hand, QueueMax) \in Seq(Numbers)
        /\ Len(Push(inbound, hand, QueueMax)) <= QueueMax
    BY <1>3, <2>1, PushType, Limits
  <2>3. /\ Distinct(Push(inbound, hand, QueueMax)) /\ lost \subseteq Items(inbound)
        /\ Items(Push(inbound, hand, QueueMax)) = (Items(inbound) \ lost) \cup {hand}
    BY <1>3, <1>6, <2>1, PushDistinct, Limits
  <2> QED
    BY <1>1, <2>2, <2>3
<1> HIDE DEF lost
<1>8. Numbers' = Numbers /\ \A n \in Numbers : n # 0
  BY <1>3, <1>5 DEF Numbers
<1>9. ControlInv'
  <2>1. left' \in 0 .. Cap /\ step' \in {"idle", "flush", "inject"}
    BY <1>1, Limits
  <2> QED
    BY <1>2, <1>4, <2>1, ControlAfter
<1>10. QueueInv'
  <2>1. hand' \in 0 .. Len(messages')
    BY <1>3, <1>5
  <2>2. requeued' \subseteq Numbers'
    BY <1>1, <1>2, <1>3, <1>8 DEF QueueInv
  <2> QED
    BY <1>2, <1>5, <1>7, <1>8, <2>1, <2>2 DEF QueueInv
<1>11. PlaceInv'
  <2>1. \A n \in Items(deferred') : messages'[n].kind # "row" /\ messages'[n].fate = "queued"
    <3>1. /\ Items(deferred') = Items(deferred)
          /\ \A n \in Items(deferred) : messages[n].kind # "row" /\ messages[n].fate = "queued"
      BY <1>2 DEF PlaceInv, Is
    <3>2. \A n \in Items(deferred) : n \in Numbers /\ n \notin lost
      BY <1>2, <1>6, <1>7 DEF PlaceInv, Is
    <3> QED
      BY <1>5, <3>1, <3>2
  <2>2. \A n \in Items(inbound') : /\ messages'[n].kind = "row" /\ messages'[n].fate = "queued"
                                   /\ n # hand'
    BY <1>2, <1>3, <1>5, <1>6, <1>7, <1>8 DEF PlaceInv, Is
  <2>3. \A n \in Numbers' :
          /\ messages'[n].kind = "row" /\ messages'[n].fate = "queued"
               => n \in Items(inbound') \cup {hand'}
          /\ messages'[n].kind # "row" => messages'[n].state \in States'
    BY <1>2, <1>4, <1>5, <1>7, <1>8 DEF PlaceInv, Is, States
  <2> QED
    BY <2>1, <2>2, <2>3 DEF PlaceInv, Is
<1>12. ShownInv'
  <2>1. \A n \in Numbers : messages[n].fate # "queued" => messages'[n].fate # "queued"
    BY <1>5
  <2>2. requeued \subseteq requeued' /\ hand \in requeued'
    BY <1>1
  <2>3. Len(messages') \in Nat /\ Len(messages) <= Len(messages')
    BY <1>3, <1>5
  <2> QED
    BY <1>2, <1>3, <1>4, <1>6, <2>1, <2>2, <2>3, AddsShown
<1> QED
  BY <1>4, <1>9, <1>10, <1>11, <1>12 DEF InjectInv

LEMMA BroadcastStep == InjectInv /\ BroadcastOne => InjectInv'
<1> SUFFICES ASSUME InjectInv, BroadcastOne PROVE InjectInv'
  OBVIOUS
<1>1. /\ step = "inject" /\ hand # 0 /\ hand' = 0
      /\ UNCHANGED <<function, warm, deferred>>
  BY DEF BroadcastOne
<1>2. /\ hand \in Numbers /\ messages \in Seq(Message) /\ shown \in Seq(Broadcast)
      /\ hand \in Nat /\ AudienceInv /\ ControlInv
  BY <1>1, HandIsRow
<1>3. CASE DropFiltered
  <2>1. /\ messages' = Mark({hand}, "filtered") /\ shown' = shown
        /\ UNCHANGED <<audienceVars, step, left, world, cached, findFaults, circuit, inbound,
                       faults, requeued>>
    BY <1>3 DEF DropFiltered
  <2>2. Adds(hand)
    BY <1>2, <2>1, NothingAdded
  <2>3. AudienceInv' /\ visits' = visits
    BY <1>2, <2>1, AudienceRests
  <2>4. "filtered" \in MessageFates
    BY DEF MessageFates
  <2>5. QueueInv' /\ PlaceInv' /\ ShownInv'
    BY <1>1, <2>1, <2>2, <2>3, <2>4, HandDone
  <2>6. ControlInv'
    BY <1>1, <1>2, <2>1, ControlRests DEF ControlInv, CountInv
  <2> QED
    BY <2>3, <2>5, <2>6 DEF InjectInv
<1>4. CASE ShowRow
  <2>1. PICK fate \in Fates \ {"retry", "thrown"} :
          BroadcastDual(hand, fate) /\ messages' = Mark({hand}, fate)
    BY <1>4 DEF ShowRow
  <2>2. UNCHANGED <<step, left, inbound, requeued>>
    BY <1>4 DEF ShowRow
  <2>3. Adds(hand) /\ AudienceInv' /\ visits' = visits /\ SearchInv'
    BY <1>2, <2>1, DualStep
  <2>4. fate \in MessageFates /\ fate # "queued"
    BY DEF Fates, MessageFates
  <2>5. QueueInv' /\ PlaceInv' /\ ShownInv'
    BY <1>1, <2>1, <2>2, <2>3, <2>4, HandDone
  <2>6. ControlInv'
    BY <1>1, <1>2, <2>2, <2>3, ControlAfter DEF ControlInv, CountInv
  <2> QED
    BY <2>3, <2>5, <2>6 DEF InjectInv
<1>5. CASE RetryRow
  BY <1>1, <1>5, RetryStep
<1>6. CASE ThrowRow
  <2>1. /\ ThrownAtOnce \/ BroadcastDual(hand, "thrown")
        /\ messages' = Mark({hand}, "failed") /\ step' = "idle" /\ left' = 0
        /\ UNCHANGED <<inbound, requeued>>
    BY <1>6 DEF ThrowRow, AbortFrame
  <2>2. Adds(hand) /\ AudienceInv' /\ visits' = visits /\ SearchInv'
    BY <1>2, <2>1, DualStep, ThrownStep
  <2>3. "failed" \in MessageFates
    BY DEF MessageFates
  <2>4. QueueInv' /\ PlaceInv' /\ ShownInv'
    BY <1>1, <2>1, <2>2, <2>3, HandDone
  <2>5. left' \in 0 .. Cap /\ step' \in {"idle", "flush", "inject"}
    BY <2>1, Limits
  <2>6. ControlInv'
    BY <1>1, <1>2, <2>2, <2>5, ControlAfter
  <2> QED
    BY <2>2, <2>4, <2>6 DEF InjectInv
<1> QED
  BY <1>3, <1>4, <1>5, <1>6 DEF BroadcastOne

LEMMA NextInject == InjectInv /\ [Next]_vars => InjectInv'
<1> SUFFICES ASSUME InjectInv, [Next]_vars PROVE InjectInv'
  OBVIOUS
<1>1. ASSUME NEW k \in States, NEW kind \in Kinds, Defer(kind, k)
      PROVE  InjectInv'
  BY <1>1, DeferStep
<1>2. CASE PushAnyRow
  BY <1>2, PushRowStep, MessageAssumption DEF PushAnyRow
<1>3. CASE WorldUp \/ WorldDown \/ FunctionLoads \/ Warm
  BY <1>3, BetweenStep
<1>4. CASE GameEvent \/ Chat
  BY <1>4, GameStep
<1>5. CASE Update
  BY <1>5, UpdateStep
<1>6. CASE Drain
  BY <1>6, FlushStep, BetweenStep, TakeRowStep, BroadcastStep DEF Drain
<1>7. CASE UNCHANGED vars
  <2>1. Resting /\ UNCHANGED <<audienceVars, injectVars>>
    BY <1>7 DEF vars, injectVars, Resting
  <2>2. ControlInv'
    BY <2>1 DEF InjectInv, ControlInv, FlagInv, CountInv, injectVars
  <2> QED
    BY <2>1, <2>2, AudienceRests, RestingStep DEF InjectInv
<1> QED
  BY <1>1, <1>2, <1>3, <1>4, <1>5, <1>6, <1>7 DEF Next

(* The strengthened invariant holds in every state: a queue holds a message *)
(* once, a row is queued or in hand exactly as long as its fate is open,   *)
(* and what was shown is finished.                                         *)
THEOREM InjectInvariant == Spec => []InjectInv
<1>1. Init => InjectInv
  BY InitInject
<1>2. InjectInv /\ [Next]_vars => InjectInv'
  BY NextInject
<1> QED
  BY <1>1, <1>2, PTL DEF Spec

(* Every variable of the injector keeps its type, its queues their bound,  *)
(* and the two lists of players are the roster.                            *)
THEOREM InjectTypeCorrect == Spec => []TypeOK
<1>1. InjectInv => TypeOK
  BY InjectInvIsType
<1> QED
  BY <1>1, InjectInvariant, PTL

(* No row of another server or of Discord is lost between the queue and    *)
(* the hand, or stays behind once it is finished.                          *)
THEOREM RowsCorrect == Spec => []RowsInOnePlace
<1>1. InjectInv => RowsInOnePlace
  BY InjectInvIsType
<1> QED
  BY <1>1, InjectInvariant, PTL

(* No player is shown a message twice, by either form, unless it is a row  *)
(* that was pushed back after a call of its broadcast had returned false.  *)
(* Over all faults, lost GameStates, exceptions, overflows and rejoins the *)
(* retry is the only way.                                                  *)
THEOREM ShownCorrect == Spec => []ShownTwiceOnlyByRetry
<1>1. InjectInv => ShownTwiceOnlyByRetry
  BY InjectInvIsType
<1> QED
  BY <1>1, InjectInvariant, PTL

-----------------------------------------------------------------------------
(* What a step shows                                                       *)

LEMMA StepAdds ==
  ASSUME InjectInv, [Next]_vars
  PROVE  shown' = shown \/ \E n \in Numbers : Adds(n)
<1>1. CASE FlushOne
  <2>1. PICK fate \in Fates : Do(Head(deferred), fate)
    BY <1>1 DEF FlushOne
  <2>2. deferred \in Seq(Numbers) /\ CanPop(deferred)
    BY <1>1 DEF FlushOne, InjectInv, QueueInv
  <2>3. Head(deferred) \in Items(deferred) /\ Head(deferred) \in Numbers
    BY <2>2, PopItems, PopType
  <2> QED
    BY <2>1, <2>3, DoStep
<1>2. CASE BroadcastOne
  <2>1. /\ hand # 0 /\ hand \in Numbers /\ shown \in Seq(Broadcast) /\ hand \in Nat
        /\ AudienceInv /\ ControlInv
    BY <1>2, HandIsRow DEF BroadcastOne
  <2>2. CASE DropFiltered
    BY <2>2 DEF DropFiltered
  <2>3. CASE ShowRow \/ RetryRow \/ ThrowRow
    <3>1. ThrownAtOnce \/ \E fate : BroadcastDual(hand, fate)
      BY <2>3 DEF ShowRow, RetryRow, ThrowRow
    <3> QED
      BY <2>1, <3>1, DualStep, ThrownStep
  <2> QED
    BY <1>2, <2>2, <2>3 DEF BroadcastOne
<1>3. CASE Update \/ FlushDone \/ InjectDone \/ TakeRow \/ UNCHANGED vars \/ PushAnyRow
  BY <1>3 DEF Update, UpdateFrame, FlushDone, InjectDone, TakeRow, vars, injectVars, PushAnyRow,
     PushRow
<1>4. CASE WorldUp \/ WorldDown \/ FunctionLoads \/ Warm \/ GameEvent \/ Chat
  BY <1>4 DEF WorldUp, WorldDown, FunctionLoads, Warm, GameEvent, Chat, Between, injectVars
<1>5. CASE \E k \in States, kind \in Kinds : Defer(kind, k)
  BY <1>5 DEF Defer
<1> QED
  BY <1>1, <1>2, <1>3, <1>4, <1>5 DEF Next, Drain

LEMMA NewIsGood ==
  ASSUME InjectInv, [Next]_vars, NEW c \in New
  PROVE  GoodCall(c, c.message)
<1>1. Len(shown) \in Nat
  BY LenProperties DEF InjectInv, ShownInv
<1>2. shown' # shown
  BY <1>1 DEF New
<1>3. PICK n \in Numbers : Adds(n)
  BY <1>2, StepAdds
<1>4. Len(shown') \in Nat
  BY <1>3, LenProperties DEF Adds
<1>5. PICK i \in Len(shown) + 1 .. Len(shown') : c = shown'[i]
  BY DEF New
<1>6. i \in 1 .. Len(shown') \ 1 .. Len(shown)
  BY <1>1, <1>4
<1>7. GoodCall(c, n) /\ c.message = n
  BY <1>3, <1>5, <1>6 DEF Adds, GoodCall
<1> QED
  BY <1>7

(* A line meant for all goes to players who are online at that moment.     *)
THEOREM OnlineCorrect == Spec => LinesReachTheOnline
<1>1. InjectInv /\ [Next]_vars =>
        [\A c \in New : c.style \in {"formatted", "plain"} => c.to \subseteq Online]_vars
  BY NewIsGood DEF GoodCall
<1> QED
  BY <1>1, InjectInvariant, PTL DEF Spec, LinesReachTheOnline

(* Xbox players get lines of senders who are in the session, and nobody    *)
(* else gets the plain form.                                               *)
THEOREM XboxCorrect == Spec => XboxLinesAreAttributed
<1>1. InjectInv /\ [Next]_vars =>
        [\A c \in New : c.style = "plain" => Sender(c.message) \in Online /\ c.to \subseteq Xbox]_vars
  BY NewIsGood DEF GoodCall
<1> QED
  BY <1>1, InjectInvariant, PTL DEF Spec, XboxLinesAreAttributed

-----------------------------------------------------------------------------
(* Who leaves the roster                                                   *)

(* An entry goes with its PlayerState.  Adding players who are there puts  *)
(* theirs in the place of an older one.                                    *)
LEMMA UpsertedStays ==
  ASSUME NEW r, NEW ids, \A k \in DOMAIN ids : Live(k), NEW p \in DOMAIN r, Live(r[p].state)
  PROVE  p \in DOMAIN UpsertedAs(r, ids) /\ Live(UpsertedAs(r, ids)[p].state)
<1> DEFINE more == UpsertedAs(r, ids)
           mine == VisitIn(DOMAIN ids, p)
<1>1. p \in DOMAIN more
  BY DEF UpsertedAs
<1>2. CASE mine = {}
  BY <1>1, <1>2 DEF UpsertedAs
<1>3. CASE mine # {}
  <2> DEFINE k == CHOOSE k \in mine : TRUE
  <2>1. k \in mine
    BY <1>3
  <2>2. more[p] = Entry(r, k, ids[k])
    BY <1>3 DEF UpsertedAs
  <2> HIDE DEF k, more
  <2>3. Live(k)
    BY <2>1 DEF VisitIn
  <2>4. Entry(r, k, ids[k]).state = k
    BY DEF Entry
  <2>5. Live(more[p].state)
    BY <2>2, <2>3, <2>4
  <2> QED
    BY <1>1, <2>5 DEF more
<1> QED
  BY <1>2, <1>3

LEMMA UpsertKeeps ==
  ASSUME NEW r, NEW ks, \A k \in ks : Live(k), NEW p \in DOMAIN r, Live(r[p].state)
  PROVE  p \in DOMAIN Pruned(Upserted(r, ks))
<1> DEFINE ids == [k \in ks |-> Account(k)]
<1>1. Upserted(r, ks) = UpsertedAs(r, ids) /\ DOMAIN ids = ks
  BY DEF Upserted
<1> HIDE DEF ids
<1>2. p \in DOMAIN UpsertedAs(r, ids) /\ Live(UpsertedAs(r, ids)[p].state)
  BY <1>1, UpsertedStays
<1> QED
  BY <1>1, <1>2 DEF Pruned

LEMMA PruneKeeps ==
  ASSUME NEW r, NEW p \in DOMAIN r, Live(r[p].state)
  PROVE  p \in DOMAIN Pruned(r)
BY DEF Pruned

(* A broadcast forgets players only when it opens the circuit.             *)
LEMMA OutcomeRoster ==
  ASSUME NEW calls, NEW r, NEW fate, Outcome(calls, r, fate)
  PROVE  roster' = r \/ (~circuit /\ circuit')
BY DEF Outcome, AllShown, Silent, Faults, Unready, Lost, FoundAgain, Thrown

LEMMA DualRoster ==
  ASSUME NEW n, NEW fate, BroadcastDual(n, fate), NEW p \in DOMAIN roster,
         Live(roster[p].state)
  PROVE  p \in DOMAIN roster' \/ (~circuit /\ circuit')
<1>1. PICK found \in {Readable, {}} :
        Outcome(Calls(Pruned(Bootstrapped(found)), n), Pruned(Bootstrapped(found)), fate)
  BY DEF BroadcastDual
<1>2. \A k \in found : Live(k)
  BY DEF Readable
<1>3. p \in DOMAIN Pruned(Bootstrapped(found))
  BY <1>2, UpsertKeeps, PruneKeeps DEF Bootstrapped
<1>4. roster' = Pruned(Bootstrapped(found)) \/ (~circuit /\ circuit')
  BY <1>1, OutcomeRoster
<1> QED
  BY <1>3, <1>4

LEMMA StepKeeps ==
  ASSUME [Next]_vars, NEW p \in DOMAIN roster, Live(roster[p].state)
  PROVE  p \in DOMAIN roster' \/ (~circuit /\ circuit')
<1>1. CASE FlushOne
  <2>1. PICK fate \in Fates : Do(Head(deferred), fate)
    BY <1>1 DEF FlushOne
  <2>2. CASE BroadcastDual(Head(deferred), fate)
    BY <2>2, DualRoster
  <2>3. CASE BroadcastPrivate(Head(deferred), fate)
    BY <2>3, OutcomeRoster DEF BroadcastPrivate
  <2>4. CASE SendScreenLog(Head(deferred), fate)
    BY <2>4 DEF SendScreenLog, audienceVars
  <2>5. CASE ThrownAtOnce
    BY <2>5 DEF ThrownAtOnce, Thrown
  <2> QED
    BY <2>1, <2>2, <2>3, <2>4, <2>5 DEF Do
<1>2. CASE BroadcastOne
  <2>1. CASE DropFiltered
    BY <2>1 DEF DropFiltered, audienceVars
  <2>2. CASE ShowRow \/ RetryRow \/ ThrowRow
    <3>1. ThrownAtOnce \/ \E fate : BroadcastDual(hand, fate)
      BY <2>2 DEF ShowRow, RetryRow, ThrowRow
    <3> QED
      BY <3>1, DualRoster DEF ThrownAtOnce, Thrown
  <2> QED
    BY <1>2, <2>1, <2>2 DEF BroadcastOne
<1>3. CASE Update
  <2> DEFINE ready == {k \in DOMAIN joins : Ready(k)}
  <2>1. roster' = Pruned(Upserted(roster, ready))
    BY <1>3 DEF Update, UpdateFrame, Tick
  <2>2. \A k \in ready : Live(k)
    BY DEF Ready
  <2> HIDE DEF ready
  <2> QED
    BY <2>1, <2>2, UpsertKeeps
<1>4. CASE Chat
  <2>1. PICK k \in States : \E id \in LinkIds(k) : roster' = UpsertedAs(roster, [j \in {k} |-> id])
    BY <1>4 DEF Chat, ChatUpsert
  <2> QED
    BY <2>1 DEF UpsertedAs
<1>5. CASE \/ FlushDone \/ InjectDone \/ TakeRow \/ UNCHANGED vars \/ PushAnyRow
           \/ WorldUp \/ WorldDown \/ FunctionLoads \/ Warm
           \/ \E k \in States, kind \in Kinds : Defer(kind, k)
  BY <1>5 DEF FlushDone, InjectDone, TakeRow, vars, audienceVars, PushAnyRow, PushRow, WorldUp,
              WorldDown, FunctionLoads, Warm, Between, Defer
<1>6. CASE GameEvent
  BY <1>6 DEF GameEvent, PlayerEvent, Enter, FillIn, Leave, RequestJoin
<1> QED
  BY <1>1, <1>2, <1>3, <1>4, <1>5, <1>6 DEF Next, Drain

(* OnlyTheGoneLeave: a player whose PlayerState is there stays listed,     *)
(* whatever became of his earlier visits, unless the broadcast that opens  *)
(* the circuit forgets him.                                                *)
THEOREM GoneCorrect == Spec => OnlyTheGoneLeave
<1>1. [Next]_vars =>
        [\A p \in DOMAIN roster \ DOMAIN roster' :
           p \notin Online \/ ~Live(roster[p].state) \/ (~circuit /\ circuit')]_vars
  BY StepKeeps
<1> QED
  BY <1>1, PTL DEF Spec, OnlyTheGoneLeave

-----------------------------------------------------------------------------
(* The order of the rows on the screen                                     *)

(* A row that is older than one already shown was pushed back, and so was  *)
(* one that waits behind a newer row or behind a newer row in hand.        *)
BehindShown(ns) ==
  \A i \in 1 .. Len(shown), n \in ns :
    Is(shown[i].message, "row") /\ n < shown[i].message => n \in requeued

BehindHand == hand # 0 => \A n \in Items(inbound) : n < hand => n \in requeued

OrderInv ==
  /\ RowOrder
  /\ BehindShown(Items(inbound)) /\ (hand # 0 => BehindShown({hand}))
  /\ Sorted(inbound, requeued) /\ BehindHand

(* A message keeps its number and its kind.                                *)
LEMMA MarkKinds ==
  ASSUME messages \in Seq(Message), NEW ns, NEW fate \in MessageFates,
         messages' = Mark(ns, fate)
  PROVE  /\ Numbers' = Numbers
         /\ \A n \in Numbers : messages'[n].kind = messages[n].kind
BY MarkType DEF Numbers

LEMMA KindsKept ==
  ASSUME InjectInv, [Next]_vars
  PROVE  /\ Numbers \subseteq Numbers'
         /\ \A n \in Numbers : messages'[n].kind = messages[n].kind
<1>1. messages \in Seq(Message) /\ QueueInv
  BY DEF InjectInv, QueueInv
<1>2. Len(messages) \in Nat /\ Numbers = 1 .. Len(messages)
  BY <1>1, LenProperties DEF Numbers
<1>3. ASSUME NEW k \in States, NEW kind \in Kinds, Defer(kind, k)
      PROVE  /\ Numbers \subseteq Numbers'
             /\ \A n \in Numbers : messages'[n].kind = messages[n].kind
  <2>1. FreshMessages(<<FromPlayer(kind, k)>>) /\ EnqueueDeferred(<<FromPlayer(kind, k)>>)
    BY <1>3, FromPlayerType, MessageAssumption DEF Defer, InjectInv, AudienceInv
  <2> QED
    BY <1>1, <2>1, EnqueueKeeps DEF QueueInv, FreshMessages
<1>4. ASSUME NEW sender \in Players \cup {Nobody}, NEW bad \in BOOLEAN, PushRow(sender, bad)
      PROVE  /\ Numbers \subseteq Numbers'
             /\ \A n \in Numbers : messages'[n].kind = messages[n].kind
  <2> DEFINE m   == NewMessage("row", sender, 0, bad)
             old == Mark(Dropped(inbound, QueueMax), "overflow")
  <2>1. messages' = Append(old, m)
    BY <1>4 DEF PushRow
  <2>2. "overflow" \in MessageFates /\ m \in Message
    BY DEF MessageFates, Message, NewMessage
  <2>3. /\ old \in Seq(Message) /\ Len(old) = Len(messages)
        /\ \A n \in Numbers : old[n].kind = messages[n].kind
    BY <1>1, <2>2, MarkType
  <2> HIDE DEF m, old
  <2>4. /\ messages' \in Seq(Message) /\ Len(messages') = Len(messages) + 1
        /\ \A n \in Numbers : messages'[n] = old[n]
    BY <1>2, <2>1, <2>2, <2>3, AppendProperties
  <2> QED
    BY <1>2, <2>3, <2>4 DEF Numbers
<1>5. ASSUME NEW ns, NEW fate \in MessageFates, messages' = Mark(ns, fate)
      PROVE  /\ Numbers \subseteq Numbers'
             /\ \A n \in Numbers : messages'[n].kind = messages[n].kind
  BY <1>1, <1>5, MarkKinds
<1>6. CASE FlushOne \/ BroadcastOne
  <2>1. \E ns, fate : fate \in MessageFates /\ messages' = Mark(ns, fate)
    <3>1. CASE FlushOne
      <4>1. PICK fate \in Fates :
              messages' = Mark({Head(deferred)},
                              IF fate \in {"retry", "thrown"} THEN "failed" ELSE fate)
        BY <3>1 DEF FlushOne
      <4> DEFINE end == IF fate \in {"retry", "thrown"} THEN "failed" ELSE fate
      <4>2. end \in MessageFates
        BY DEF Fates, MessageFates
      <4>3. messages' = Mark({Head(deferred)}, end)
        BY <4>1
      <4> HIDE DEF end
      <4> QED
        BY <4>2, <4>3
    <3>2. CASE BroadcastOne
      <4>1. \/ messages' = Mark({hand}, "filtered")
            \/ \E fate \in (Fates \ {"retry", "thrown"}) \cup {"failed"} : messages' = Mark({hand}, fate)
            \/ messages' = Mark(Dropped(inbound, QueueMax), "overflow")
        BY <3>2 DEF BroadcastOne, DropFiltered, ShowRow, RetryRow, ThrowRow, Fates
      <4>2. {"filtered", "overflow"} \cup (Fates \ {"retry", "thrown"}) \cup {"failed"} \subseteq MessageFates
        BY DEF Fates, MessageFates
      <4>3. CASE messages' = Mark({hand}, "filtered")
        BY <4>2, <4>3
      <4>4. CASE \E fate \in (Fates \ {"retry", "thrown"}) \cup {"failed"} : messages' = Mark({hand}, fate)
        BY <4>2, <4>4
      <4>5. CASE messages' = Mark(Dropped(inbound, QueueMax), "overflow")
        BY <4>2, <4>5
      <4> QED
        BY <4>1, <4>3, <4>4, <4>5
    <3> QED
      BY <1>6, <3>1, <3>2
  <2> QED
    BY <1>5, <2>1
<1>7. CASE messages' = messages
  BY <1>7 DEF Numbers
<1>8. CASE \/ WorldUp \/ WorldDown \/ FunctionLoads \/ Warm \/ GameEvent \/ Chat
           \/ Update \/ FlushDone \/ TakeRow \/ InjectDone \/ UNCHANGED vars
  <2>1. messages' = messages
    BY <1>8 DEF WorldUp, WorldDown, FunctionLoads, Warm, GameEvent, Chat, Between, Update,
       FlushDone, TakeRow, InjectDone, injectVars, vars
  <2> QED
    BY <1>7, <2>1
<1> QED
  BY <1>3, <1>4, <1>6, <1>8, MessageAssumption DEF Next, Drain, PushAnyRow

(* What OrderInv and this file use of the invariant.                       *)
LEMMA OrderFacts ==
  ASSUME InjectInv
  PROVE  /\ messages \in Seq(Message) /\ Len(messages) \in Nat /\ Numbers = 1 .. Len(messages)
         /\ inbound \in Seq(Nat) /\ Items(inbound) \subseteq Numbers
         /\ shown \in Seq(Broadcast) /\ Len(shown) \in Nat
         /\ hand \in Nat /\ (hand # 0 => hand \in Numbers)
         /\ \A i \in 1 .. Len(shown) : shown[i].message \in Numbers
<1>1. messages \in Seq(Message) /\ inbound \in Seq(Numbers) /\ hand \in 0 .. Len(messages)
      /\ shown \in Seq(Broadcast) /\ \A i \in 1 .. Len(shown) : shown[i].message \in Numbers
  BY DEF InjectInv, QueueInv, ShownInv
<1>2. Len(messages) \in Nat /\ Len(shown) \in Nat
  BY <1>1, LenProperties
<1>3. Numbers \subseteq Nat /\ Numbers = 1 .. Len(messages)
  BY <1>2 DEF Numbers
<1>4. inbound \in Seq(Nat)
  BY <1>1, <1>3, GrowSeq
<1>5. Items(inbound) \subseteq Numbers
  BY <1>1, ElementOfSeq DEF Items
<1> QED
  BY <1>1, <1>2, <1>3, <1>4, <1>5

(* The queue of rows stays; nothing is shown, or a message that is no row, *)
(* or the row in hand, which is then finished.                             *)
LEMMA ShowOrder ==
  ASSUME InjectInv, OrderInv, [Next]_vars, UNCHANGED <<inbound, requeued>>,
         hand' \in {hand, 0}, NEW n \in Numbers, Adds(n),
         shown' = shown \/ ~Is(n, "row") \/ (n = hand /\ hand' = 0)
  PROVE  OrderInv'
<1> USE OrderFacts
<1>1. /\ Numbers \subseteq Numbers'
      /\ \A m \in Numbers : messages'[m].kind = messages[m].kind
  BY KindsKept
<1>2. Len(shown') \in Nat /\ Len(shown) <= Len(shown')
  BY LenProperties DEF Adds
<1>3. ASSUME NEW i \in 1 .. Len(shown'), i <= Len(shown)
      PROVE  /\ i \in 1 .. Len(shown) /\ shown'[i] = shown[i] /\ shown[i].message \in Numbers
             /\ messages'[shown'[i].message].kind = "row" <=> Is(shown[i].message, "row")
  <2>1. i \in 1 .. Len(shown) /\ shown'[i] = shown[i] /\ shown[i].message \in Numbers
    BY <1>2, <1>3 DEF Adds
  <2> QED
    BY <1>1, <2>1 DEF Is
<1>4. ASSUME NEW i \in 1 .. Len(shown'), ~(i <= Len(shown))
      PROVE  /\ shown'[i].message = n
             /\ messages'[n].kind = "row" => n = hand /\ hand' = 0 /\ hand # 0
  <2>1. i \notin 1 .. Len(shown) /\ shown' # shown
    BY <1>2, <1>4
  <2>2. shown'[i].message = n
    BY <2>1 DEF Adds, GoodCall
  <2>3. messages'[n].kind = "row" <=> Is(n, "row")
    BY <1>1 DEF Is
  <2>4. n # 0
    OBVIOUS
  <2> QED
    BY <2>1, <2>2, <2>3, <2>4
<1>5. RowOrder'
  <2>1. ASSUME NEW i \in 1 .. Len(shown'), NEW j \in 1 .. Len(shown'), i < j,
               messages'[shown'[i].message].kind = "row", messages'[shown'[j].message].kind = "row",
               shown'[j].message < shown'[i].message
        PROVE  shown'[j].message \in requeued
    <3>1. CASE j <= Len(shown)
      <4>1. i <= Len(shown)
        BY <1>2, <2>1, <3>1
      <4> QED
        BY <1>3, <2>1, <3>1, <4>1 DEF OrderInv, RowOrder
    <3>2. CASE i <= Len(shown) /\ ~(j <= Len(shown))
      <4>1. shown'[j].message = hand /\ hand # 0
        BY <1>4, <2>1, <3>2
      <4>2. Is(shown[i].message, "row") /\ shown'[i] = shown[i] /\ i \in 1 .. Len(shown)
        BY <1>3, <2>1, <3>2
      <4> QED
        BY <2>1, <4>1, <4>2 DEF OrderInv, BehindShown
    <3>3. CASE ~(i <= Len(shown)) /\ ~(j <= Len(shown))
      BY <1>4, <2>1, <3>3
    <3> QED
      BY <3>1, <3>2, <3>3
  <2> QED
    BY <2>1 DEF RowOrder, Is
<1>6. ASSUME NEW ns \in SUBSET Nat, BehindShown(ns),
             hand # 0 /\ hand' = 0 => \A m \in ns : m < hand => m \in requeued
      PROVE  BehindShown(ns)'
  <2>1. ASSUME NEW i \in 1 .. Len(shown'), NEW m \in ns,
               messages'[shown'[i].message].kind = "row", m < shown'[i].message
        PROVE  m \in requeued
    <3>1. CASE i <= Len(shown)
      BY <1>3, <1>6, <2>1, <3>1 DEF BehindShown
    <3>2. CASE ~(i <= Len(shown))
      BY <1>4, <1>6, <2>1, <3>2
    <3> QED
      BY <3>1, <3>2
  <2> QED
    BY <2>1 DEF BehindShown, Is
<1>7. BehindShown(Items(inbound))'
  <2>1. Items(inbound) \in SUBSET Nat /\ Items(inbound)' = Items(inbound)
    OBVIOUS
  <2> QED
    BY <1>6, <2>1 DEF OrderInv, BehindHand
<1>8. hand' # 0 => BehindShown({hand})'
  BY <1>6 DEF OrderInv
<1>9. Sorted(inbound, requeued)' /\ BehindHand'
  BY DEF OrderInv, BehindHand, Sorted
<1> QED
  BY <1>5, <1>7, <1>8, <1>9 DEF OrderInv

(* Nothing is shown: what matters is the queue and the hand.               *)
LEMMA QueueOrder ==
  ASSUME InjectInv, OrderInv, [Next]_vars, shown' = shown, requeued \subseteq requeued',
         \A n \in Items(inbound') \cup ({hand'} \ {0}) :
           \/ n \in Items(inbound) \cup ({hand} \ {0})
           \/ n \notin Numbers /\ n \in Nat /\ n > Len(messages),
         Sorted(inbound', requeued'), BehindHand'
  PROVE  OrderInv'
<1> USE OrderFacts
<1>1. \A m \in Numbers : messages'[m].kind = messages[m].kind
  BY KindsKept
<1>2. ASSUME NEW i \in 1 .. Len(shown)
      PROVE  /\ shown'[i] = shown[i] /\ shown[i].message \in Numbers
             /\ messages'[shown'[i].message].kind = "row" <=> Is(shown[i].message, "row")
  BY <1>1 DEF Is
<1>3. RowOrder'
  BY <1>2 DEF OrderInv, RowOrder, Is
<1>4. ASSUME NEW n \in Items(inbound') \cup ({hand'} \ {0}), NEW i \in 1 .. Len(shown'),
             messages'[shown'[i].message].kind = "row", n < shown'[i].message
      PROVE  n \in requeued'
  <2>1. i \in 1 .. Len(shown) /\ shown'[i] = shown[i] /\ Is(shown[i].message, "row")
        /\ shown[i].message \in Numbers
    BY <1>2, <1>4
  <2>2. n \in Items(inbound) \/ (n = hand /\ hand # 0)
    BY <1>4, <2>1
  <2>3. n \in requeued
    BY <1>4, <2>1, <2>2 DEF OrderInv, BehindShown
  <2> QED
    BY <2>3
<1>5. BehindShown(Items(inbound))' /\ (hand' # 0 => BehindShown({hand})')
  BY <1>4 DEF BehindShown, Is
<1> QED
  BY <1>3, <1>5 DEF OrderInv

LEMMA PushRowOrder ==
  ASSUME InjectInv, OrderInv, [Next]_vars, NEW sender \in Players \cup {Nobody},
         NEW bad \in BOOLEAN, PushRow(sender, bad)
  PROVE  OrderInv'
<1> USE OrderFacts
<1> DEFINE new == Len(messages) + 1
<1>1. inbound' = Push(inbound, new, QueueMax) /\ UNCHANGED <<hand, shown, requeued>>
  BY DEF PushRow
<1>2. new \in Nat /\ new \notin Numbers /\ new > Len(messages)
      /\ \A n \in Numbers : n \in Nat /\ n < new
  OBVIOUS
<1> HIDE DEF new
<1>3. Items(inbound') = (Items(inbound) \ Dropped(inbound, QueueMax)) \cup {new}
  <2>1. Distinct(inbound) /\ inbound \in Seq(Nat) /\ new \notin Items(inbound)
    BY <1>2 DEF InjectInv, QueueInv
  <2>2. QueueMax \in Nat \ {0} /\ new \in Nat
    BY <1>2, Limits
  <2>3. Items(Push(inbound, new, QueueMax))
          = (Items(inbound) \ Dropped(inbound, QueueMax)) \cup {new}
    BY <2>1, <2>2, PushDistinct
  <2> QED
    BY <1>1, <2>3
<1>4. Sorted(inbound', requeued')
  <2>1. \A n \in Items(inbound) : ~(new < n)
    BY <1>2
  <2> QED
    BY <1>1, <1>2, <2>1, SortedPush, Limits DEF OrderInv
<1>5. BehindHand'
  BY <1>1, <1>2, <1>3 DEF OrderInv, BehindHand
<1> QED
  BY <1>1, <1>2, <1>3, <1>4, <1>5, QueueOrder

LEMMA TakeRowOrder ==
  ASSUME InjectInv, OrderInv, [Next]_vars, TakeRow
  PROVE  OrderInv'
<1> USE OrderFacts
<1>1. /\ hand = 0 /\ CanPop(inbound) /\ hand' = Head(inbound) /\ inbound' = Tail(inbound)
      /\ UNCHANGED <<shown, requeued>>
  BY DEF TakeRow
<1>2. Items(inbound) = {hand'} \cup Items(inbound')
  BY <1>1, PopItems
<1>3. Sorted(inbound', requeued') /\ BehindHand'
  BY <1>1, SortedTail DEF OrderInv, BehindHand
<1> QED
  BY <1>1, <1>2, <1>3, QueueOrder

(* A row that is pushed back is one of those that may come late.           *)
LEMMA RetryOrder ==
  ASSUME InjectInv, OrderInv, [Next]_vars, RetryRow, hand # 0, hand' = 0
  PROVE  OrderInv'
<1> USE OrderFacts
<1>1. /\ BroadcastDual(hand, "retry") /\ inbound' = Push(inbound, hand, QueueMax)
      /\ requeued' = requeued \cup {hand}
  BY DEF RetryRow
<1>2. /\ Adds(hand) /\ Len(shown') \in Nat /\ Len(shown) <= Len(shown')
      /\ \A m \in Numbers : messages'[m].kind = messages[m].kind
  <2>1. Adds(hand)
    BY <1>1, DualStep DEF InjectInv
  <2> QED
    BY <2>1, KindsKept, LenProperties DEF Adds
<1>3. Items(inbound') = (Items(inbound) \ Dropped(inbound, QueueMax)) \cup {hand}
  <2>1. Distinct(inbound) /\ hand \notin Items(inbound)
    BY DEF InjectInv, QueueInv, PlaceInv
  <2>2. inbound \in Seq(Nat) /\ hand \in Nat
    OBVIOUS
  <2>3. Items(Push(inbound, hand, QueueMax))
          = (Items(inbound) \ Dropped(inbound, QueueMax)) \cup {hand}
    BY <2>1, <2>2, PushDistinct, Limits
  <2> QED
    BY <1>1, <2>3
<1>4. Sorted(inbound', requeued')
  BY <1>1, SortedPush, Limits DEF OrderInv
<1>5. BehindHand'
  BY DEF BehindHand
<1>6. ASSUME NEW i \in 1 .. Len(shown')
      PROVE  \/ /\ i \in 1 .. Len(shown) /\ shown'[i] = shown[i]
                /\ messages'[shown'[i].message].kind = "row" <=> Is(shown[i].message, "row")
             \/ i > Len(shown) /\ shown'[i].message = hand
  <2>1. CASE i \in 1 .. Len(shown)
    BY <1>2, <2>1 DEF Adds, Is
  <2>2. CASE i \notin 1 .. Len(shown)
    BY <1>2, <2>2 DEF Adds, GoodCall
  <2> QED
    BY <2>1, <2>2
<1>7. RowOrder'
  <2>1. ASSUME NEW i \in 1 .. Len(shown'), NEW j \in 1 .. Len(shown'), i < j,
               messages'[shown'[i].message].kind = "row", messages'[shown'[j].message].kind = "row",
               shown'[j].message < shown'[i].message
        PROVE  shown'[j].message \in requeued'
    <3>1. CASE j \in 1 .. Len(shown)
      <4>1. ~(i > Len(shown)) /\ ~(j > Len(shown))
        BY <2>1, <3>1
      <4> QED
        BY <1>1, <1>6, <2>1, <4>1 DEF OrderInv, RowOrder
    <3>2. CASE j \notin 1 .. Len(shown)
      BY <1>1, <1>6, <3>2
    <3> QED
      BY <3>1, <3>2
  <2> QED
    BY <2>1 DEF RowOrder, Is
<1>8. BehindShown(Items(inbound))'
  <2>1. ASSUME NEW i \in 1 .. Len(shown'), NEW n \in Items(inbound'),
               messages'[shown'[i].message].kind = "row", n < shown'[i].message
        PROVE  n \in requeued'
    <3>1. CASE n = hand
      BY <1>1, <3>1
    <3>2. CASE n # hand /\ i \in 1 .. Len(shown)
      <4>1. n \in Items(inbound)
        BY <1>3, <2>1, <3>2
      <4>2. ~(i > Len(shown)) /\ shown'[i] = shown[i] /\ Is(shown[i].message, "row")
        BY <1>6, <2>1, <3>2
      <4> QED
        BY <1>1, <2>1, <3>2, <4>1, <4>2 DEF OrderInv, BehindShown
    <3>3. CASE n # hand /\ i \notin 1 .. Len(shown)
      BY <1>1, <1>3, <1>6, <2>1, <3>3 DEF OrderInv, BehindHand
    <3> QED
      BY <3>1, <3>2, <3>3
  <2> QED
    BY <2>1 DEF BehindShown, Is
<1> QED
  BY <1>4, <1>5, <1>7, <1>8 DEF OrderInv

-----------------------------------------------------------------------------
(* Every step                                                              *)

(* The rows are left alone.                                                *)
LEMMA QuietOrder ==
  ASSUME InjectInv, OrderInv, [Next]_vars, UNCHANGED <<hand, inbound, shown, requeued>>
  PROVE  OrderInv'
<1>1. Sorted(inbound', requeued') /\ BehindHand'
  BY DEF OrderInv, BehindHand, Sorted
<1> QED
  BY <1>1, QueueOrder

LEMMA FlushOrder ==
  ASSUME InjectInv, OrderInv, [Next]_vars, FlushOne
  PROVE  OrderInv'
<1> DEFINE n == Head(deferred)
<1>1. PICK fate \in Fates : Do(n, fate)
  BY DEF FlushOne
<1>2. CanPop(deferred) /\ UNCHANGED <<hand, inbound, requeued>>
  BY DEF FlushOne
<1>3. n \in Items(deferred) /\ n \in Numbers
  BY <1>2, PopItems, PopType DEF InjectInv, QueueInv
<1>4. Adds(n)
  BY <1>1, <1>3, DoStep
<1>5. ~Is(n, "row")
  BY <1>3 DEF InjectInv, PlaceInv
<1> HIDE DEF n
<1> QED
  BY <1>2, <1>3, <1>4, <1>5, ShowOrder

LEMMA BroadcastOrder ==
  ASSUME InjectInv, OrderInv, [Next]_vars, BroadcastOne
  PROVE  OrderInv'
<1>1. hand # 0 /\ hand' = 0 /\ hand \in Numbers
  BY HandIsRow DEF BroadcastOne
<1>2. CASE DropFiltered
  <2>1. UNCHANGED <<inbound, shown, requeued>>
    BY <1>2 DEF DropFiltered
  <2>2. Adds(hand)
    BY <2>1, NothingAdded DEF InjectInv, ShownInv
  <2> QED
    BY <1>1, <2>1, <2>2, ShowOrder
<1>3. CASE ShowRow
  <2>1. UNCHANGED <<inbound, requeued>> /\ \E fate : BroadcastDual(hand, fate)
    BY <1>3 DEF ShowRow
  <2>2. Adds(hand)
    BY <1>1, <2>1, HandIsRow, DualStep
  <2> QED
    BY <1>1, <2>1, <2>2, ShowOrder
<1>4. CASE RetryRow
  BY <1>1, <1>4, RetryOrder
<1>5. CASE ThrowRow
  <2>1. UNCHANGED <<inbound, requeued>> /\ (ThrownAtOnce \/ BroadcastDual(hand, "thrown"))
    BY <1>5 DEF ThrowRow
  <2>2. Adds(hand)
    BY <1>1, <2>1, HandIsRow, DualStep, ThrownStep
  <2> QED
    BY <1>1, <2>1, <2>2, ShowOrder
<1> QED
  BY <1>2, <1>3, <1>4, <1>5 DEF BroadcastOne

LEMMA NextOrder == InjectInv /\ OrderInv /\ [Next]_vars => OrderInv'
<1> SUFFICES ASSUME InjectInv, OrderInv, [Next]_vars PROVE OrderInv'
  OBVIOUS
<1>1. CASE PushAnyRow
  BY <1>1, PushRowOrder, MessageAssumption DEF PushAnyRow
<1>2. CASE FlushOne
  BY <1>2, FlushOrder
<1>3. CASE TakeRow
  BY <1>3, TakeRowOrder
<1>4. CASE BroadcastOne
  BY <1>4, BroadcastOrder
<1>5. CASE Update \/ FlushDone \/ InjectDone \/ UNCHANGED vars
  <2>1. UNCHANGED <<hand, inbound, shown, requeued>>
    BY <1>5 DEF Update, UpdateFrame, FlushDone, InjectDone, vars, injectVars
  <2> QED
    BY <2>1, QuietOrder
<1>6. CASE WorldUp \/ WorldDown \/ FunctionLoads \/ Warm \/ GameEvent \/ Chat
  <2>1. UNCHANGED <<hand, inbound, shown, requeued>>
    BY <1>6 DEF WorldUp, WorldDown, FunctionLoads, Warm, GameEvent, Chat, Between, injectVars
  <2> QED
    BY <2>1, QuietOrder
<1>7. CASE \E k \in States, kind \in Kinds : Defer(kind, k)
  <2>1. UNCHANGED <<hand, inbound, shown, requeued>>
    BY <1>7 DEF Defer
  <2> QED
    BY <2>1, QuietOrder
<1> QED
  BY <1>1, <1>2, <1>3, <1>4, <1>5, <1>6, <1>7 DEF Next, Drain

LEMMA InitOrder == Init => OrderInv
<1> SUFFICES ASSUME Init PROVE OrderInv
  OBVIOUS
<1>1. inbound = <<>> /\ shown = <<>> /\ hand = 0 /\ Len(<<>>) = 0
  BY EmptySeq DEF Init
<1>2. Items(inbound) = {}
  BY <1>1 DEF Items
<1>3. RowOrder /\ Sorted(inbound, requeued)
  BY <1>1 DEF RowOrder, Sorted
<1> QED
  BY <1>1, <1>2, <1>3 DEF OrderInv, BehindShown, BehindHand

(* Rows are shown in the order in which the worker queued them, whatever   *)
(* overflows, faults or is filtered, except for a row that was pushed back.*)
THEOREM RowOrderCorrect == Spec => []RowOrder
<1>1. Init => OrderInv
  BY InitOrder
<1>2. InjectInv /\ OrderInv /\ [Next]_vars => OrderInv'
  BY NextOrder
<1>3. OrderInv => RowOrder
  BY DEF OrderInv
<1> QED
  BY <1>1, <1>2, <1>3, InjectInvariant, PTL DEF Spec
=============================================================================
