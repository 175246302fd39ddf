------------------------------ MODULE Audience ------------------------------
(***************************************************************************)
(* The roster of src/Audience.cpp: who is online, and on what platform.    *)
(* Nothing tells the tracker that a player has left; it holds a weak       *)
(* pointer to his PlayerState and looks whether the object still exists.   *)
(* A player who comes back has a new PlayerState.  Joins wait a number of  *)
(* frames until the new object can be read.                                *)
(*                                                                         *)
(* All of it runs on the game thread; m_mutex is never contended.  Every   *)
(* caller of Upsert has read the uid from a PlayerState, so has_weak is    *)
(* always true.  A read that faults is a read that finds nothing yet.      *)
(***************************************************************************)
EXTENDS PlatformId

CONSTANTS
  Players,
  Xbox,       \* the players whose platform id begins with gdk_
  AccountName, \* what a player's PlayerState says of his account, once it is filled in
  NetId,      \* what the game makes of his net id
  SoftReady,  \* kJoinSoftReadyFrames
  MaxWait,    \* kJoinMaxWaitFrames
  JoinHook,   \* the join hook could be registered
  Filled,     \* outcomes of reading a new PlayerState: FALSE if its ids come later
  MaxVisits   \* bound: PlayerStates created

ASSUME PlatformAssumption ==
  /\ AccountName \in [Players -> Text] /\ NetId \in [Players -> Text]
  /\ \A p \in Players :
       /\ IsXboxPlatform(NormalizePlatformUserId(AccountName[p])) <=> p \in Xbox
       /\ IsXboxPlatform(NormalizePlatformUserId(NetId[p])) => p \in Xbox
ASSUME GameAssumption ==
  Xbox \subseteq Players /\ JoinHook \in BOOLEAN /\ Filled \subseteq BOOLEAN
ASSUME FrameAssumption == /\ SoftReady \in Nat \ {0} /\ MaxWait \in Nat /\ MaxVisits \in Nat
                          /\ SoftReady <= MaxWait

VARIABLES
  visits,       \* the PlayerStates, by number: [player, live, uid, account]
  joins,        \* m_pending_joins: [waiting PlayerState -> its frames]
  roster,       \* m_roster: [listed player -> [platform, state]]
  xbox, others, \* m_xbox, m_others
  bootstrapped, \* m_bootstrapped
  givenUp       \* history: joins dropped after MaxWait frames

audienceVars == <<visits, joins, roster, xbox, others, bootstrapped, givenUp>>

States == 1 .. Len(visits)
Live(k) == visits[k].live
Online == {visits[k].player : k \in {k \in States : Live(k)}}

AudienceInit ==
  /\ visits = <<>> /\ joins = <<>>
  /\ roster = <<>> /\ xbox = {} /\ others = {}
  /\ bootstrapped = FALSE /\ givenUp = {}

-----------------------------------------------------------------------------
(* The game                                                                *)

(* A PlayerState appears; its ids are filled in later, in any order.       *)
Enter(p) ==
  /\ Len(visits) < MaxVisits /\ p \notin Online
  /\ \E u, a \in Filled :
       visits' = Append(visits, [player |-> p, live |-> TRUE, uid |-> u, account |-> a])
  /\ UNCHANGED <<joins, roster, xbox, others, bootstrapped, givenUp>>

FillIn(k) ==
  /\ Live(k)
  /\ \/ ~visits[k].uid /\ visits' = [visits EXCEPT ![k].uid = TRUE]
     \/ ~visits[k].account /\ visits' = [visits EXCEPT ![k].account = TRUE]
  /\ UNCHANGED <<joins, roster, xbox, others, bootstrapped, givenUp>>

Leave(k) ==
  /\ Live(k)
  /\ visits' = [visits EXCEPT ![k].live = FALSE]
  /\ UNCHANGED <<joins, roster, xbox, others, bootstrapped, givenUp>>

-----------------------------------------------------------------------------
(* What the functions of AudienceTracker do to a roster                    *)

(* The platform id that is read from a PlayerState.  !setdiscord calls a   *)
(* function of the game where that is none, which may fault, and keeps     *)
(* what it found for the player's next command, on any PlayerState.        *)
AccountId == [p \in Players |-> NormalizePlatformUserId(AccountName[p])]
EitherId  == [p \in Players |-> ResolvePlatformUserId(AccountName[p], NetId[p])]
BareId    == [p \in Players |-> ResolvePlatformUserId(<<>>, NetId[p])]

Account(k) == IF visits[k].account THEN AccountId[visits[k].player] ELSE <<>>
LinkIds(k) == {Account(k), EitherId[visits[k].player], BareId[visits[k].player]}

(* Upsert, for PlayerStates of different players with the ids that were    *)
(* found.  It normalises them once more, which changes nothing (theorem    *)
(* NormalizedTwice of ChatInjectProofs).  A platform that cannot be read   *)
(* does not replace one that is known.                                     *)
VisitIn(ks, p) == {k \in ks : visits[k].player = p}

Entry(r, k, id) ==
  [platform |-> IF id = <<>> /\ visits[k].player \in DOMAIN r
                THEN r[visits[k].player].platform ELSE id,
   state    |-> k]

UpsertedAs(r, ids) ==
  [p \in DOMAIN r \cup {visits[k].player : k \in DOMAIN ids} |->
     IF VisitIn(DOMAIN ids, p) = {} THEN r[p]
     ELSE LET k == CHOOSE k \in VisitIn(DOMAIN ids, p) : TRUE IN Entry(r, k, ids[k])]
Upserted(r, ks) == UpsertedAs(r, [k \in ks |-> Account(k)])

(* Mutant: an entry goes when any PlayerState of its player is gone.       *)
PrunedByPlayer(r) ==
  [p \in {p \in DOMAIN r : \A k \in States : visits[k].player = p => Live(k)} |-> r[p]]

(* Mutant: an entry without a weak pointer is never looked at.             *)
PrunedNever(r) == r

Pruned(r) == [p \in {p \in DOMAIN r : Live(r[p].state)} |-> r[p]]
Forgotten(r, gone) == [p \in DOMAIN r \ gone |-> r[p]]

IsXbox(r, p) == IsXboxPlatform(r[p].platform)
XboxOf(r) == {p \in DOMAIN r : IsXbox(r, p)}

(* Mutant: m_others is not told from the roster.                           *)
OthersAreAll(r) == DOMAIN r

OthersOf(r) == {p \in DOMAIN r : ~IsXbox(r, p)}
RebuildLists(r) == xbox' = XboxOf(r) /\ others' = OthersOf(r)

-----------------------------------------------------------------------------
(* The operations of the tracker                                           *)

(* EnqueueJoin: one entry for a PlayerState, however often it asks.        *)
RequestJoin(k) ==
  /\ JoinHook /\ Live(k) /\ k \notin DOMAIN joins
  /\ joins' = [j \in DOMAIN joins \cup {k} |-> IF j = k THEN 0 ELSE joins[j]]
  /\ UNCHANGED <<visits, roster, xbox, others, bootstrapped, givenUp>>

(* ProcessPendingJoins: an entry counts its frames and is added, dropped   *)
(* or kept; the entry of a PlayerState that is gone is dropped.            *)
Frames(k) == joins[k] + 1

(* Mutant: the time is up before the last look.                            *)
ReadySoonerThanLast(k) ==
  Live(k) /\ visits[k].uid /\ Frames(k) >= SoftReady /\ Frames(k) < MaxWait

Ready(k)   == Live(k) /\ visits[k].uid /\ Frames(k) >= SoftReady
Waiting(k) == Live(k) /\ ~Ready(k) /\ Frames(k) < MaxWait
Late(k)    == Live(k) /\ ~Ready(k) /\ Frames(k) >= MaxWait

(* Tick, once a frame, with roster r: the joins, then whoever is gone.     *)
Tick(r) ==
  /\ joins' = [k \in {k \in DOMAIN joins : Waiting(k)} |-> Frames(k)]
  /\ givenUp' = givenUp \cup {k \in DOMAIN joins : Late(k)}
  /\ roster' = Pruned(Upserted(r, {k \in DOMAIN joins : Ready(k)}))
  /\ RebuildLists(roster')
  /\ UNCHANGED <<visits, bootstrapped>>

(* A chat line of a player whose uid can be read, or a !setdiscord.        *)
ChatUpsert(k) ==
  /\ Live(k) /\ visits[k].uid
  /\ \E id \in LinkIds(k) : roster' = UpsertedAs(roster, [j \in {k} |-> id])
  /\ RebuildLists(roster')
  /\ UNCHANGED <<visits, joins, bootstrapped, givenUp>>

(* TryBootstrapOnce: one scan, which may find nothing by a fault and is    *)
(* not repeated.                                                           *)
Readable == {k \in States : Live(k) /\ visits[k].uid}
Bootstrapped(found) == IF bootstrapped THEN roster ELSE Upserted(roster, found)

(* What happens to the players between two frames.                         *)
PlayerEvent == \/ \E p \in Players : Enter(p)
               \/ \E k \in States : FillIn(k) \/ Leave(k) \/ RequestJoin(k)

-----------------------------------------------------------------------------
(* Properties                                                              *)

(* The type of every variable.                                             *)
AudienceTypeOK ==
  /\ visits \in Seq([player : Players, live : BOOLEAN, uid : BOOLEAN, account : BOOLEAN])
  /\ DOMAIN joins \subseteq States
  /\ \A k \in DOMAIN joins : joins[k] \in Nat /\ joins[k] < MaxWait
  /\ DOMAIN roster \subseteq Players
  /\ \A p \in DOMAIN roster : roster[p] \in [platform : Text, state : States]
  /\ xbox \cup others \subseteq Players
  /\ bootstrapped \in BOOLEAN /\ givenUp \subseteq States

(* The two lists that a broadcast goes to are the roster, each player on   *)
(* one of them (RebuildListsUnlocked after every change), and an entry     *)
(* points to a PlayerState of its own player.                              *)
ListsPartitionRoster ==
  /\ xbox \cup others = DOMAIN roster /\ xbox \cap others = {}
  /\ xbox \subseteq Xbox
  /\ \A p \in DOMAIN roster : visits[roster[p].state].player = p

(* A player who joins and stays is listed, unless his uid could not be     *)
(* read up to the last frame that his join waits for it.                   *)
Listed(k) == visits[k].player \in DOMAIN roster /\ roster[visits[k].player].state = k
JoinIsListed ==
  \A k \in 1 .. MaxVisits :
    k \in DOMAIN joins
      ~> (k \notin States \/ Listed(k) \/ ~Live(k) \/ (k \in givenUp /\ ~visits[k].uid))
=============================================================================
