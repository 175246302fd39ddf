----------------------------- MODULE GameThread -----------------------------
(***************************************************************************)
(* The game thread of one server: the chat hook of ChatCapture and the     *)
(* frames of ChatInject around one roster and one list of deferred work.   *)
(* With ShowLocalServerTag the hook clears a line from the game's own chat *)
(* and ChatInject has to bring it back, one or more frames later, through  *)
(* lists that may be full, a circuit that may be open, and to a player who *)
(* may have left and come back.                                            *)
(*                                                                         *)
(* ChatInject is extended; ChatCapture is instantiated, on variables of    *)
(* its own.  What a hook defers without saying so to ChatCapture (mute     *)
(* banners) or to ChatInject (whose line it was) is added here.  The jobs  *)
(* of !setdiscord and their results are in DiscordLink; the clock of the   *)
(* mutes, which is in ChatCapture, stands still.                           *)
(***************************************************************************)
EXTENDS ChatInject

CONSTANTS Unknown, Inputs, MuteTimes, NoticeGap, ShowLocalServerTag, LinksMax, PendingMax,
          MaxLines

VARIABLES
  now, mutes, names, links, pending, lines, rebroadcast, relayed, reported, banners,
  overflowed,
  typedBy,  \* the PlayerState each line was typed by (the controller kept with it)
  comebacks \* history: the messages by which the lines of rebroadcast come back

C == INSTANCE ChatCapture WITH MaxTime <- 0

ASSUME HookAssumption ==
  Unknown \notin Players /\ Inputs \subseteq C!Line /\ ShowLocalServerTag \in BOOLEAN
ASSUME HookLimits ==
  /\ MuteTimes \subseteq Nat /\ NoticeGap \in Nat /\ MaxLines \in Nat
  /\ {LinksMax, PendingMax} \subseteq Nat \ {0}

captureVars == <<now, mutes, names, links, pending, lines, rebroadcast, relayed, reported,
                 banners, overflowed>>
gameVars == <<vars, captureVars, typedBy, comebacks>>

GameInit == Init /\ C!Init /\ typedBy = <<>> /\ comebacks = <<>>

-----------------------------------------------------------------------------
(* What a step of ChatCapture hands to ChatInject                          *)

(* EnqueueLocalTagged, for every line it rebroadcasts, with the uid that   *)
(* was read when the line was typed.                                       *)
Tagged ==
  [i \in 1 .. Len(rebroadcast') - Len(rebroadcast) |->
     LET n == rebroadcast'[Len(rebroadcast) + i]
         l == lines'[n].line
     IN  NewMessage("tagged", IF l.uid THEN l.player ELSE Nobody, typedBy'[n], FALSE)]

(* show_mute_banner: a private line, if there is a uid to send it to, and  *)
(* the screen of the player.                                               *)
MuteBanner(k) ==
  IF banners' = banners THEN <<>>
  ELSE (IF visits[k].uid THEN <<FromPlayer("private", k)>> ELSE <<>>)
       \o <<FromPlayer("screen", k)>>

(* All that is deferred at once, banners before rebroadcast lines.         *)
DeferWith(notices) ==
  /\ EnqueueDeferred(notices \o Tagged)
  /\ comebacks' = comebacks \o [i \in 1 .. Len(Tagged) |-> Len(messages) + Len(notices) + i]

(* Mutant: a line does not put its player on the roster.                   *)
NoUpsert(l, k) == roster

(* The roster after a hook: whoever chats is listed.                       *)
Chatted(l, k) == IF l.kind # "setdiscord" /\ l.uid THEN Upserted(roster, {k}) ELSE roster

(* EnterChat_Receive for a player's line.                                  *)
HandleHook(l, k) ==
  /\ step = "idle" /\ Live(k)
  /\ l.player = visits[k].player /\ l.uid = visits[k].uid
  /\ C!HandleHook(l)
  /\ typedBy' = Append(typedBy, k)
  /\ roster' = Chatted(l, k) /\ RebuildLists(roster')
  /\ DeferWith(MuteBanner(k))
  /\ UNCHANGED <<visits, joins, bootstrapped, givenUp, step, left, hand, world, cached,
                 findFaults, function, warm, circuit, inbound, faults, shown, requeued>>

(* ProcessSetDiscord lists the players of the commands it meets.           *)
Linked == {k \in {typedBy[n] : n \in Items(links)} : Live(k) /\ visits[k].uid}

(* on_update: the pending commands and lines, then Tick and Drain.         *)
FlushCapture ==
  IF CanPop(links) \/ CanPop(pending)
  THEN C!FlushDeferred /\ DeferWith(<<>>)
  ELSE UNCHANGED <<captureVars, deferred, messages, comebacks>>

OnUpdate ==
  /\ UNCHANGED typedBy /\ FlushCapture
  /\ \E ids \in [Linked -> UNION {LinkIds(k) : k \in Linked}] :
       /\ \A k \in Linked : ids[k] \in LinkIds(k)
       /\ UpdateFrame(UpsertedAs(roster, ids))

Inject == Drain \/ WorldUp \/ WorldDown \/ FunctionLoads \/ Warm \/ GameEvent
          \/ PushAnyRow

GameNext ==
  \/ \E l \in Inputs : \E k \in States : HandleHook(l, k)
  \/ OnUpdate
  \/ Inject /\ UNCHANGED <<captureVars, typedBy, comebacks>>

GameSpec == GameInit /\ [][GameNext]_gameVars

-----------------------------------------------------------------------------
(* Properties                                                              *)

(* The types of both components, which the lines tie together.             *)
GameTypeOK ==
  /\ TypeOK /\ C!TypeOK
  /\ typedBy \in Seq(States) /\ Len(typedBy) = Len(lines)
  /\ comebacks \in Seq(Numbers) /\ Len(comebacks) = Len(rebroadcast)

Comeback(n) == comebacks[CHOOSE i \in 1 .. Len(rebroadcast) : rebroadcast[i] = n]

Receivers(m) == UNION {shown[i].to : i \in {i \in 1 .. Len(shown) : shown[i].message = m}}

(* A line that was cleared from the game's chat to be shown again comes    *)
(* back (src/README.md, ShowLocalServerTag): it waits, or it is shown and  *)
(* its own player sees it. He can only miss it if he has left, if his uid  *)
(* could not be read, or through a loss that the code admits: a full list, *)
(* a function that cannot be resolved or a GameState that is lost (the     *)
(* deferred action is not tried again), an open circuit, or an exception   *)
(* that Drain catches.                                                     *)
ClearedLineComesBack ==
  \A n \in {n \in 1 .. Len(lines) : lines[n].native = "cleared"
                                    /\ lines[n].fate \in {"held", "sent"}} :
    IF n \notin Items(rebroadcast) THEN n \in Items(pending) \cup overflowed
    ELSE LET m    == Comeback(n)
             fate == messages[m].fate
         IN  /\ Is(m, "tagged") /\ messages[m].state = typedBy[n]
             /\ fate = "queued" <=> m \in Items(deferred)
             /\ fate = "circuit" => circuit
             /\ fate # "filtered"
             /\ fate \in {"shown", "nobody"} =>
                  \/ lines[n].line.player \in Receivers(m)
                  \/ ~Live(typedBy[n]) \/ ~lines[n].line.uid
                  \/ circuit /\ fate = "nobody"
=============================================================================
