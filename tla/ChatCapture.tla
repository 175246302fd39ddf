---------------------------- MODULE ChatCapture ----------------------------
(***************************************************************************)
(* The chat hook of one server (src/ChatCapture.cpp): what becomes of each *)
(* line a player types.  HandleHook runs inside the game's own handler of  *)
(* the line and may change its text and its category before the game and   *)
(* PalDefender see them.  FlushDeferred runs in on_update, where player    *)
(* names can be asked for.  Both run on the game thread, so each is one    *)
(* step.                                                                   *)
(*                                                                         *)
(* The module ends where lines leave it: at ChatInject::EnqueueLocalTagged *)
(* (rebroadcast), m_outbound (relayed) and the webhook queue (reported).   *)
(* DiscordLink follows a !setdiscord command, of which only the name cache *)
(* matters here; the roster that both functions refresh is in Audience.    *)
(***************************************************************************)
EXTENDS Naturals, FiniteSets, Sequences, BoundedQueue, WordFilter

CONSTANTS
  Players,
  Unknown,      \* the name of a player whose name cannot be read
  Inputs,       \* the lines that are typed
  MuteTimes,    \* MuteMinutes of the patterns
  NoticeGap,    \* 15 s
  ShowLocalServerTag,
  LinksMax,     \* 32, the bound on m_pending_setdiscord
  PendingMax,   \* 64, the bound on m_pending_chat_relays
  MaxLines,     \* bound: lines typed
  MaxTime       \* bound: ticks of the clock

(* A line as typed: its text, its channel, and the outcome of what the     *)
(* hook tries to read (PlayerUId, the PlayerName property) and to find     *)
(* (the parameters of the call, so that it can write to them).             *)
Line == [player : Players,
         kind : {"clean", "bad", "tagged", "command", "bad command", "setdiscord"},
         category : {"global", "guild", "say"},
         uid : BOOLEAN, name : BOOLEAN, writable : BOOLEAN]

ASSUME InputAssumption ==
  Unknown \notin Players /\ Inputs \subseteq Line /\ ShowLocalServerTag \in BOOLEAN
ASSUME LimitAssumption ==
  /\ MuteTimes \subseteq Nat /\ NoticeGap \in Nat
  /\ LinksMax \in Nat \ {0} /\ PendingMax \in Nat \ {0} /\ MaxLines \in Nat /\ MaxTime \in Nat

VARIABLES
  now,     \* steady_clock
  mutes,   \* WordFilter::m_mutes
  names,   \* m_name_by_player_uid: players whose name is cached
  links,   \* m_pending_setdiscord
  pending, \* m_pending_chat_relays
  \* Lines are named by number.  What has happened to them:
  lines,       \* every line, with what the hook did to it
  rebroadcast, \* lines handed to EnqueueLocalTagged, in order
  relayed,     \* lines pushed to m_outbound, in order
  reported,    \* lines quoted to the webhook
  banners,     \* mute notices shown to their player, in order
  overflowed   \* lines a full list of pending relays discarded

vars == <<now, mutes, names, links, pending, lines, rebroadcast, relayed, reported,
          banners, overflowed>>

Player(n) == lines[n].line.player
Numbers == 1 .. Len(lines)

Init ==
  /\ now = 0 /\ mutes = <<>> /\ names = {}
  /\ links = <<>> /\ pending = <<>>
  /\ lines = <<>> /\ rebroadcast = <<>> /\ relayed = <<>> /\ reported = {}
  /\ banners = <<>> /\ overflowed = {}

-----------------------------------------------------------------------------
(* What the hook decides from                                              *)

IsCommand(l) == l.kind \in {"command", "bad command", "setdiscord"}
FindMatch(l) == l.kind \in {"bad", "bad command"}

(* mute_key: the PlayerUId, else the name property, else "Unknown".  The   *)
(* cache has no entry for an empty id.                                     *)
MuteKey(l) == IF l.uid THEN <<"uid", l.player>>
              ELSE <<"name", IF l.name THEN l.player ELSE Unknown>>

HaveDisplayName(l) == l.name \/ (l.uid /\ l.player \in names)

Muted(l)  == IsMuted(mutes, MuteKey(l), now)
Passes(l) == l.kind # "setdiscord" /\ ~Muted(l) /\ ~FindMatch(l)
Public(l) == Passes(l) /\ ~IsCommand(l) /\ l.category = "global"
(* Mutant: IsRelayedCategory is not asked.                                 *)
RelaysAnyChannel(l) == Passes(l) /\ ~IsCommand(l) /\ l.kind # "tagged"

Relays(l) == Public(l) /\ l.kind # "tagged"

(* What the game is left with.                                             *)
TryClearMessage(l) == IF l.writable THEN "cleared" ELSE "shown"
TrySetCategory(l)  == IF l.writable THEN "parked" ELSE "shown"

Suppress(l) == IF ShowLocalServerTag THEN TryClearMessage(l) ELSE "shown"

Finish(l, fate, native, mute) ==
  lines' = Append(lines, [line |-> l, at |-> now, fate |-> fate, native |-> native,
                          mute |-> mute])
Number == Len(lines) + 1
Banner(l, kind) == Append(banners, [player |-> l.player, at |-> now, kind |-> kind])

-----------------------------------------------------------------------------
(* HandleHook, one action per way out of it                                *)

(* Mutant: the player's name is asked for in the hook.                     *)
LinkLineInHook(l) ==
  /\ l.kind = "setdiscord"
  /\ Finish(l, "setdiscord", TryClearMessage(l), 0)
  /\ names' = names \cup {l.player}
  /\ UNCHANGED <<now, mutes, links, pending, rebroadcast, relayed, reported, banners,
                 overflowed>>

LinkLine(l) ==
  /\ l.kind = "setdiscord"
  /\ Finish(l, "setdiscord", TryClearMessage(l), 0)
  /\ links' = Push(links, Number, LinksMax)
  /\ UNCHANGED <<now, mutes, names, pending, rebroadcast, relayed, reported, banners,
                 overflowed>>

MutedLine(l) ==
  /\ l.kind # "setdiscord" /\ Muted(l)
  /\ Finish(l, "muted", TryClearMessage(l), 0)
  /\ mutes' = AfterNotice(mutes, MuteKey(l), now, NoticeGap)
  /\ banners' = IF NoticeDue(mutes, MuteKey(l), now, NoticeGap)
                THEN Banner(l, "active") ELSE banners
  /\ UNCHANGED <<now, names, links, pending, rebroadcast, relayed, reported, overflowed>>

FilteredLine(l) ==
  /\ l.kind # "setdiscord" /\ ~Muted(l) /\ FindMatch(l)
  /\ \E mute \in MuteTimes :
       /\ Finish(l, "filtered", TryClearMessage(l), mute)
       /\ mutes' = Mute(Swept(mutes, MuteKey(l), now), MuteKey(l), now, mute)
  /\ banners' = Banner(l, "initial")
  /\ reported' = reported \cup {Number}
  /\ UNCHANGED <<now, names, links, pending, rebroadcast, relayed, overflowed>>

Sweep(l) == mutes' = Swept(mutes, MuteKey(l), now)

(* A command is hidden and its text left for PalDefender.                  *)
CommandLine(l) ==
  /\ Passes(l) /\ IsCommand(l)
  /\ Finish(l, "command", TrySetCategory(l), 0)
  /\ Sweep(l)
  /\ UNCHANGED <<now, names, links, pending, rebroadcast, relayed, reported, banners,
                 overflowed>>

(* Another channel, or a text that begins like a relayed line.             *)
NativeLine(l) ==
  /\ Passes(l) /\ ~IsCommand(l) /\ ~Relays(l)
  /\ Finish(l, "native", "shown", 0)
  /\ Sweep(l)
  /\ UNCHANGED <<now, names, links, pending, rebroadcast, relayed, reported, banners,
                 overflowed>>

Rebroadcast(ns) == IF ShowLocalServerTag THEN rebroadcast \o ns ELSE rebroadcast

(* Without a name to show, the line waits for the next FlushDeferred.      *)
HeldLine(l) ==
  /\ Relays(l) /\ ~HaveDisplayName(l)
  /\ Finish(l, "held", Suppress(l), 0)
  /\ Sweep(l)
  /\ pending' = Push(pending, Number, PendingMax)
  /\ overflowed' = overflowed \cup Dropped(pending, PendingMax)
  /\ UNCHANGED <<now, names, links, rebroadcast, relayed, reported, banners>>

SentLine(l) ==
  /\ Relays(l) /\ HaveDisplayName(l)
  /\ Finish(l, "sent", Suppress(l), 0)
  /\ Sweep(l)
  /\ rebroadcast' = Rebroadcast(<<Number>>)
  /\ relayed' = Append(relayed, Number)
  /\ UNCHANGED <<now, names, links, pending, reported, banners, overflowed>>

HandleHook(l) ==
  /\ Len(lines) < MaxLines
  /\ \/ LinkLine(l) \/ MutedLine(l) \/ FilteredLine(l) \/ CommandLine(l)
     \/ NativeLine(l) \/ HeldLine(l) \/ SentLine(l)

-----------------------------------------------------------------------------
(* FlushDeferred: first the !setdiscord commands, then every pending line, *)
(* oldest first.  Of the players it meets, some have left or cannot be     *)
(* asked for their name (their lines go out as "Unknown"); the others are  *)
(* cached, a pending line's player only if the hook could read his uid.    *)
Askable == {Player(n) : n \in Items(links)}
           \cup {Player(n) : n \in {n \in Items(pending) : lines[n].line.uid}}

(* Mutants: local_tag is not kept with a pending line; the lines of        *)
(* players who have left are skipped, as their commands are.               *)
FlushUntagged ==
  /\ CanPop(links) \/ CanPop(pending)
  /\ names' = names \cup Askable
  /\ links' = <<>> /\ pending' = <<>>
  /\ relayed' = relayed \o pending
  /\ UNCHANGED <<now, mutes, lines, rebroadcast, reported, banners, overflowed>>
FlushPresent ==
  /\ CanPop(links) \/ CanPop(pending)
  /\ links' = <<>> /\ pending' = <<>>
  /\ UNCHANGED <<now, mutes, names, lines, rebroadcast, relayed, reported, banners,
                 overflowed>>

FlushDeferred ==
  /\ CanPop(links) \/ CanPop(pending)
  /\ \E found \in SUBSET Askable : names' = names \cup found
  /\ links' = <<>> /\ pending' = <<>>
  /\ rebroadcast' = Rebroadcast(pending)
  /\ relayed' = relayed \o pending
  /\ UNCHANGED <<now, mutes, lines, reported, banners, overflowed>>

Tick ==
  /\ now < MaxTime
  /\ now' = now + 1
  /\ UNCHANGED <<mutes, names, links, pending, lines, rebroadcast, relayed, reported,
                 banners, overflowed>>

Next == (\E l \in Inputs : HandleHook(l)) \/ FlushDeferred \/ Tick

Spec == Init /\ [][Next]_vars

-----------------------------------------------------------------------------
(* Properties                                                              *)

(* The lines typed on a dedicated server: what can be read of a player is  *)
(* the same for each of his lines, and no two players have the same mute   *)
(* key ("Unknown" would be one).                                           *)
OwnKeys == \A l, m \in Inputs : MuteKey(l) = MuteKey(m) <=> l.player = m.player
SteadyNames ==
  \A l, m \in Inputs : l.player = m.player => l.uid = m.uid /\ l.name = m.name

(* The type of every variable, and the bound on the pending relays.        *)
TypeOK ==
  /\ now \in 0 .. MaxTime
  /\ \A key \in DOMAIN mutes : mutes[key] \in [until : Nat, notified : Nat]
  /\ names \subseteq Players
  /\ links \in Seq(Numbers) /\ Len(links) <= LinksMax
  /\ pending \in Seq(Numbers) /\ Len(pending) <= PendingMax
  /\ lines \in Seq([line : Line, at : Nat, mute : Nat,
                    fate : {"setdiscord", "muted", "filtered", "command", "native",
                            "held", "sent"},
                    native : {"shown", "parked", "cleared"}])
  /\ rebroadcast \in Seq(Numbers) /\ relayed \in Seq(Numbers)
  /\ reported \cup overflowed \subseteq Numbers
  /\ banners \in Seq([player : Players, at : Nat, kind : {"initial", "active"}])

(* A player is silenced by his own hits and by nobody else's, from the hit *)
(* until MuteMinutes later and not an instant longer (src/README.md,       *)
(* ChatFilter: "The player is muted for that pattern's MuteMinutes").      *)
OwnMute(n) == \E m \in 1 .. n - 1 : /\ Player(m) = Player(n)
                                   /\ lines[m].fate = "filtered"
                                   /\ lines[n].at < lines[m].at + lines[m].mute
MuteIsPersonal ==
  \A n \in Numbers :
    lines[n].fate # "setdiscord" => (lines[n].fate = "muted" <=> OwnMute(n))

(* "You are muted" follows an earlier notice to the same player by at      *)
(* least 15 s, whichever notice that was and across the end of a mute.     *)
NoticesSpaced ==
  \A j \in 1 .. Len(banners) : banners[j].kind = "active" =>
    \A i \in 1 .. j - 1 : banners[i].player = banners[j].player =>
      banners[j].at >= banners[i].at + NoticeGap

(* A player's lines reach the database in the order he typed them, though  *)
(* some wait for his name and others do not.                               *)
SenderOrder ==
  \A i, j \in 1 .. Len(relayed) :
    i < j /\ Player(relayed[i]) = Player(relayed[j]) => relayed[i] < relayed[j]

(* With ShowLocalServerTag the same lines in the same order are queued for *)
(* the players of this server (EnqueueLocalTagged) and for everybody else  *)
(* (m_outbound).  What either queue then loses is not said here.           *)
LocalAndRemoteAgree == ShowLocalServerTag => rebroadcast = relayed

(* A line that was to be relayed is relayed once, or waits, or was pushed  *)
(* out of a full list: no line is cleared and forgotten.                   *)
Copies(n) == Cardinality({i \in 1 .. Len(relayed) : relayed[i] = n})
             + Cardinality({n} \cap Items(pending)) + Cardinality({n} \cap overflowed)
NoLineForgotten ==
  \A n \in Numbers :
    Copies(n) = IF lines[n].fate \in {"held", "sent"} THEN 1 ELSE 0

(* Only Global chat leaves the server: no guild line, no command, nothing  *)
(* filtered and nothing said under a mute (src/README.md, Chat channels    *)
(* and Command handling), also not by way of the pending list.             *)
OnlyPublicChatLeaves ==
  \A n \in Items(relayed) \cup Items(rebroadcast) :
    /\ lines[n].line.category = "global"
    /\ ~IsCommand(lines[n].line) /\ ~FindMatch(lines[n].line) /\ ~OwnMute(n)

(* Commands "never reach Discord or other servers" and their text is never *)
(* cleared, so that PalDefender can execute them (src/README.md, Command   *)
(* handling).                                                              *)
CommandsPassUntouched ==
  \A n \in Numbers : lines[n].line.kind \in {"command", "bad command"} =>
    lines[n].native # "cleared" /\ n \notin Items(relayed) \cup reported
=============================================================================
