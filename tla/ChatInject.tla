----------------------------- MODULE ChatInject -----------------------------
(***************************************************************************)
(* Showing lines in the game (src/ChatInject.cpp), on top of the roster of *)
(* Audience: on_update runs Tick and then Drain, which asks whether it may *)
(* inject now, finishes some of the work that the hooks deferred, and then *)
(* shows some of the rows that the database worker has queued.             *)
(*                                                                         *)
(* A step of the frame is one broadcast.  The game's own events (joins,    *)
(* leaves, hooks, a new GameState) happen between frames; the worker       *)
(* pushes rows at any time.  The first fault inside BroadcastChatMessage   *)
(* opens a circuit that stays open until the process ends.  The GameState  *)
(* may be collected while a broadcast is being built, so that one of its   *)
(* two calls is made and the other not.                                    *)
(***************************************************************************)
EXTENDS Audience, BoundedQueue

CONSTANTS
  Nobody,        \* the sender of a Discord line
  Kinds,         \* the kinds of messages used
  Cap,           \* MaxBroadcastsPerTick
  DeferredMax,   \* kMaxDeferredActions
  QueueMax,      \* kQueueMax
  FindFaultsMax, \* 3, the faults of FindFirstOf that open the circuit
  Senders,       \* bound: those whose rows arrive
  MaxMessages,   \* bound: messages of all kinds
  MaxFaults      \* bound: faults of the game's functions, GameStates lost in the middle of
                 \* a broadcast, exceptions

ASSUME MessageAssumption ==
  /\ Nobody \notin Players /\ Senders \subseteq Players \cup {Nobody}
  /\ Kinds \subseteq {"row", "tagged", "private", "screen"}
ASSUME InjectLimits ==
  /\ {Cap, DeferredMax, QueueMax, FindFaultsMax} \subseteq Nat \ {0}
  /\ MaxMessages \in Nat /\ MaxFaults \in Nat

VARIABLES
  step,       \* where the frame is: "idle" (between frames), "flush", "inject"
  left,       \* what the current loop may still do
  hand,       \* the row taken from the queue, 0 for none
  world,      \* a GameState exists
  cached,     \* m_game_state points to it
  findFaults, \* s_find_faults
  function,   \* BroadcastChatMessage and its fields can be resolved
  warm,       \* time since m_world_ready_at, by the limits it is compared with
  circuit,    \* m_inject_circuit_open
  deferred,   \* m_deferred
  inbound,    \* m_inbound
  faults,     \* faults so far
  \* Messages are named by number.  History, for the properties only:
  messages,   \* [kind, sender, state, bad, fate]
  shown,      \* the broadcasts made, in order: [message, to, style]
  requeued    \* rows that were pushed back

injectVars == <<step, left, hand, world, cached, findFaults, function, warm, circuit,
                deferred, inbound, faults, messages, shown, requeued>>
vars == <<audienceVars, injectVars>>

Numbers == 1 .. Len(messages)
Is(n, kind) == messages[n].kind = kind
Sender(n) == messages[n].sender

Init ==
  /\ AudienceInit
  /\ step = "idle" /\ left = 0 /\ hand = 0
  /\ world = FALSE /\ cached = FALSE /\ findFaults = 0
  /\ function \in BOOLEAN /\ warm = "unseen" /\ circuit = FALSE
  /\ deferred = <<>> /\ inbound = <<>> /\ faults = 0
  /\ messages = <<>> /\ shown = <<>> /\ requeued = {}

Fault == faults < MaxFaults /\ faults' = faults + 1

-----------------------------------------------------------------------------
(* Messages                                                                *)

NewMessage(kind, sender, state, bad) ==
  [kind |-> kind, sender |-> sender, state |-> state, bad |-> bad, fate |-> "queued"]

Mark(ns, fate) == [n \in Numbers |-> IF n \in ns THEN [messages[n] EXCEPT !.fate = fate]
                                      ELSE messages[n]]

(* EnqueueLocalTagged, EnqueuePrivateChat, EnqueueScreenLog: new messages, *)
(* in order; a full list loses its oldest.                                 *)
EnqueueDeferred(new) ==
  LET ns   == [i \in 1 .. Len(new) |-> Len(messages) + i]
      kept == PushAll(deferred, ns, DeferredMax)
      lost == Items(deferred \o ns) \ Items(kept)
      all  == messages \o new
  IN  /\ deferred' = kept
      /\ messages' = [n \in 1 .. Len(all) |->
                        IF n \in lost THEN [all[n] EXCEPT !.fate = "overflow"] ELSE all[n]]

(* A message from, or for, the player of PlayerState k.  The sender of a   *)
(* rebroadcast line may have no readable uid.                              *)
FromPlayer(kind, k) ==
  NewMessage(kind, IF visits[k].uid THEN visits[k].player ELSE Nobody, k, FALSE)

(* A hook defers one.                                                      *)
Defer(kind, k) ==
  /\ step = "idle" /\ Live(k)
  /\ kind \in Kinds \ {"row"} /\ Len(messages) < MaxMessages
  /\ kind = "private" => visits[k].uid
  /\ EnqueueDeferred(<<FromPlayer(kind, k)>>)
  /\ UNCHANGED <<audienceVars, step, left, hand, world, cached, findFaults, function, warm,
                 circuit, inbound, faults, shown, requeued>>

(* The worker pushes a row: from Discord, or from a player who was on      *)
(* another server when he wrote it; it may match a pattern of the filter.  *)
PushRow(sender, bad) ==
  /\ "row" \in Kinds /\ Len(messages) < MaxMessages
  /\ messages' = Append(Mark(Dropped(inbound, QueueMax), "overflow"),
                        NewMessage("row", sender, 0, bad))
  /\ inbound' = Push(inbound, Len(messages) + 1, QueueMax)
  /\ UNCHANGED <<audienceVars, step, left, hand, world, cached, findFaults, function, warm,
                 circuit, deferred, faults, shown, requeued>>

(* Whose row it was does not matter once the filter has dropped it.        *)
PushAnyRow == (\E p \in Senders : PushRow(p, FALSE)) \/ PushRow(Nobody, TRUE)

-----------------------------------------------------------------------------
(* The game                                                                *)

Between == step = "idle"
           /\ UNCHANGED <<audienceVars, step, left, hand, findFaults, circuit, deferred, inbound,
                          faults, messages, shown, requeued>>

(* A GameState appears; it is destroyed, and the weak pointer with it.     *)
WorldUp   == ~world /\ world' = TRUE /\ UNCHANGED <<cached, function, warm>> /\ Between
WorldDown == /\ world /\ world' = FALSE /\ cached' = FALSE
             /\ UNCHANGED <<function, warm>> /\ Between
FunctionLoads == /\ ~function /\ function' = TRUE
                 /\ UNCHANGED <<world, cached, warm>> /\ Between

(* kInjectWarmup and kInjectRamp pass.                                     *)
Warm == /\ \/ warm = "warming" /\ warm' = "ramp"
           \/ warm = "ramp" /\ warm' = "full"
        /\ UNCHANGED <<world, cached, function>> /\ Between

GameEvent == step = "idle" /\ PlayerEvent /\ UNCHANGED injectVars
Chat      == step = "idle" /\ (\E k \in States : ChatUpsert(k)) /\ UNCHANGED injectVars

-----------------------------------------------------------------------------
(* CanInjectNow                                                            *)

(* ResolveGameState: the weak pointer, or a search that finds the object,  *)
(* finds none, is refused by the weak pointer, or faults.                  *)
Resolved == (cached \/ world) /\ cached' = TRUE /\ UNCHANGED <<findFaults, circuit, faults>>
Unresolved ==
  /\ ~cached /\ cached' = FALSE
  /\ \/ ~world /\ UNCHANGED <<findFaults, circuit, faults>>
     \/ world /\ Fault /\ UNCHANGED <<findFaults, circuit>>
     \/ /\ Fault
        /\ findFaults' = findFaults + 1
        /\ circuit' = (findFaults + 1 >= FindFaultsMax)

Limit == IF warm = "ramp" THEN 1 ELSE Cap

CanInjectNow ==
  \/ circuit /\ UNCHANGED <<step, left, cached, findFaults, warm, circuit, faults>>
  \/ ~circuit /\ Unresolved /\ UNCHANGED <<step, left, warm>>
  \/ /\ ~circuit /\ Resolved
     /\ warm' = IF warm = "unseen" THEN "warming" ELSE warm
     /\ IF warm \in {"ramp", "full"} THEN step' = "flush" /\ left' = Limit
        ELSE UNCHANGED <<step, left>>

(* on_update as far as the first broadcast, with roster r.                 *)
UpdateFrame(r) ==
  /\ step = "idle"
  /\ Tick(r)
  /\ CanInjectNow
  /\ UNCHANGED <<hand, world, function, inbound, shown, requeued>>
Update == UpdateFrame(roster) /\ UNCHANGED <<deferred, messages>>

-----------------------------------------------------------------------------
(* Broadcasts                                                              *)

Call(n, to, style) == [message |-> n, to |-> to, style |-> style]

(* Mutant: the sender's id is used wherever he is.                         *)
AttributedAlways(r, n) == Sender(n) # Nobody

(* IsOnlinePlayerUid: only a sender on the roster can be named.            *)
Attributed(r, n) == Sender(n) \in DOMAIN r

(* The calls of BroadcastDual: the formatted line to everyone who is not   *)
(* on Xbox, then the plain line, if its sender can be named, to Xbox.      *)
Calls(r, n) ==
  (IF OthersOf(r) # {} THEN <<Call(n, OthersOf(r), "formatted")>> ELSE <<>>)
  \o (IF XboxOf(r) # {} /\ Attributed(r, n) THEN <<Call(n, XboxOf(r), "plain")>> ELSE <<>>)

(* BroadcastDisplay, for several calls with roster r.                      *)
AllShown(calls, r) ==
  /\ ~circuit /\ world /\ function
  /\ shown' = shown \o calls
  /\ cached' = TRUE
  /\ roster' = r /\ RebuildLists(r)
  /\ UNCHANGED <<world, findFaults, circuit, faults>>

(* With an open circuit all of them are consumed in silence.               *)
Silent(r) ==
  /\ roster' = r /\ RebuildLists(r)
  /\ UNCHANGED <<shown, world, cached, findFaults, circuit, faults>>

(* A fault in call i opens it, forgets whom call i was for, and leaves the *)
(* earlier calls made.                                                     *)
Faults(calls, r) ==
  /\ ~circuit /\ world /\ function /\ Fault
  /\ \E i \in 1 .. Len(calls) :
       /\ shown' = shown \o SubSeq(calls, 1, i - 1)
       /\ roster' = Forgotten(r, calls[i].to) /\ RebuildLists(Forgotten(r, calls[i].to))
  /\ circuit' = TRUE /\ cached' = FALSE
  /\ UNCHANGED <<world, findFaults>>

(* EnsureBroadcastFunction fails, for every call.                          *)
Unready(r) ==
  /\ ~circuit /\ world /\ ~function
  /\ cached' = TRUE
  /\ roster' = r /\ RebuildLists(r)
  /\ UNCHANGED <<shown, world, findFaults, circuit, faults>>

(* f mishaps: the GameState is collected between two calls, a search for   *)
(* one faults, or its find is refused by the weak pointer.  The faults of  *)
(* FindFirstOf are counted.                                                *)
Mishaps(f) ==
  /\ faults + f <= MaxFaults /\ faults' = faults + f
  /\ \E g \in 0 .. f : findFaults + g <= FindFaultsMax /\ findFaults' = findFaults + g
  /\ circuit' = (findFaults' >= FindFaultsMax)

(* Call i and all after it find no GameState, at the start or just before  *)
(* ProcessEvent: it is gone, or every search for it fails.                 *)
Lost(calls, r) ==
  /\ ~circuit
  /\ \E i \in 1 .. Len(calls) : \E f \in 0 .. Len(calls) + 1 - i :
       /\ i > 1 => world /\ function /\ f > 0
       /\ world' = FALSE \/ (world /\ world' = TRUE /\ f = Len(calls) + 1 - i)
       /\ shown' = shown \o SubSeq(calls, 1, i - 1)
       /\ Mishaps(f)
  /\ cached' = FALSE
  /\ roster' = r /\ RebuildLists(r)

(* The first of two calls does not find the GameState, the second does.    *)
FoundAgain(calls, r) ==
  /\ ~circuit /\ world /\ function /\ Len(calls) = 2
  /\ Mishaps(1) /\ ~circuit'
  /\ shown' = Append(shown, calls[2])
  /\ cached' = TRUE
  /\ roster' = r /\ RebuildLists(r)
  /\ UNCHANGED world

(* An exception that Drain catches, after some of the calls.               *)
Thrown(calls, r) ==
  /\ Fault
  /\ \E i \in 0 .. Len(calls) :
       /\ i > 0 => i < Len(calls) /\ ~circuit /\ world /\ function
       /\ shown' = shown \o SubSeq(calls, 1, i)
       /\ cached' = (cached \/ i > 0)
  /\ roster' = r /\ RebuildLists(r)
  /\ UNCHANGED <<world, findFaults, circuit>>

(* How a broadcast ends: everything was shown; there was nobody to show it *)
(* to; the circuit is or was opened; one of the calls returned false; an   *)
(* exception was thrown.                                                   *)
Outcome(calls, r, fate) ==
  \/ fate = "shown" /\ calls # <<>> /\ AllShown(calls, r)
  \/ fate = "nobody" /\ calls = <<>> /\ Silent(r)
  \/ fate = "circuit" /\ calls # <<>> /\ (Faults(calls, r) \/ (circuit /\ Silent(r)))
  \/ fate = "retry" /\ calls # <<>> /\ (Unready(r) \/ Lost(calls, r) \/ FoundAgain(calls, r))
  \/ fate = "thrown" /\ Thrown(calls, r)

Fates == {"shown", "nobody", "circuit", "retry", "thrown"}

(* TryBootstrapOnce, Snapshot, and the calls.                              *)
BroadcastDual(n, fate) ==
  /\ \E found \in {Readable, {}} :
       LET r == Pruned(Bootstrapped(found)) IN Outcome(Calls(r, n), r, fate)
  /\ bootstrapped' = TRUE
  /\ UNCHANGED <<visits, joins, givenUp>>

(* A private line goes to one player, listed or not.                       *)
BroadcastPrivate(n, fate) ==
  /\ Outcome(<<Call(n, {Sender(n)}, "private")>>, roster, fate)
  /\ UNCHANGED <<visits, joins, givenUp, bootstrapped>>

(* SendScreenLog needs the player's controller; a fault in it opens no     *)
(* circuit.                                                                *)
SendScreenLog(n, fate) ==
  /\ \/ /\ fate = "shown" /\ Live(messages[n].state) /\ ~circuit
        /\ shown' = Append(shown, Call(n, {visits[messages[n].state].player}, "screen"))
        /\ UNCHANGED faults
     \/ /\ fate = "nobody" /\ (~Live(messages[n].state) \/ circuit)
        /\ UNCHANGED <<shown, faults>>
     \/ /\ fate = "retry" /\ Live(messages[n].state) /\ ~circuit /\ Fault
        /\ UNCHANGED shown
  /\ UNCHANGED <<audienceVars, world, cached, findFaults, circuit>>

(* An exception before anything else was done.                             *)
ThrownAtOnce == Thrown(<<>>, roster) /\ UNCHANGED <<visits, joins, givenUp, bootstrapped>>

-----------------------------------------------------------------------------
(* FlushDeferred: whatever comes of an action, it is not tried again.  An  *)
(* exception ends the frame, in both loops, and what was in hand is lost.  *)

Do(n, fate) ==
  \/ Is(n, "tagged") /\ BroadcastDual(n, fate)
  \/ Is(n, "private") /\ BroadcastPrivate(n, fate)
  \/ Is(n, "screen") /\ SendScreenLog(n, fate)
  \/ fate = "thrown" /\ ThrownAtOnce

AbortFrame == step' = "idle" /\ left' = 0

FlushOne ==
  /\ step = "flush" /\ left > 0 /\ CanPop(deferred)
  /\ deferred' = Tail(deferred)
  /\ \E fate \in Fates :
       /\ Do(Head(deferred), fate)
       /\ messages' = Mark({Head(deferred)},
                           IF fate \in {"retry", "thrown"} THEN "failed" ELSE fate)
       /\ IF fate = "thrown" THEN AbortFrame ELSE left' = left - 1 /\ UNCHANGED step
  /\ UNCHANGED <<hand, function, warm, inbound, requeued>>

(* Mutant: the rows get what the deferred work has left over.              *)
FlushDoneOneBudget ==
  /\ step = "flush" /\ (left = 0 \/ ~CanPop(deferred))
  /\ step' = "inject"
  /\ UNCHANGED <<audienceVars, left, hand, world, cached, findFaults, function, warm, circuit,
                 deferred, inbound, faults, messages, shown, requeued>>

FlushDone ==
  /\ step = "flush" /\ (left = 0 \/ ~CanPop(deferred))
  /\ step' = "inject" /\ left' = Limit
  /\ UNCHANGED <<audienceVars, hand, world, cached, findFaults, function, warm, circuit,
                 deferred, inbound, faults, messages, shown, requeued>>

(* Mutant: the newest row first.                                           *)
TakeNewest ==
  /\ step = "inject" /\ hand = 0 /\ left > 0 /\ CanPop(inbound)
  /\ hand' = inbound[Len(inbound)] /\ inbound' = SubSeq(inbound, 1, Len(inbound) - 1)
  /\ left' = left - 1
  /\ UNCHANGED <<audienceVars, step, world, cached, findFaults, function, warm, circuit,
                 deferred, faults, messages, shown, requeued>>

(* The loop over the rows.  The worker may push between the pop and what   *)
(* follows.                                                                *)
TakeRow ==
  /\ step = "inject" /\ hand = 0 /\ left > 0 /\ CanPop(inbound)
  /\ hand' = Head(inbound) /\ inbound' = Tail(inbound) /\ left' = left - 1
  /\ UNCHANGED <<audienceVars, step, world, cached, findFaults, function, warm, circuit,
                 deferred, faults, messages, shown, requeued>>

DropFiltered ==
  /\ messages[hand].bad
  /\ messages' = Mark({hand}, "filtered")
  /\ UNCHANGED <<audienceVars, step, left, world, cached, findFaults, circuit, inbound, faults,
                 shown, requeued>>

ShowRow ==
  /\ ~messages[hand].bad
  /\ \E fate \in Fates \ {"retry", "thrown"} :
       BroadcastDual(hand, fate) /\ messages' = Mark({hand}, fate)
  /\ UNCHANGED <<step, left, inbound, requeued>>

(* Mutant: the row is not pushed back.                                     *)
RetryForgets ==
  /\ ~messages[hand].bad
  /\ BroadcastDual(hand, "retry")
  /\ requeued' = requeued \cup {hand}
  /\ AbortFrame
  /\ UNCHANGED <<inbound, messages>>

(* A row of which a call returned false goes to the back of the queue and  *)
(* ends the frame, whatever the other call has shown of it.                *)
RetryRow ==
  /\ ~messages[hand].bad
  /\ BroadcastDual(hand, "retry")
  /\ inbound' = Push(inbound, hand, QueueMax)
  /\ messages' = Mark(Dropped(inbound, QueueMax), "overflow")
  /\ requeued' = requeued \cup {hand}
  /\ AbortFrame

ThrowRow ==
  /\ ThrownAtOnce \/ (~messages[hand].bad /\ BroadcastDual(hand, "thrown"))
  /\ messages' = Mark({hand}, "failed")
  /\ AbortFrame
  /\ UNCHANGED <<inbound, requeued>>

BroadcastOne ==
  /\ step = "inject" /\ hand # 0
  /\ DropFiltered \/ ShowRow \/ RetryRow \/ ThrowRow
  /\ hand' = 0
  /\ UNCHANGED <<function, warm, deferred>>

InjectDone ==
  /\ step = "inject" /\ hand = 0 /\ (left = 0 \/ ~CanPop(inbound))
  /\ step' = "idle" /\ left' = 0
  /\ UNCHANGED <<audienceVars, hand, world, cached, findFaults, function, warm, circuit,
                 deferred, inbound, faults, messages, shown, requeued>>

Drain == FlushOne \/ FlushDone \/ TakeRow \/ BroadcastOne \/ InjectDone

Next ==
  \/ \E k \in States, kind \in Kinds : Defer(kind, k)
  \/ PushAnyRow
  \/ WorldUp \/ WorldDown \/ FunctionLoads \/ Warm \/ GameEvent \/ Chat
  \/ Update \/ Drain

Spec == Init /\ [][Next]_vars

(* A hook defers another message like n, under its number: in FairSpec the *)
(* hooks never run out of work for FlushDeferred.                          *)
DeferAgain(n) ==
  /\ step = "idle" /\ ~Is(n, "row") /\ Live(messages[n].state)
  /\ messages[n].fate \in {"nobody", "overflow"}
  /\ deferred' = Push(deferred, n, DeferredMax)
  /\ messages' = [Mark(Dropped(deferred, DeferredMax), "overflow") EXCEPT ![n].fate = "queued"]
  /\ UNCHANGED <<audienceVars, step, left, hand, world, cached, findFaults, function, warm,
                 circuit, inbound, faults, shown, requeued>>

(* The game ticks and its clock advances; nothing else has to happen.      *)
FairSpec == /\ Init /\ [][Next \/ \E n \in Numbers : DeferAgain(n)]_vars
            /\ WF_vars(Update) /\ WF_vars(Drain) /\ WF_vars(Warm)

-----------------------------------------------------------------------------
(* Properties                                                              *)

(* The type of every variable, and the bounds of the queues.               *)
TypeOK ==
  /\ AudienceTypeOK /\ ListsPartitionRoster
  /\ step \in {"idle", "flush", "inject"} /\ left \in 0 .. Cap /\ hand \in 0 .. Len(messages)
  /\ {world, cached, function, circuit} \subseteq BOOLEAN
  /\ cached => world
  /\ findFaults \in 0 .. FindFaultsMax /\ faults \in 0 .. MaxFaults
  /\ warm \in {"unseen", "warming", "ramp", "full"}
  /\ deferred \in Seq(Numbers) /\ Len(deferred) <= DeferredMax
  /\ inbound \in Seq(Numbers) /\ Len(inbound) <= QueueMax
  /\ requeued \subseteq Numbers

New == {shown'[i] : i \in Len(shown) + 1 .. Len(shown')}

(* A line meant for all goes to players who are online at that moment:     *)
(* whoever has left since the last frame is not a receiver.                *)
LinesReachTheOnline ==
  [][\A c \in New : c.style \in {"formatted", "plain"} => c.to \subseteq Online]_vars

(* Xbox players get a line only with a sender who is in the session at     *)
(* that moment (a line that names anybody else is masked or shown as       *)
(* "------"), and nobody else gets the plain form.                         *)
XboxLinesAreAttributed ==
  [][\A c \in New : c.style = "plain" => Sender(c.message) \in Online /\ c.to \subseteq Xbox]_vars

(* Who is online and listed stays listed, whatever became of his earlier   *)
(* visits, until the broadcast that opens the circuit forgets the players  *)
(* it was for.                                                             *)
OnlyTheGoneLeave ==
  [][\A p \in DOMAIN roster \ DOMAIN roster' :
       p \notin Online \/ ~Live(roster[p].state) \/ (~circuit /\ circuit')]_vars

(* Nobody is shown a message twice, by either form, unless it is a row     *)
(* that was pushed back after a call of its broadcast had returned false:  *)
(* the retry makes both calls, also the one that was made already          *)
(* (ChatInject.cpp:733-747, 1009-1013).                                    *)
ShownTwiceOnlyByRetry ==
  \A i, j \in 1 .. Len(shown) :
    i # j /\ shown[i].message = shown[j].message /\ shown[i].to \cap shown[j].to # {}
      => shown[i].message \in requeued

(* Rows are shown in the order of the queue, except for a row that was     *)
(* pushed back.                                                            *)
RowOrder ==
  \A i, j \in 1 .. Len(shown) :
    LET m == shown[i].message  n == shown[j].message
    IN  i < j /\ Is(m, "row") /\ Is(n, "row") /\ n < m => n \in requeued

(* A row is in one place: queued, in hand, or finished.                    *)
RowsInOnePlace ==
  \A n \in {n \in Numbers : Is(n, "row")} :
    (messages[n].fate = "queued") <=> (n \in Items(inbound) \cup {hand})

(* A row does not wait for ever, once there is a GameState and a function  *)
(* to show it with and the circuit is closed: the warm-up ends, and        *)
(* however much work the hooks defer, it does not starve the rows.         *)
Working == world /\ function /\ ~circuit
RowIsTaken ==
  \A n \in 1 .. MaxMessages :
    <>[]Working => [](n \in Items(inbound) => <>(n \notin Items(inbound)))
=============================================================================
