-------------------------- MODULE GameThreadProofs --------------------------
(***************************************************************************)
(* Proofs about GameThread, for any players, any lines they type and lists *)
(* of any size.  Its lines behave as ChatCapture says and its messages as  *)
(* ChatInject does, so that the invariants of both hold of the two         *)
(* together; what ties them is an invariant of its own.                    *)
(***************************************************************************)
EXTENDS GameThread, ChatInjectProofs

P == INSTANCE ChatCaptureProofs WITH MaxTime <- 0

-----------------------------------------------------------------------------
(* The lines                                                               *)

(* What ChatCapture assumes of its constants is assumed here.              *)
LEMMA CaptureAssumptions == P!InputAssumption /\ P!LimitAssumption
BY HookAssumption, HookLimits DEF C!Line, P!Line

(* The instance of ChatCapture in GameThread and the one that the lemmas   *)
(* are about say the same.                                                 *)
LEMMA SameLine ==
  ASSUME NEW l
  PROVE  /\ C!Number = P!Number /\ C!Muted(l) = P!Muted(l) /\ C!Passes(l) = P!Passes(l)
         /\ C!Relays(l) = P!Relays(l) /\ C!FindMatch(l) = P!FindMatch(l)
         /\ C!IsCommand(l) = P!IsCommand(l) /\ C!HaveDisplayName(l) = P!HaveDisplayName(l)
         /\ C!Sweep(l) = P!Sweep(l) /\ C!Suppress(l) = P!Suppress(l)
         /\ C!TryClearMessage(l) = P!TryClearMessage(l)
         /\ C!TrySetCategory(l) = P!TrySetCategory(l)
         /\ \A fate, native, mute : C!Finish(l, fate, native, mute) = P!Finish(l, fate, native, mute)
         /\ \A kind : C!Banner(l, kind) = P!Banner(l, kind)
<1>1. C!Number = P!Number
  BY DEF C!Number, P!Number
<1>2. C!Muted(l) = P!Muted(l)
  BY DEF C!Muted, P!Muted, C!IsMuted, P!IsMuted, C!MuteKey, P!MuteKey
<1>3. C!FindMatch(l) = P!FindMatch(l) /\ C!IsCommand(l) = P!IsCommand(l)
  BY DEF C!FindMatch, P!FindMatch, C!IsCommand, P!IsCommand
<1>4. C!Passes(l) = P!Passes(l)
  BY <1>2, <1>3 DEF C!Passes, P!Passes
<1>5. C!Relays(l) = P!Relays(l)
  BY <1>3, <1>4 DEF C!Relays, P!Relays, C!Public, P!Public
<1>6. C!HaveDisplayName(l) = P!HaveDisplayName(l)
  BY DEF C!HaveDisplayName, P!HaveDisplayName
<1>7. C!Sweep(l) = P!Sweep(l)
  BY DEF C!Sweep, P!Sweep, C!Swept, P!Swept, C!IsMuted, P!IsMuted, C!MuteKey, P!MuteKey
<1>8. /\ C!TryClearMessage(l) = P!TryClearMessage(l) /\ C!TrySetCategory(l) = P!TrySetCategory(l)
      /\ C!Suppress(l) = P!Suppress(l)
  BY DEF C!TryClearMessage, P!TryClearMessage, C!TrySetCategory, P!TrySetCategory,
    C!Suppress, P!Suppress
<1>9. /\ \A fate, native, mute : C!Finish(l, fate, native, mute) = P!Finish(l, fate, native, mute)
      /\ \A kind : C!Banner(l, kind) = P!Banner(l, kind)
  BY DEF C!Finish, P!Finish, C!Banner, P!Banner
<1> QED
  BY <1>1, <1>2, <1>3, <1>4, <1>5, <1>6, <1>7, <1>8, <1>9

LEMMA SameHook == \A l : C!HandleHook(l) => P!HandleHook(l)
<1> SUFFICES ASSUME NEW l, C!HandleHook(l) PROVE P!HandleHook(l)
  OBVIOUS
<1> USE SameLine
<1>1. C!LinkLine(l) => P!LinkLine(l)
  <2>1. C!Push(links, C!Number, LinksMax) = P!Push(links, P!Number, LinksMax)
    BY DEF C!Push, P!Push, C!Room, P!Room
  <2> QED
    BY <2>1 DEF C!LinkLine, P!LinkLine
<1>2. C!MutedLine(l) => P!MutedLine(l)
  BY DEF C!MutedLine, P!MutedLine, C!MuteKey, P!MuteKey, C!AfterNotice, P!AfterNotice,
    C!NoticeDue, P!NoticeDue, C!IsMuted, P!IsMuted
<1>3. C!FilteredLine(l) => P!FilteredLine(l)
  <2>1. C!MuteKey(l) = P!MuteKey(l)
    BY DEF C!MuteKey, P!MuteKey
  <2>2. C!Swept(mutes, C!MuteKey(l), now) = P!Swept(mutes, P!MuteKey(l), now)
    BY <2>1 DEF C!Swept, P!Swept, C!IsMuted, P!IsMuted
  <2>3. \A old, key, mute : C!Mute(old, key, now, mute) = P!Mute(old, key, now, mute)
    BY DEF C!Mute, P!Mute
  <2> QED
    BY <2>1, <2>2, <2>3 DEF C!FilteredLine, P!FilteredLine
<1>4. C!CommandLine(l) => P!CommandLine(l)
  BY DEF C!CommandLine, P!CommandLine
<1>5. C!NativeLine(l) => P!NativeLine(l)
  BY DEF C!NativeLine, P!NativeLine
<1>6. C!HeldLine(l) => P!HeldLine(l)
  BY DEF C!HeldLine, P!HeldLine, C!Push, P!Push, C!Dropped, P!Dropped, C!Room, P!Room
<1>7. C!SentLine(l) => P!SentLine(l)
  BY DEF C!SentLine, P!SentLine, C!Rebroadcast, P!Rebroadcast
<1> QED
  BY <1>1, <1>2, <1>3, <1>4, <1>5, <1>6, <1>7 DEF C!HandleHook, P!HandleHook

LEMMA SameFlush == C!FlushDeferred => P!FlushDeferred
BY DEF C!FlushDeferred, P!FlushDeferred, C!CanPop, P!CanPop, C!Askable, P!Askable,
  C!Player, P!Player, C!Items, P!Items, C!Rebroadcast, P!Rebroadcast

LEMMA SameType == P!TypeOK <=> C!TypeOK
BY DEF C!TypeOK, P!TypeOK, C!Numbers, P!Numbers, C!Line, P!Line

(* A step of the game thread is one of ChatCapture, or leaves it alone.    *)
LEMMA CaptureStep ==
  [GameNext]_gameVars => [C!Next]_captureVars /\ [P!Next]_captureVars
<1> SUFFICES ASSUME [GameNext]_gameVars
             PROVE  [C!Next]_captureVars /\ [P!Next]_captureVars
  OBVIOUS
<1>1. ASSUME NEW l \in Inputs, NEW k \in States, HandleHook(l, k)
      PROVE  C!Next /\ P!Next
  <2>1. C!HandleHook(l) /\ P!HandleHook(l)
    BY <1>1, SameHook DEF HandleHook
  <2> QED
    BY <2>1 DEF C!Next, P!Next
<1>2. CASE OnUpdate
  <2>1. C!FlushDeferred \/ UNCHANGED captureVars
    BY <1>2 DEF OnUpdate, FlushCapture
  <2> QED
    BY <2>1, SameFlush DEF C!Next, P!Next
<1>3. CASE UNCHANGED captureVars
  BY <1>3
<1> QED
  BY <1>1, <1>2, <1>3 DEF GameNext, gameVars

(* The chat hook in the game thread implements ChatCapture: all that is    *)
(* proved of a line there, its mutes and its places, holds here.           *)
THEOREM CaptureImplemented == GameSpec => C!Spec
<1>1. GameInit => C!Init
  BY DEF GameInit
<1>2. [GameNext]_gameVars => [C!Next]_C!vars
  BY CaptureStep DEF captureVars, C!vars
<1> QED
  BY <1>1, <1>2, PTL DEF GameSpec, C!Spec

(* What the hook left in the game's chat of a line that is relayed.        *)
ClearedInv ==
  \A n \in P!Numbers :
    lines[n].fate \in {"held", "sent"} /\ lines[n].native = "cleared" => ShowLocalServerTag

LinesInv == P!TypeOK /\ P!TwinInv /\ P!PlaceInv /\ P!PublicInv /\ ClearedInv

LEMMA HookCleared ==
  ASSUME P!TypeOK, ClearedInv, NEW l \in Inputs, P!HandleHook(l)
  PROVE  ClearedInv'
<1>1. /\ P!Numbers' = P!Numbers \cup {P!Number}
      /\ \A n \in P!Numbers : lines'[n] = lines[n]
  BY CaptureAssumptions, P!OldLines
<1>2. lines'[P!Number].fate \in {"held", "sent"} => P!HeldLine(l) \/ P!SentLine(l)
  BY CaptureAssumptions, P!HookCases, P!HookEnds DEF P!Ends
<1>3. ASSUME P!HeldLine(l) \/ P!SentLine(l)
      PROVE  lines'[P!Number].native = "cleared" => ShowLocalServerTag
  <2>1. P!Finish(l, "held", P!Suppress(l), 0) \/ P!Finish(l, "sent", P!Suppress(l), 0)
    BY <1>3 DEF P!HeldLine, P!SentLine
  <2>2. "held" \in P!Fates /\ "sent" \in P!Fates /\ P!Suppress(l) \in P!Natives /\ 0 \in Nat
    BY CaptureAssumptions, P!LeftShown DEF P!Fates
  <2>3. \E fate : lines'[P!Number] = [line |-> l, at |-> now, fate |-> fate,
                                      native |-> P!Suppress(l), mute |-> 0]
    <3>1. CASE P!Finish(l, "held", P!Suppress(l), 0)
      <4>1. lines'[P!Number] = [line |-> l, at |-> now, fate |-> "held",
                                native |-> P!Suppress(l), mute |-> 0]
        BY <2>2, <3>1, CaptureAssumptions, P!FinishLines
      <4> QED
        BY <4>1
    <3>2. CASE P!Finish(l, "sent", P!Suppress(l), 0)
      <4>1. lines'[P!Number] = [line |-> l, at |-> now, fate |-> "sent",
                                native |-> P!Suppress(l), mute |-> 0]
        BY <2>2, <3>2, CaptureAssumptions, P!FinishLines
      <4> QED
        BY <4>1
    <3> QED
      BY <2>1, <3>1, <3>2
  <2> QED
    BY <2>3 DEF P!Suppress
<1> QED
  BY <1>1, <1>2, <1>3 DEF ClearedInv

LEMMA NextLines == LinesInv /\ [GameNext]_gameVars => LinesInv'
<1> SUFFICES ASSUME LinesInv, [GameNext]_gameVars PROVE LinesInv'
  OBVIOUS
<1>1. [P!Next]_P!vars
  BY CaptureStep DEF captureVars, P!vars
<1>2. P!TypeOK /\ P!TwinInv /\ P!PlaceInv /\ P!PublicInv /\ ClearedInv
  BY DEF LinesInv
<1>3. P!TypeOK'
  BY <1>1, <1>2, CaptureAssumptions, P!NextTypeOK
<1>4. P!TwinInv' /\ P!PlaceInv' /\ P!PublicInv'
  BY <1>1, <1>2, <1>3, CaptureAssumptions, P!NextTwinInv, P!NextPlaceInv, P!NextPublicInv
<1>5. ClearedInv'
  <2>1. CASE \E l \in Inputs : P!HandleHook(l)
    BY <1>2, <2>1, HookCleared
  <2>2. CASE lines' = lines
    BY <1>2, <2>2 DEF ClearedInv, P!Numbers
  <2> QED
    BY <1>1, <2>1, <2>2 DEF P!Next, P!FlushDeferred, P!Tick, P!vars
<1> QED
  BY <1>3, <1>4, <1>5 DEF LinesInv

LEMMA InitLines == GameInit => LinesInv
<1> SUFFICES ASSUME GameInit PROVE LinesInv
  OBVIOUS
<1>1. P!Init /\ lines = <<>>
  BY DEF GameInit, C!Init, P!Init
<1>2. P!TypeOK /\ P!PlaceInv
  BY <1>1, CaptureAssumptions, P!InitTypeOK, P!InitPlaceInv
<1>3. P!TwinInv /\ P!PublicInv /\ ClearedInv
  BY <1>1 DEF P!Init, P!TwinInv, P!PublicInv, ClearedInv, P!Numbers
<1> QED
  BY <1>2, <1>3 DEF LinesInv

-----------------------------------------------------------------------------
(* From the lines to the messages                                          *)

(* Every line has the PlayerState that typed it, and every line that was   *)
(* rebroadcast has a message.                                              *)
TiesInv ==
  /\ typedBy \in Seq(States) /\ Len(typedBy) = Len(lines)
  /\ comebacks \in Seq(Numbers) /\ Len(comebacks) = Len(rebroadcast)

(* One sequence is the other with something after it.                      *)
Extends(r, q) == Len(q) <= Len(r) /\ \A i \in 1 .. Len(q) : r[i] = q[i]

LEMMA ConcatExtends ==
  ASSUME NEW S, NEW q \in Seq(S), NEW r \in Seq(S)
  PROVE  Extends(q \o r, q)
<1>1. /\ Len(q \o r) = Len(q) + Len(r) /\ Len(q) \in Nat /\ Len(r) \in Nat
      /\ \A i \in 1 .. Len(q) + Len(r) :
           (q \o r)[i] = IF i <= Len(q) THEN q[i] ELSE r[i - Len(q)]
  BY ConcatProperties, LenProperties
<1> QED
  BY <1>1 DEF Extends

(* Lines are added, and so are the lines that are shown again.             *)
LEMMA LinesGrow ==
  ASSUME LinesInv, [P!Next]_P!vars
  PROVE  /\ Extends(rebroadcast', rebroadcast) /\ Extends(lines', lines)
         /\ Len(rebroadcast) \in Nat /\ Len(rebroadcast') \in Nat
         /\ Len(lines) \in Nat /\ Len(lines') \in Nat
         /\ rebroadcast' \in Seq(P!Numbers') /\ lines' \in Seq(P!Record)
<1>0. P!TypeOK /\ P!TypeOK'
  BY CaptureAssumptions, P!NextTypeOK DEF LinesInv
<1>1. /\ rebroadcast \in Seq(P!Numbers) /\ pending \in Seq(P!Numbers)
      /\ rebroadcast' \in Seq(P!Numbers') /\ lines \in Seq(P!Record) /\ lines' \in Seq(P!Record)
      /\ P!Numbers \subseteq Nat /\ P!Numbers' \subseteq Nat
  BY <1>0, LenProperties
     DEF P!TypeOK, P!Record, P!Fates, P!Natives, P!Numbers
<1>2. /\ Len(rebroadcast) \in Nat /\ Len(rebroadcast') \in Nat
      /\ Len(lines) \in Nat /\ Len(lines') \in Nat
  BY <1>1, LenProperties
<1>3. CASE UNCHANGED <<rebroadcast, lines>>
  BY <1>1, <1>2, <1>3 DEF Extends
<1>4. ASSUME NEW l \in Inputs, P!HandleHook(l)
      PROVE  Extends(rebroadcast', rebroadcast) /\ Extends(lines', lines)
  <2>1. /\ P!Numbers' = P!Numbers \cup {P!Number}
        /\ \A n \in P!Numbers : lines'[n] = lines[n]
    BY <1>0, <1>4, CaptureAssumptions, P!OldLines
  <2>2. Extends(lines', lines)
    BY <1>2, <2>1 DEF Extends, P!Numbers, P!Number
  <2>3. CASE P!SentLine(l)
    <3> DEFINE one == <<P!Number>>
    <3>1. rebroadcast' = rebroadcast \/ rebroadcast' = rebroadcast \o one
      BY <2>3 DEF P!SentLine, P!Rebroadcast
    <3>2. rebroadcast \in Seq(Nat) /\ one \in Seq(Nat)
      <4>1. P!Number \in Nat
        BY <1>2 DEF P!Number
      <4>2. rebroadcast \in Seq(Nat)
        BY <1>1, GrowSeq
      <4> QED
        BY <4>1, <4>2
    <3> HIDE DEF one
    <3>3. Extends(rebroadcast \o one, rebroadcast)
      BY <3>2, ConcatExtends
    <3> QED
      BY <1>2, <2>2, <3>1, <3>3 DEF Extends
  <2>4. CASE ~P!SentLine(l)
    <3>1. rebroadcast' = rebroadcast
      BY <1>0, <1>4, <2>4, CaptureAssumptions, P!HookKeeps
    <3> QED
      BY <1>2, <2>2, <3>1 DEF Extends
  <2> QED
    BY <2>3, <2>4
<1>5. CASE P!FlushDeferred
  <2>1. /\ lines' = lines
        /\ rebroadcast' = rebroadcast \/ rebroadcast' = rebroadcast \o pending
    BY <1>5 DEF P!FlushDeferred, P!Rebroadcast
  <2>2. Extends(rebroadcast \o pending, rebroadcast)
    BY <1>1, ConcatExtends
  <2>3. Extends(rebroadcast', rebroadcast)
    <3>1. Extends(rebroadcast, rebroadcast)
      BY <1>2 DEF Extends
    <3> QED
      BY <2>1, <2>2, <3>1
  <2>4. Extends(lines', lines)
    BY <1>2, <2>1 DEF Extends
  <2> QED
    BY <1>1, <1>2, <2>3, <2>4
<1>6. CASE P!Tick
  BY <1>3, <1>6 DEF P!Tick
<1>7. CASE UNCHANGED P!vars
  BY <1>3, <1>7 DEF P!vars
<1> QED
  BY <1>1, <1>2, <1>4, <1>5, <1>6, <1>7 DEF P!Next

(* The message of a line.                                                  *)
SenderOf(n) == IF lines[n].line.uid THEN lines[n].line.player ELSE Nobody
MessageOf(n) == NewMessage("tagged", SenderOf(n), typedBy[n], FALSE)

LEMMA TaggedFresh ==
  ASSUME LinesInv, [P!Next]_P!vars, visits \in Seq(Visit),
         typedBy' \in Seq(States), Len(typedBy') = Len(lines')
  PROVE  /\ FreshMessages(Tagged) /\ Len(Tagged) = Len(rebroadcast') - Len(rebroadcast)
         /\ \A i \in 1 .. Len(Tagged), n \in P!Numbers' :
              n = rebroadcast'[Len(rebroadcast) + i] => Tagged[i] = MessageOf(n)'
<1>1. /\ Extends(rebroadcast', rebroadcast)
      /\ Len(rebroadcast) \in Nat /\ Len(rebroadcast') \in Nat
      /\ rebroadcast' \in Seq(P!Numbers') /\ lines' \in Seq(P!Record)
  BY LinesGrow
<1> DEFINE count == Len(rebroadcast') - Len(rebroadcast)
           line(i) == rebroadcast'[Len(rebroadcast) + i]
           person(n) == IF lines'[n].line.uid THEN lines'[n].line.player ELSE Nobody
           message(n) == NewMessage("tagged", person(n), typedBy'[n], FALSE)
<1>2. count \in Nat /\ \A i \in 1 .. count : Len(rebroadcast) + i \in 1 .. Len(rebroadcast')
  BY <1>1 DEF Extends
<1>3. Tagged = [i \in 1 .. count |-> message(line(i))]
  BY DEF Tagged
<1>4. ASSUME NEW n \in P!Numbers'
      PROVE  /\ message(n) \in Message /\ message(n).kind # "row"
             /\ message(n).state \in States /\ message(n).fate = "queued"
  <2>1. lines'[n] \in P!Record /\ typedBy'[n] \in States
    BY <1>1, ElementOfSeq DEF P!Numbers
  <2>2. typedBy'[n] \in Nat
    BY <2>1, LenProperties DEF States
  <2>3. person(n) \in Players \cup {Nobody}
    BY <2>1 DEF P!Record, P!Line
  <2> HIDE DEF person
  <2> QED
    BY <2>1, <2>2, <2>3 DEF NewMessage, Message, MessageFates
<1>5. \A i \in 1 .. count : line(i) \in P!Numbers'
  BY <1>1, <1>2, ElementOfSeq
<1>6. \A n : message(n) = MessageOf(n)'
  BY DEF MessageOf, SenderOf
<1> HIDE DEF count, line, message
<1>7. Tagged \in [1 .. count -> Message]
  BY <1>3, <1>4, <1>5
<1>8. Tagged \in Seq(Message) /\ Len(Tagged) = count
  BY <1>2, <1>7, FunctionSeq
<1>9. \A i \in 1 .. count : Tagged[i] = message(line(i))
  BY <1>3
<1>10. FreshMessages(Tagged)
  BY <1>4, <1>5, <1>8, <1>9 DEF FreshMessages
<1> QED
  BY <1>6, <1>8, <1>9, <1>10 DEF count, line

(* A message that is a line's, and what its fate says of the line's        *)
(* player: he has seen the line unless there is an excuse.                 *)
Missing(n) == ~Live(typedBy[n]) \/ ~lines[n].line.uid
Comes(n, m) ==
  /\ Is(m, "tagged") /\ messages[m].state = typedBy[n] /\ Sender(m) = SenderOf(n)
  /\ messages[m].fate = "shown" => lines[n].line.player \in Receivers(m) \/ Missing(n)
  /\ messages[m].fate = "nobody" => Missing(n) \/ circuit

LEMMA FreshConcat ==
  ASSUME NEW new, NEW more, FreshMessages(new), FreshMessages(more)
  PROVE  /\ FreshMessages(new \o more) /\ Len(new \o more) = Len(new) + Len(more)
         /\ Len(new) \in Nat /\ Len(more) \in Nat
         /\ \A i \in 1 .. Len(more) : (new \o more)[Len(new) + i] = more[i]
<1> DEFINE all == new \o more
<1>1. /\ all \in Seq(Message) /\ Len(all) = Len(new) + Len(more)
      /\ Len(new) \in Nat /\ Len(more) \in Nat
      /\ \A i \in 1 .. Len(new) + Len(more) :
           all[i] = IF i <= Len(new) THEN new[i] ELSE more[i - Len(new)]
  BY ConcatProperties, LenProperties DEF FreshMessages
<1> HIDE DEF all
<1>2. \A i \in 1 .. Len(all) :
        \/ i \in 1 .. Len(new) /\ all[i] = new[i]
        \/ i - Len(new) \in 1 .. Len(more) /\ all[i] = more[i - Len(new)]
  BY <1>1
<1>3. FreshMessages(all)
  BY <1>1, <1>2 DEF FreshMessages
<1>4. ASSUME NEW i \in 1 .. Len(more)
      PROVE  all[Len(new) + i] = more[i]
  <2>1. /\ Len(new) + i \in 1 .. Len(new) + Len(more) /\ ~(Len(new) + i <= Len(new))
        /\ Len(new) + i - Len(new) = i
    BY <1>1
  <2> QED
    BY <1>1, <2>1
<1> QED
  BY <1>1, <1>3, <1>4 DEF all

(* What a hook or a frame does to the lines that come back: more of them   *)
(* do, each by a message of its own, and nothing but deferring is done to  *)
(* the messages.                                                           *)
Brings ==
  /\ TiesInv' /\ Extends(comebacks', comebacks)
  /\ \A i \in 1 .. Len(rebroadcast') : i > Len(rebroadcast) =>
       \A n, m : n = rebroadcast'[i] /\ m = comebacks'[i] => Comes(n, m)'
  /\ \/ \E new : FreshMessages(new) /\ EnqueueDeferred(new)
     \/ UNCHANGED <<deferred, messages>>

LEMMA DeferTies ==
  ASSUME InjectInv, LinesInv, TiesInv, [P!Next]_P!vars, visits' = visits,
         typedBy' \in Seq(States), Len(typedBy') = Len(lines'),
         NEW notices, FreshMessages(notices), DeferWith(notices)
  PROVE  /\ FreshMessages(notices \o Tagged) /\ EnqueueDeferred(notices \o Tagged)
         /\ Brings
<1> DEFINE new   == notices \o Tagged
           start == Len(messages) + Len(notices)
           added == [i \in 1 .. Len(Tagged) |-> start + i]
<1>1. EnqueueDeferred(new) /\ comebacks' = comebacks \o added
  BY DEF DeferWith
<1>2. /\ FreshMessages(Tagged) /\ Len(Tagged) = Len(rebroadcast') - Len(rebroadcast)
      /\ \A i \in 1 .. Len(Tagged), n \in P!Numbers' :
           n = rebroadcast'[Len(rebroadcast) + i] => Tagged[i] = MessageOf(n)'
  BY TaggedFresh DEF InjectInv, AudienceInv
<1>3. /\ FreshMessages(new) /\ Len(new) = Len(notices) + Len(Tagged)
      /\ Len(notices) \in Nat /\ Len(Tagged) \in Nat
      /\ \A i \in 1 .. Len(Tagged) : new[Len(notices) + i] = Tagged[i]
  <2>1. FreshMessages(notices) /\ FreshMessages(Tagged)
    BY <1>2
  <2> QED
    BY <2>1, FreshConcat
<1> HIDE DEF new
<1>4. messages \in Seq(Message) /\ deferred \in Seq(Numbers) /\ Distinct(deferred)
      /\ Len(messages) \in Nat
  BY LenProperties DEF InjectInv, QueueInv
<1>5. /\ Len(messages') = Len(messages) + Len(new)
      /\ \A i \in 1 .. Len(new) : Enqueued(Len(messages) + i, new[i])
  BY <1>1, <1>3, <1>4, EnqueueType DEF FreshMessages
<1>6. Numbers' = 1 .. Len(messages') /\ Numbers \subseteq Numbers'
  BY <1>3, <1>4, <1>5 DEF Numbers
<1>7. added \in Seq(Numbers') /\ Len(added) = Len(Tagged)
  <2>1. \A i \in 1 .. Len(Tagged) : start + i \in Numbers'
    BY <1>3, <1>4, <1>5, <1>6
  <2>2. added \in [1 .. Len(Tagged) -> Numbers']
    BY <2>1
  <2>3. Len(Tagged) \in Nat
    BY <1>3
  <2> HIDE DEF added
  <2> QED
    BY <2>2, <2>3, FunctionSeq
<1>8. /\ \A i \in 1 .. Len(Tagged) : added[i] = start + i
  OBVIOUS
<1> HIDE DEF added
<1>9. /\ Len(rebroadcast) \in Nat /\ Len(rebroadcast') \in Nat
      /\ Len(rebroadcast) <= Len(rebroadcast') /\ rebroadcast' \in Seq(P!Numbers')
  BY LinesGrow DEF Extends
<1>10. /\ comebacks \in Seq(Numbers') /\ Len(comebacks) = Len(rebroadcast)
  BY <1>6, GrowSeq DEF TiesInv
<1>11. /\ comebacks' \in Seq(Numbers') /\ Len(comebacks') = Len(rebroadcast')
       /\ Extends(comebacks', comebacks)
       /\ \A i \in 1 .. Len(rebroadcast') : i > Len(rebroadcast) =>
            comebacks'[i] = added[i - Len(rebroadcast)]
  <2>1. /\ comebacks' \in Seq(Numbers') /\ Len(comebacks') = Len(comebacks) + Len(added)
        /\ \A i \in 1 .. Len(comebacks) + Len(added) :
             comebacks'[i] = IF i <= Len(comebacks) THEN comebacks[i]
                             ELSE added[i - Len(comebacks)]
    BY <1>1, <1>7, <1>10, ConcatProperties
  <2>2. Extends(comebacks', comebacks)
    BY <1>1, <1>7, <1>10, ConcatExtends
  <2> QED
    BY <1>2, <1>7, <1>9, <1>10, <2>1, <2>2
<1>12. TiesInv'
  <2>1. States' = States
    BY DEF States
  <2> QED
    BY <1>11, <2>1 DEF TiesInv
<1>13. ASSUME NEW i \in 1 .. Len(rebroadcast'), i > Len(rebroadcast), NEW n, NEW m,
              n = rebroadcast'[i], m = comebacks'[i]
       PROVE  Comes(n, m)'
  <2> DEFINE j == i - Len(rebroadcast)
  <2>1. /\ j \in 1 .. Len(Tagged) /\ n = rebroadcast'[Len(rebroadcast) + j]
        /\ n \in P!Numbers'
    <3>1. n \in P!Numbers'
      BY <1>9, <1>13, ElementOfSeq
    <3>2. j \in 1 .. Len(Tagged) /\ Len(rebroadcast) + j = i
      BY <1>2, <1>9, <1>13
    <3> QED
      BY <1>13, <3>1, <3>2
  <2>2. m = Len(messages) + (Len(notices) + j) /\ Len(notices) + j \in 1 .. Len(new)
    BY <1>3, <1>4, <1>8, <1>11, <1>13, <2>1
  <2>3. new[Len(notices) + j] = MessageOf(n)'
    BY <1>2, <1>3, <2>1
  <2> HIDE DEF j
  <2>4. Enqueued(m, MessageOf(n)')
    BY <1>5, <2>2, <2>3
  <2>5. /\ messages'[m].kind = "tagged" /\ messages'[m].state = typedBy'[n]
        /\ messages'[m].sender = SenderOf(n)'
        /\ messages'[m].fate \in {"queued", "overflow"}
    BY <2>4 DEF Enqueued, MessageOf, NewMessage
  <2> QED
    BY <2>5 DEF Comes, Is, Sender
<1> QED
  BY <1>1, <1>3, <1>11, <1>12, <1>13 DEF new, Brings

(* The notices of a mute.                                                  *)
LEMMA BannerFresh ==
  ASSUME visits \in Seq(Visit), NEW k \in States
  PROVE  FreshMessages(MuteBanner(k))
<1>1. FreshMessages(<<>>)
  BY EmptySeq DEF FreshMessages
<1>2. /\ FreshMessages(<<FromPlayer("private", k)>>) /\ FreshMessages(<<FromPlayer("screen", k)>>)
  BY FromPlayerType
<1>3. /\ FreshMessages(<<>> \o <<FromPlayer("screen", k)>>)
      /\ FreshMessages(<<FromPlayer("private", k)>> \o <<FromPlayer("screen", k)>>)
  BY <1>1, <1>2, FreshConcat
<1> QED
  BY <1>1, <1>3 DEF MuteBanner

-----------------------------------------------------------------------------
(* The messages, in a game thread that makes them from lines               *)

LEMMA HookTyped ==
  ASSUME LinesInv, TiesInv, NEW l \in Inputs, NEW k \in States, HandleHook(l, k)
  PROVE  /\ [P!Next]_P!vars
         /\ typedBy' \in Seq(States) /\ Len(typedBy') = Len(lines')
         /\ P!Numbers' = P!Numbers \cup {P!Number}
         /\ \A n \in P!Numbers : typedBy'[n] = typedBy[n] /\ lines'[n] = lines[n]
         /\ typedBy'[P!Number] = k /\ lines'[P!Number].line = l
<1>1. P!HandleHook(l) /\ typedBy' = Append(typedBy, k)
  BY SameHook DEF HandleHook
<1>2. [P!Next]_P!vars
  BY <1>1 DEF P!Next
<1>3. /\ P!Numbers' = P!Numbers \cup {P!Number} /\ lines'[P!Number].line = l
      /\ \A n \in P!Numbers : lines'[n] = lines[n]
  BY <1>1, CaptureAssumptions, P!OldLines DEF LinesInv
<1>4. Len(lines) \in Nat /\ Len(lines') \in Nat
  BY <1>2, LinesGrow
<1>5. Len(lines') = Len(lines) + 1
  <2>1. 1 .. Len(lines') = 1 .. Len(lines) \cup {Len(lines) + 1}
    BY <1>3 DEF P!Numbers, P!Number
  <2>2. Len(lines) + 1 <= Len(lines')
    BY <1>4, <2>1
  <2>3. Len(lines') \in 1 .. Len(lines) \cup {Len(lines) + 1}
    BY <1>4, <2>1, <2>2
  <2> QED
    BY <1>4, <2>2, <2>3
<1>6. /\ typedBy' \in Seq(States) /\ Len(typedBy') = Len(typedBy) + 1
      /\ typedBy'[Len(typedBy) + 1] = k
      /\ \A n \in 1 .. Len(typedBy) : typedBy'[n] = typedBy[n]
  BY <1>1, AppendProperties DEF TiesInv
<1> QED
  BY <1>2, <1>3, <1>5, <1>6 DEF TiesInv, P!Numbers, P!Number

(* Whoever chats is put on the roster.                                     *)
LEMMA ChattedGood ==
  ASSUME AudienceInv, NEW l, NEW k \in States
  PROVE  Good(visits, Chatted(l, k))
<1>1. Good(visits, Upserted(roster, {k}))
  BY UpsertedGood DEF AudienceInv
<1> QED
  BY <1>1 DEF Chatted, AudienceInv

LEMMA HookInject ==
  ASSUME InjectInv, LinesInv, TiesInv, NEW l \in Inputs, NEW k \in States, HandleHook(l, k)
  PROVE  InjectInv' /\ Brings
<1>1. /\ [P!Next]_P!vars /\ typedBy' \in Seq(States) /\ Len(typedBy') = Len(lines')
  BY HookTyped
<1>2. /\ DeferWith(MuteBanner(k)) /\ roster' = Chatted(l, k) /\ RebuildLists(roster')
      /\ UNCHANGED <<visits, joins, bootstrapped, givenUp, step, left, hand, world, cached,
                     findFaults, function, warm, circuit, inbound, faults, shown, requeued>>
  BY DEF HandleHook
<1>3. FreshMessages(MuteBanner(k))
  BY BannerFresh DEF InjectInv, AudienceInv
<1>4. /\ FreshMessages(MuteBanner(k) \o Tagged) /\ EnqueueDeferred(MuteBanner(k) \o Tagged)
      /\ Brings
  BY <1>1, <1>2, <1>3, DeferTies
<1>5. AudienceInv'
  <2>1. Good(visits', roster')
    BY <1>2, ChattedGood DEF InjectInv
  <2>2. JoinsInv'
    BY <1>2 DEF InjectInv, AudienceInv, JoinsInv, States
  <2> QED
    BY <1>2, <2>1, <2>2 DEF InjectInv, AudienceInv, RebuildLists
<1>6. ControlInv'
  BY <1>2, ControlRests DEF InjectInv, ControlInv, CountInv
<1>7. QueueInv' /\ PlaceInv' /\ ShownInv'
  BY <1>2, <1>4, EnqueueStep
<1> QED
  BY <1>4, <1>5, <1>6, <1>7 DEF InjectInv

(* Only PlayerStates that are there are put on the roster.                 *)
LEMMA UpdateRoster ==
  ASSUME AudienceInv, LinesInv, TiesInv, OnUpdate
  PROVE  \E ids : /\ UpdateFrame(UpsertedAs(roster, ids)) /\ DOMAIN ids \subseteq States
                  /\ \A k \in DOMAIN ids : Live(k)
                  /\ Good(visits, UpsertedAs(roster, ids))
<1>1. PICK ids \in [Linked -> UNION {LinkIds(k) : k \in Linked}] :
        /\ \A k \in Linked : ids[k] \in LinkIds(k)
        /\ UpdateFrame(UpsertedAs(roster, ids))
  BY DEF OnUpdate
<1>2. DOMAIN ids = Linked /\ \A k \in Linked : Live(k)
  BY DEF Linked
<1>3. Linked \subseteq States
  <2>1. links \in Seq(P!Numbers)
    BY DEF LinesInv, P!TypeOK
  <2>2. Items(links) \subseteq P!Numbers
    BY <2>1, ElementOfSeq DEF Items
  <2>3. \A n \in P!Numbers : typedBy[n] \in States
    BY ElementOfSeq DEF TiesInv, P!Numbers
  <2> QED
    BY <2>2, <2>3 DEF Linked
<1>4. \A k \in DOMAIN ids : IdOf(ids[k], k)
  BY <1>1, <1>2, <1>3, AccountType DEF AudienceInv
<1>5. Good(visits, UpsertedAs(roster, ids))
  BY <1>2, <1>3, <1>4, UpsertedAsGood DEF AudienceInv
<1> QED
  BY <1>1, <1>2, <1>3, <1>5

LEMMA UpdateInject ==
  ASSUME InjectInv, LinesInv, TiesInv, OnUpdate
  PROVE  InjectInv' /\ Brings
<1>1. PICK ids : /\ UpdateFrame(UpsertedAs(roster, ids))
                 /\ Good(visits, UpsertedAs(roster, ids))
  BY UpdateRoster DEF InjectInv
<1>2. AudienceInv' /\ ControlInv'
  BY <1>1, UpdateFrameStep
<1>3. UNCHANGED <<visits, hand, inbound, shown, requeued>>
  BY <1>1 DEF UpdateFrame, Tick
<1>4. typedBy' = typedBy /\ FlushCapture
  BY DEF OnUpdate
<1>5. CASE C!FlushDeferred /\ DeferWith(<<>>)
  <2>1. [P!Next]_P!vars /\ lines' = lines
    BY <1>5, SameFlush DEF P!Next, C!FlushDeferred
  <2>2. FreshMessages(<<>>)
    BY EmptySeq DEF FreshMessages
  <2>3. typedBy' \in Seq(States) /\ Len(typedBy') = Len(lines')
    BY <1>4, <2>1 DEF TiesInv
  <2>4. /\ FreshMessages(<<>> \o Tagged) /\ EnqueueDeferred(<<>> \o Tagged)
        /\ Brings
    BY <1>3, <1>5, <2>1, <2>2, <2>3, DeferTies
  <2>5. QueueInv' /\ PlaceInv' /\ ShownInv'
    BY <1>3, <2>4, EnqueueStep
  <2> QED
    BY <1>2, <2>4, <2>5 DEF InjectInv
<1>6. CASE UNCHANGED <<captureVars, deferred, messages, comebacks>>
  <2>1. Resting /\ Len(visits) <= Len(visits')
    BY <1>3, <1>6, LenProperties DEF Resting, InjectInv, AudienceInv
  <2>2. InjectInv'
    BY <1>2, <2>1, RestingStep
  <2>3. UNCHANGED <<lines, rebroadcast, comebacks, messages>>
    BY <1>6 DEF captureVars
  <2>4. TiesInv'
    BY <1>3, <1>4, <2>3 DEF TiesInv, States, Numbers
  <2>5. Extends(comebacks', comebacks) /\ Len(rebroadcast) \in Nat
    BY <2>3, LenProperties DEF Extends, TiesInv
  <2> QED
    BY <1>6, <2>2, <2>3, <2>4, <2>5 DEF Brings
<1> QED
  BY <1>4, <1>5, <1>6 DEF FlushCapture

(* Everything else is a step of ChatInject.                                *)
LEMMA InjectIsNext == Inject => Next
BY DEF Inject, Next

LEMMA InjectStates ==
  ASSUME InjectInv, Inject
  PROVE  /\ States \subseteq States' /\ Numbers \subseteq Numbers'
         /\ \A k \in States : visits'[k].player = visits[k].player
<1>1. CASE GameEvent
  <2>1. Later(visits, visits') /\ visits \in Seq(Visit)
    BY <1>1, EventVisits DEF GameEvent, InjectInv, AudienceInv
  <2>2. Len(visits) \in Nat /\ Len(visits') \in Nat
    BY <2>1, LenProperties DEF Later
  <2> QED
    BY <1>1, <2>1, <2>2 DEF States, Later, GameEvent, injectVars, Numbers
<1>2. CASE ~GameEvent
  <2>1. visits' = visits
    <3>1. CASE FlushOne
      <4>1. Head(deferred) \in Items(deferred)
        BY <3>1, PopItems DEF FlushOne, InjectInv, QueueInv
      <4> QED
        BY <3>1, <4>1, DoStep DEF FlushOne
    <3>2. CASE BroadcastOne
      BY <3>2 DEF BroadcastOne, DropFiltered, ShowRow, RetryRow, ThrowRow, ThrownAtOnce,
         BroadcastDual, audienceVars
    <3> QED
      BY <1>2, <3>1, <3>2 DEF Inject, Drain, FlushDone, TakeRow, InjectDone, WorldUp, WorldDown,
         FunctionLoads, Warm, Between, PushAnyRow, PushRow, audienceVars
  <2> QED
    BY <2>1, InjectIsNext, KindsKept DEF States
<1> QED
  BY <1>1, <1>2

LEMMA NextTogether ==
  InjectInv /\ LinesInv /\ TiesInv /\ [GameNext]_gameVars => InjectInv' /\ LinesInv' /\ TiesInv'
<1> SUFFICES ASSUME InjectInv, LinesInv, TiesInv, [GameNext]_gameVars
             PROVE  InjectInv' /\ LinesInv' /\ TiesInv'
  OBVIOUS
<1>1. LinesInv'
  BY NextLines
<1>2. CASE \E l \in Inputs : \E k \in States : HandleHook(l, k)
  BY <1>1, <1>2, HookInject DEF Brings
<1>3. CASE OnUpdate
  BY <1>1, <1>3, UpdateInject DEF Brings
<1>4. CASE Inject /\ UNCHANGED <<captureVars, typedBy, comebacks>>
  <2>1. InjectInv'
    BY <1>4, InjectIsNext, NextInject
  <2>2. TiesInv'
    <3>1. typedBy \in Seq(States') /\ comebacks \in Seq(Numbers')
      BY <1>4, InjectStates, GrowSeq DEF TiesInv
    <3> QED
      BY <1>4, <3>1 DEF TiesInv, captureVars
  <2> QED
    BY <1>1, <2>1, <2>2
<1>5. CASE UNCHANGED gameVars
  <2>1. UNCHANGED vars /\ UNCHANGED <<captureVars, typedBy, comebacks>>
    BY <1>5 DEF gameVars
  <2>2. InjectInv'
    BY <2>1, NextInject
  <2>3. TiesInv'
    BY <2>1 DEF TiesInv, vars, audienceVars, injectVars, captureVars, States, Numbers
  <2> QED
    BY <1>1, <2>2, <2>3
<1> QED
  BY <1>2, <1>3, <1>4, <1>5 DEF GameNext

LEMMA InitTogether == GameInit => InjectInv /\ LinesInv /\ TiesInv
<1> SUFFICES ASSUME GameInit PROVE InjectInv /\ LinesInv /\ TiesInv
  OBVIOUS
<1>1. InjectInv /\ LinesInv
  BY InitInject, InitLines DEF GameInit
<1>2. lines = <<>> /\ rebroadcast = <<>> /\ typedBy = <<>> /\ comebacks = <<>>
  BY DEF GameInit, C!Init
<1>3. TiesInv
  BY <1>2, EmptySeq DEF TiesInv
<1> QED
  BY <1>1, <1>3

(* Both components keep their types and the bounds of their lists, and     *)
(* every line has its PlayerState, every rebroadcast line its message.     *)
THEOREM GameTypeCorrect == GameSpec => []GameTypeOK
<1>1. InjectInv /\ LinesInv /\ TiesInv => GameTypeOK
  BY InjectInvIsType, SameType DEF LinesInv, TiesInv, GameTypeOK
<1> QED
  BY <1>1, InitTogether, NextTogether, PTL DEF GameSpec

(* No player is shown a line twice, whether it was typed on this server    *)
(* and brought back or on another, by either form, unless it is a row that *)
(* was pushed back after a call of its broadcast had returned false.       *)
THEOREM GameShownCorrect == GameSpec => []ShownTwiceOnlyByRetry
<1>1. InjectInv => ShownTwiceOnlyByRetry
  BY InjectInvIsType
<1> QED
  BY <1>1, InitTogether, NextTogether, PTL DEF GameSpec

-----------------------------------------------------------------------------
(* What a step shows, and who leaves the roster                            *)

LEMMA QuietSteps ==
  ASSUME [GameNext]_gameVars
  PROVE  [Next]_vars \/ (New = {} /\ shown' = shown)
<1>1. CASE Inject
  BY <1>1, InjectIsNext
<1>2. CASE shown' = shown
  <2>1. Len(shown) + 1 .. Len(shown') = {}
    BY <1>2
  <2> QED
    BY <1>2, <2>1 DEF New
<1>3. CASE UNCHANGED vars
  BY <1>3
<1> QED
  BY <1>1, <1>2, <1>3 DEF GameNext, HandleHook, OnUpdate, UpdateFrame, gameVars

(* Lines that are brought back reach players who are online at that        *)
(* moment, like all others.                                                *)
THEOREM GameOnlineCorrect == GameSpec => LinesReachTheOnline
<1>1. InjectInv /\ [GameNext]_gameVars =>
        [\A c \in New : c.style \in {"formatted", "plain"} => c.to \subseteq Online]_vars
  BY QuietSteps, NewIsGood DEF GoodCall
<1> QED
  BY <1>1, InitTogether, NextTogether, PTL DEF GameSpec, LinesReachTheOnline

(* And Xbox players get them only with a sender who is in the session.     *)
THEOREM GameXboxCorrect == GameSpec => XboxLinesAreAttributed
<1>1. InjectInv /\ [GameNext]_gameVars =>
        [\A c \in New : c.style = "plain" => Sender(c.message) \in Online /\ c.to \subseteq Xbox]_vars
  BY QuietSteps, NewIsGood DEF GoodCall
<1> QED
  BY <1>1, InitTogether, NextTogether, PTL DEF GameSpec, XboxLinesAreAttributed

LEMMA GameKeeps ==
  ASSUME InjectInv, LinesInv, TiesInv, [GameNext]_gameVars,
         NEW p \in DOMAIN roster, Live(roster[p].state)
  PROVE  p \in DOMAIN roster' \/ (~circuit /\ circuit')
<1>1. ASSUME NEW l \in Inputs, NEW k \in States, HandleHook(l, k)
      PROVE  p \in DOMAIN roster'
  BY <1>1 DEF HandleHook, Chatted, Upserted, UpsertedAs
<1>2. CASE OnUpdate
  <2>1. PICK ids : /\ UpdateFrame(UpsertedAs(roster, ids))
                   /\ \A k \in DOMAIN ids : Live(k)
    BY <1>2, UpdateRoster DEF InjectInv
  <2> DEFINE r     == UpsertedAs(roster, ids)
             ready == {k \in DOMAIN joins : Ready(k)}
  <2>2. p \in DOMAIN r /\ Live(r[p].state)
    BY <2>1, UpsertedStays
  <2>3. roster' = Pruned(Upserted(r, ready))
    BY <2>1 DEF UpdateFrame, Tick
  <2>4. \A k \in ready : Live(k)
    BY DEF Ready
  <2> HIDE DEF r, ready
  <2> QED
    BY <2>2, <2>3, <2>4, UpsertKeeps
<1>3. CASE Inject
  BY <1>3, InjectIsNext, StepKeeps
<1>4. CASE UNCHANGED gameVars
  BY <1>4 DEF gameVars, vars, audienceVars
<1> QED
  BY <1>1, <1>2, <1>3, <1>4 DEF GameNext

(* Whoever is online stays on the roster that the hook, the commands and   *)
(* the frames share, until the broadcast that opens the circuit.           *)
THEOREM GameGoneCorrect == GameSpec => OnlyTheGoneLeave
<1>1. InjectInv /\ LinesInv /\ TiesInv /\ [GameNext]_gameVars =>
        [\A p \in DOMAIN roster \ DOMAIN roster' :
           p \notin Online \/ ~Live(roster[p].state) \/ (~circuit /\ circuit')]_vars
  BY GameKeeps
<1> QED
  BY <1>1, InitTogether, NextTogether, PTL DEF GameSpec, OnlyTheGoneLeave

-----------------------------------------------------------------------------
(* Who is listed                                                           *)

(* A player has one PlayerState at a time.                                 *)
OneLive ==
  \A j, k \in States : Live(j) /\ Live(k) /\ visits[j].player = visits[k].player => j = k

ListedIn(r, k) == visits[k].player \in DOMAIN r /\ r[visits[k].player].state = k

(* Adding players who are there keeps those who are listed, and lists      *)
(* those who are added.                                                    *)
LEMMA UpsertedLists ==
  ASSUME OneLive, NEW r, NEW ids, DOMAIN ids \subseteq States, \A j \in DOMAIN ids : Live(j),
         NEW k \in States, Live(k), ListedIn(r, k) \/ k \in DOMAIN ids
  PROVE  ListedIn(UpsertedAs(r, ids), k)
<1> DEFINE p    == visits[k].player
           more == UpsertedAs(r, ids)
           mine == VisitIn(DOMAIN ids, p)
<1>1. p \in DOMAIN more
  BY DEF UpsertedAs, ListedIn
<1>2. CASE mine = {}
  <2>1. more[p] = r[p]
    BY <1>1, <1>2 DEF UpsertedAs
  <2>2. k \notin DOMAIN ids
    BY <1>2 DEF VisitIn
  <2> QED
    BY <1>1, <2>1, <2>2 DEF ListedIn
<1>3. CASE mine # {}
  <2> DEFINE j == CHOOSE j \in mine : TRUE
  <2>1. j \in mine
    BY <1>3
  <2>2. more[p] = Entry(r, j, ids[j])
    BY <1>1, <1>3 DEF UpsertedAs
  <2> HIDE DEF j, more
  <2>3. j = k
    BY <2>1 DEF VisitIn, OneLive
  <2>4. more[p].state = k
    BY <2>2, <2>3 DEF Entry
  <2> QED
    BY <1>1, <2>4 DEF ListedIn, more
<1> QED
  BY <1>2, <1>3

LEMMA PrunedLists ==
  ASSUME NEW r, NEW k \in States, Live(k), ListedIn(r, k)
  PROVE  ListedIn(Pruned(r), k)
BY DEF ListedIn, Pruned

(* What a broadcast makes of the roster before it reads it.                *)
LEMMA BroadcastLists ==
  ASSUME OneLive, NEW found \in {Readable, {}}, NEW k \in States, Live(k), Listed(k)
  PROVE  ListedIn(Pruned(Bootstrapped(found)), k)
<1>1. ListedIn(roster, k)
  BY DEF ListedIn, Listed
<1>2. found \subseteq States /\ \A j \in found : Live(j)
  BY DEF Readable
<1> DEFINE ids == [j \in found |-> Account(j)]
<1>3. Upserted(roster, found) = UpsertedAs(roster, ids) /\ DOMAIN ids = found
  BY DEF Upserted
<1> HIDE DEF ids
<1>4. ListedIn(Upserted(roster, found), k)
  BY <1>1, <1>2, <1>3, UpsertedLists
<1> QED
  BY <1>1, <1>4, PrunedLists DEF Bootstrapped

(* What no step does to the players.                                       *)
Kept(k) ==
  /\ k \in States' /\ visits'[k].player = visits[k].player
  /\ Live(k)' => Live(k)
  /\ Live(k)' /\ ~circuit' /\ Listed(k) => Listed(k)'
PlayersKept == (circuit => circuit') /\ \A k \in States : Kept(k)

LEMMA SameVisits ==
  ASSUME visits' = visits, circuit => circuit',
         \A k \in States : Live(k) /\ Listed(k) => ListedIn(roster', k) \/ circuit'
  PROVE  PlayersKept
BY DEF PlayersKept, Kept, States, Live, Listed, ListedIn

LEMMA HookPlayers ==
  ASSUME OneLive, NEW l, NEW k \in States, HandleHook(l, k)
  PROVE  /\ PlayersKept
         /\ l.kind # "setdiscord" /\ l.uid => Listed(k)'
<1>1. /\ visits' = visits /\ circuit' = circuit /\ roster' = Chatted(l, k) /\ Live(k)
  BY DEF HandleHook
<1> DEFINE ids == [j \in {k} |-> Account(j)]
<1>2. Upserted(roster, {k}) = UpsertedAs(roster, ids) /\ DOMAIN ids = {k}
  BY DEF Upserted
<1> HIDE DEF ids
<1>3. ASSUME NEW j \in States, Live(j), ListedIn(roster, j) \/ j = k
      PROVE  ListedIn(Upserted(roster, {k}), j)
  BY <1>1, <1>2, <1>3, UpsertedLists
<1>4. \A j \in States : Live(j) /\ Listed(j) => ListedIn(roster', j)
  BY <1>1, <1>3 DEF Chatted, Listed, ListedIn
<1>5. l.kind # "setdiscord" /\ l.uid => ListedIn(roster', k)
  BY <1>1, <1>3 DEF Chatted
<1> QED
  BY <1>1, <1>4, <1>5, SameVisits DEF ListedIn, Listed

LEMMA UpdatePlayers ==
  ASSUME OneLive, InjectInv, LinesInv, TiesInv, OnUpdate
  PROVE  PlayersKept
<1>1. PICK ids : /\ UpdateFrame(UpsertedAs(roster, ids)) /\ DOMAIN ids \subseteq States
                 /\ \A k \in DOMAIN ids : Live(k)
  BY UpdateRoster DEF InjectInv
<1> DEFINE r     == UpsertedAs(roster, ids)
           ready == {k \in DOMAIN joins : Ready(k)}
<1>2. Tick(r) /\ CanInjectNow
  BY <1>1 DEF UpdateFrame
<1>3. circuit => circuit'
  BY <1>2 DEF CanInjectNow
<1>4. visits' = visits /\ roster' = Pruned(Upserted(r, ready))
  BY <1>2 DEF Tick
<1>5. ready \subseteq States /\ \A k \in ready : Live(k)
  BY DEF InjectInv, AudienceInv, JoinsInv, Ready
<1> HIDE DEF ready
<1>6. \A k \in States : Live(k) /\ ListedIn(roster, k) => ListedIn(r, k)
  BY <1>1, UpsertedLists
<1> HIDE DEF r
<1> DEFINE more == [j \in ready |-> Account(j)]
<1>7. Upserted(r, ready) = UpsertedAs(r, more) /\ DOMAIN more = ready
  BY DEF Upserted
<1> HIDE DEF more
<1>8. \A k \in States : Live(k) /\ ListedIn(roster, k) => ListedIn(Upserted(r, ready), k)
  BY <1>5, <1>6, <1>7, UpsertedLists
<1>9. \A k \in States : Live(k) /\ Listed(k) => ListedIn(roster', k)
  BY <1>4, <1>8, PrunedLists DEF Listed, ListedIn
<1> QED
  BY <1>3, <1>4, <1>9, SameVisits

LEMMA DualPlayers ==
  ASSUME OneLive, NEW n, NEW fate, BroadcastDual(n, fate), circuit => circuit'
  PROVE  PlayersKept
<1>1. PICK found \in {Readable, {}} :
        Outcome(Calls(Pruned(Bootstrapped(found)), n), Pruned(Bootstrapped(found)), fate)
  BY DEF BroadcastDual
<1>2. visits' = visits
  BY DEF BroadcastDual
<1>3. roster' = Pruned(Bootstrapped(found)) \/ circuit'
  BY <1>1, OutcomeRoster
<1>4. \A k \in States : Live(k) /\ Listed(k) => ListedIn(roster', k) \/ circuit'
  BY <1>3, BroadcastLists
<1> QED
  BY <1>2, <1>4, SameVisits

LEMMA OutcomeCircuit ==
  ASSUME NEW calls, NEW r, NEW fate, Outcome(calls, r, fate)
  PROVE  circuit => circuit'
BY DEF Outcome, AllShown, Faults, Silent, Unready, Lost, FoundAgain, Thrown

LEMMA EventPlayers ==
  ASSUME OneLive, AudienceInv, PlayerEvent, circuit' = circuit
  PROVE  PlayersKept /\ OneLive'
<1>1. visits \in Seq(Visit) /\ Later(visits, visits') /\ roster' = roster
  BY EventVisits, EventAudience DEF AudienceInv
<1>2. Len(visits) \in Nat /\ Len(visits') \in Nat /\ States \subseteq States'
  <2>1. Len(visits) \in Nat /\ Len(visits') \in Nat
    BY <1>1, LenProperties DEF Later
  <2> QED
    BY <1>1, <2>1 DEF Later, States
<1>3. \A k \in States : visits'[k].player = visits[k].player
  BY <1>1 DEF Later, States
<1>4. ASSUME NEW p \in Players, Enter(p)
      PROVE  /\ \A k \in States : visits'[k].live = visits[k].live
             /\ OneLive'
  <2>1. PICK u, a \in Filled :
          visits' = Append(visits, [player |-> p, live |-> TRUE, uid |-> u, account |-> a])
    BY <1>4 DEF Enter
  <2> DEFINE v == [player |-> p, live |-> TRUE, uid |-> u, account |-> a]
  <2>2. v \in Visit /\ visits' = Append(visits, v) /\ v.player = p
    BY <2>1, GameAssumption DEF Visit
  <2> HIDE DEF v
  <2>3. /\ Len(visits') = Len(visits) + 1 /\ visits'[Len(visits) + 1] = v
        /\ \A k \in 1 .. Len(visits) : visits'[k] = visits[k]
    BY <1>1, <2>2, AppendProperties
  <2>4. \A k \in States' : k \in States \/ k = Len(visits) + 1
    BY <1>2, <2>3 DEF States
  <2>5. \A k \in States : Live(k) => visits[k].player # p
    BY <1>4 DEF Enter, Online
  <2>6. \A k \in States : visits'[k] = visits[k]
    BY <2>3 DEF States
  <2>7. ASSUME NEW j \in States', NEW k \in States', visits'[j].live, visits'[k].live,
               visits'[j].player = visits'[k].player
        PROVE  j = k
    <3>1. j \in States => visits[j].live /\ visits'[j].player = visits[j].player
      BY <2>6, <2>7
    <3>2. k \in States => visits[k].live /\ visits'[k].player = visits[k].player
      BY <2>6, <2>7
    <3>3. CASE j \in States /\ k \in States
      BY <2>7, <3>1, <3>2, <3>3 DEF OneLive, Live
    <3>4. CASE j \in States /\ k = Len(visits) + 1
      BY <2>2, <2>3, <2>5, <2>7, <3>1, <3>4 DEF Live
    <3>5. CASE j = Len(visits) + 1 /\ k \in States
      BY <2>2, <2>3, <2>5, <2>7, <3>2, <3>5 DEF Live
    <3> QED
      BY <2>4, <3>3, <3>4, <3>5
  <2> QED
    BY <2>6, <2>7 DEF OneLive, Live
<1>5. ASSUME NEW k \in States, FillIn(k) \/ Leave(k) \/ RequestJoin(k)
      PROVE  /\ Len(visits') = Len(visits)
             /\ \A j \in States : visits'[j].live => visits[j].live
  <2>1. visits[k] \in Visit /\ k \in 1 .. Len(visits)
    BY <1>1, AccountType DEF States
  <2>2. ASSUME NEW v \in Visit, v.live => visits[k].live, visits' = [visits EXCEPT ![k] = v]
        PROVE  /\ Len(visits') = Len(visits)
               /\ \A j \in States : visits'[j].live => visits[j].live
    <3>1. /\ Len(visits') = Len(visits)
          /\ \A j \in 1 .. Len(visits) : visits'[j] = IF j = k THEN v ELSE visits[j]
      BY <1>1, <2>1, <2>2, ExceptSeq
    <3> QED
      BY <2>2, <3>1 DEF States
  <2>3. /\ Live(k) \/ visits' = visits
        /\ \/ visits' = [visits EXCEPT ![k] = [visits[k] EXCEPT !.uid = TRUE]]
           \/ visits' = [visits EXCEPT ![k] = [visits[k] EXCEPT !.account = TRUE]]
           \/ visits' = [visits EXCEPT ![k] = [visits[k] EXCEPT !.live = FALSE]]
           \/ visits' = visits
    BY <1>5 DEF FillIn, Leave, RequestJoin
  <2>5. /\ [visits[k] EXCEPT !.uid = TRUE] \in Visit
        /\ [visits[k] EXCEPT !.account = TRUE] \in Visit
        /\ [visits[k] EXCEPT !.live = FALSE] \in Visit
    BY <2>1 DEF Visit
  <2>4. CASE visits' = visits
    BY <2>4
  <2> QED
    BY <2>2, <2>3, <2>4, <2>5 DEF Live
<1>6. (\E p \in Players : Enter(p)) \/ \E k \in States : FillIn(k) \/ Leave(k) \/ RequestJoin(k)
  BY DEF PlayerEvent
<1>7. \A k \in States : visits'[k].live => visits[k].live
  BY <1>4, <1>5, <1>6
<1>8. OneLive'
  <2>1. CASE Len(visits') = Len(visits)
    BY <1>3, <1>7, <2>1 DEF OneLive, Live, States
  <2> QED
    BY <1>4, <1>5, <1>6, <2>1
<1>9. PlayersKept
  BY <1>1, <1>2, <1>3, <1>7 DEF PlayersKept, Kept, Live, Listed
<1> QED
  BY <1>8, <1>9

LEMMA InjectPlayers ==
  ASSUME OneLive, InjectInv, Inject
  PROVE  PlayersKept /\ OneLive'
<1>1. CASE GameEvent
  BY <1>1, EventPlayers DEF GameEvent, InjectInv, injectVars
<1>2. ASSUME PlayersKept, visits' = visits
      PROVE  PlayersKept /\ OneLive'
  BY <1>2 DEF OneLive, Live, States
<1>3. CASE UNCHANGED <<visits, roster, circuit>>
  <2>1. \A k \in States : Live(k) /\ Listed(k) => ListedIn(roster', k) \/ circuit'
    BY <1>3 DEF Listed, ListedIn
  <2> QED
    BY <1>2, <1>3, <2>1, SameVisits
<1>4. CASE FlushOne
  <2>1. PICK fate \in Fates : Do(Head(deferred), fate)
    BY <1>4 DEF FlushOne
  <2>2. CASE BroadcastDual(Head(deferred), fate)
    <3>1. (circuit => circuit') /\ visits' = visits
      BY <2>2, OutcomeCircuit DEF BroadcastDual
    <3> QED
      BY <1>2, <2>2, <3>1, DualPlayers
  <2>3. CASE BroadcastPrivate(Head(deferred), fate)
    <3>1. (circuit => circuit') /\ visits' = visits /\ (roster' = roster \/ circuit')
      BY <2>3, OutcomeCircuit, OutcomeRoster DEF BroadcastPrivate
    <3>2. \A k \in States : Live(k) /\ Listed(k) => ListedIn(roster', k) \/ circuit'
      BY <3>1 DEF Listed, ListedIn
    <3> QED
      BY <1>2, <3>1, <3>2, SameVisits
  <2>4. CASE SendScreenLog(Head(deferred), fate)
    BY <1>3, <2>4 DEF SendScreenLog, audienceVars
  <2>5. CASE ThrownAtOnce
    BY <1>3, <2>5 DEF ThrownAtOnce, Thrown
  <2> QED
    BY <2>1, <2>2, <2>3, <2>4, <2>5 DEF Do
<1>5. CASE BroadcastOne
  <2>1. CASE DropFiltered
    BY <1>3, <2>1 DEF DropFiltered, audienceVars
  <2>2. CASE ThrownAtOnce
    BY <1>3, <2>2 DEF ThrownAtOnce, Thrown
  <2>3. CASE \E fate : BroadcastDual(hand, fate)
    <3>1. PICK fate : BroadcastDual(hand, fate)
      BY <2>3
    <3>2. (circuit => circuit') /\ visits' = visits
      BY <3>1, OutcomeCircuit DEF BroadcastDual
    <3> QED
      BY <1>2, <3>1, <3>2, DualPlayers
  <2> QED
    BY <1>5, <2>1, <2>2, <2>3 DEF BroadcastOne, ShowRow, RetryRow, ThrowRow
<1>6. CASE \/ WorldUp \/ WorldDown \/ FunctionLoads \/ Warm \/ PushAnyRow
           \/ FlushDone \/ TakeRow \/ InjectDone
  BY <1>3, <1>6 DEF WorldUp, WorldDown, FunctionLoads, Warm, Between, PushAnyRow, PushRow,
     FlushDone, TakeRow, InjectDone, audienceVars
<1> QED
  BY <1>1, <1>4, <1>5, <1>6 DEF Inject, Drain

LEMMA GamePlayers ==
  ASSUME OneLive, InjectInv, LinesInv, TiesInv, [GameNext]_gameVars
  PROVE  PlayersKept /\ OneLive'
<1>1. ASSUME NEW l \in Inputs, NEW k \in States, HandleHook(l, k)
      PROVE  PlayersKept /\ OneLive'
  BY <1>1, HookPlayers DEF HandleHook, OneLive, Live, States
<1>2. CASE OnUpdate
  BY <1>2, UpdatePlayers DEF OnUpdate, UpdateFrame, Tick, OneLive, Live, States
<1>3. CASE Inject
  BY <1>3, InjectPlayers
<1>4. CASE UNCHANGED gameVars
  <2>1. UNCHANGED <<visits, roster, circuit>>
    BY <1>4 DEF gameVars, vars, audienceVars, injectVars
  <2>2. \A k \in States : Live(k) /\ Listed(k) => ListedIn(roster', k) \/ circuit'
    BY <2>1 DEF Listed, ListedIn
  <2> QED
    BY <2>1, <2>2, SameVisits DEF OneLive, Live, States
<1> QED
  BY <1>1, <1>2, <1>3, <1>4 DEF GameNext

-----------------------------------------------------------------------------
(* What becomes of a message                                               *)

(* A message that is no row is queued exactly as long as it is in the list *)
(* of deferred work, and is given up in silence only by an open circuit.   *)
FateInv ==
  \A m \in Numbers : ~Is(m, "row") =>
    /\ messages[m].fate = "queued" <=> m \in Items(deferred)
    /\ messages[m].fate # "filtered"
    /\ messages[m].fate = "circuit" => circuit

MessageKept(m) ==
  /\ m \in Numbers' /\ messages'[m].kind = messages[m].kind
  /\ messages'[m].state = messages[m].state /\ messages'[m].sender = messages[m].sender

LEMMA MarkKeeps ==
  ASSUME messages \in Seq(Message), NEW ns, NEW fate \in MessageFates,
         messages' = Mark(ns, fate)
  PROVE  /\ Numbers' = Numbers
         /\ \A m \in Numbers :
              /\ MessageKept(m)
              /\ messages'[m].fate = IF m \in ns THEN fate ELSE messages[m].fate
BY MarkType DEF Numbers, MessageKept

(* The frame touches the fate of rows, and of the deferred action that it  *)
(* tries.                                                                  *)
LEMMA InjectMarks ==
  ASSUME InjectInv, Inject
  PROVE  /\ \A m \in Numbers :
              /\ MessageKept(m)
              /\ \/ messages'[m].fate = messages[m].fate \/ Is(m, "row")
                 \/ FlushOne /\ m = Head(deferred)
         /\ \A m \in Numbers' \ Numbers : messages'[m].kind = "row"
         /\ FlushOne \/ deferred' = deferred
<1> DEFINE Marked ==
         /\ \A m \in Numbers :
              /\ MessageKept(m)
              /\ \/ messages'[m].fate = messages[m].fate \/ Is(m, "row")
                 \/ FlushOne /\ m = Head(deferred)
         /\ \A m \in Numbers' \ Numbers : messages'[m].kind = "row"
<1> SUFFICES Marked /\ (FlushOne \/ deferred' = deferred)
  BY DEF Marked
<1>1. messages \in Seq(Message) /\ QueueInv /\ PlaceInv
  BY DEF InjectInv, QueueInv
<1>2. Len(messages) \in Nat /\ Numbers = 1 .. Len(messages)
  BY <1>1, LenProperties DEF Numbers
<1>3. Dropped(inbound, QueueMax) \subseteq Items(inbound)
  <2>1. inbound \in Seq(Nat) /\ Distinct(inbound)
    BY <1>1, OrderFacts DEF QueueInv
  <2>2. 0 \in Nat /\ Items(inbound) \subseteq Numbers /\ 0 \notin Numbers
    BY <1>2, OrderFacts
  <2>3. 0 \notin Items(inbound)
    BY <2>2
  <2> QED
    BY <2>1, <2>2, <2>3, PushDistinct, Limits
<1>4. \A m \in Dropped(inbound, QueueMax) \cup ({hand} \ {0}) : Is(m, "row")
  BY <1>1, <1>3 DEF PlaceInv
<1>5. ASSUME NEW ns, NEW fate \in MessageFates, messages' = Mark(ns, fate),
             \A m \in ns : Is(m, "row") \/ (FlushOne /\ m = Head(deferred))
      PROVE  Marked
  BY <1>1, <1>5, MarkKeeps
<1> HIDE DEF Marked
<1>6. CASE FlushOne
  <2>1. PICK fate \in Fates :
          messages' = Mark({Head(deferred)},
                              IF fate \in {"retry", "thrown"} THEN "failed" ELSE fate)
    BY <1>6 DEF FlushOne
  <2> DEFINE end == IF fate \in {"retry", "thrown"} THEN "failed" ELSE fate
  <2>2. end \in MessageFates
    BY DEF Fates, MessageFates
  <2>3. messages' = Mark({Head(deferred)}, end)
    BY <2>1
  <2> HIDE DEF end
  <2>4. \A m \in {Head(deferred)} : FlushOne /\ m = Head(deferred)
    BY <1>6
  <2> QED
    BY <1>5, <1>6, <2>2, <2>3, <2>4
<1>7. CASE BroadcastOne
  <2>1. deferred' = deferred /\ hand # 0
    BY <1>7 DEF BroadcastOne
  <2>2. {"filtered", "overflow"} \cup (Fates \ {"retry", "thrown"}) \cup {"failed"} \subseteq MessageFates
    BY DEF Fates, MessageFates
  <2>3. \A m \in {hand} : Is(m, "row")
    BY <1>4, <2>1
  <2>4. CASE messages' = Mark({hand}, "filtered")
    BY <1>5, <2>1, <2>2, <2>3, <2>4
  <2>5. CASE \E fate \in (Fates \ {"retry", "thrown"}) \cup {"failed"} : messages' = Mark({hand}, fate)
    BY <1>5, <2>1, <2>2, <2>3, <2>5
  <2>6. CASE messages' = Mark(Dropped(inbound, QueueMax), "overflow")
    BY <1>4, <1>5, <2>1, <2>2, <2>6
  <2> QED
    BY <1>7, <2>4, <2>5, <2>6 DEF BroadcastOne, DropFiltered, ShowRow, RetryRow, ThrowRow, Fates
<1>8. ASSUME NEW sender \in Players \cup {Nobody}, NEW bad \in BOOLEAN, PushRow(sender, bad)
      PROVE  Marked /\ deferred' = deferred
  <2> DEFINE row  == NewMessage("row", sender, 0, bad)
             old  == Mark(Dropped(inbound, QueueMax), "overflow")
  <2>1. messages' = Append(old, row) /\ deferred' = deferred
    BY <1>8 DEF PushRow
  <2>2. "overflow" \in MessageFates /\ row \in Message /\ row.kind = "row"
    BY DEF MessageFates, Message, NewMessage
  <2>3. /\ old \in Seq(Message) /\ Len(old) = Len(messages)
        /\ \A m \in Numbers :
             /\ old[m].kind = messages[m].kind /\ old[m].state = messages[m].state
             /\ old[m].sender = messages[m].sender
             /\ old[m].fate = messages[m].fate \/ Is(m, "row")
    BY <1>1, <1>4, <2>2, MarkType
  <2> HIDE DEF row, old
  <2>4. /\ messages' \in Seq(Message) /\ Len(messages') = Len(messages) + 1
        /\ messages'[Len(messages) + 1] = row
        /\ \A m \in Numbers : messages'[m] = old[m]
    BY <1>2, <2>1, <2>2, <2>3, AppendProperties
  <2>5. \A m \in Numbers' : m \in Numbers \/ m = Len(messages) + 1
    BY <1>2, <2>4 DEF Numbers
  <2>6. Numbers \subseteq Numbers'
    BY <1>2, <2>4 DEF Numbers
  <2> QED
    BY <2>1, <2>2, <2>3, <2>4, <2>5, <2>6 DEF MessageKept, Marked
<1>9. CASE UNCHANGED <<messages, deferred>>
  BY <1>9 DEF MessageKept, Numbers, Marked
<1>10. CASE \/ WorldUp \/ WorldDown \/ FunctionLoads \/ Warm \/ GameEvent
            \/ FlushDone \/ TakeRow \/ InjectDone
  <2>1. UNCHANGED <<messages, deferred>>
    BY <1>10 DEF WorldUp, WorldDown, FunctionLoads, Warm, GameEvent, Between, injectVars,
       FlushDone, TakeRow, InjectDone
  <2> QED
    BY <1>9, <2>1
<1>11. CASE PushAnyRow
  BY <1>8, <1>11, MessageAssumption DEF PushAnyRow
<1> QED
  BY <1>6, <1>7, <1>9, <1>10, <1>11 DEF Inject, Drain

(* The action that is tried is finished.                                   *)
LEMMA FlushEnds ==
  ASSUME InjectInv, FlushOne, NEW m, m = Head(deferred)
  PROVE  /\ m \in Numbers /\ Items(deferred) = {m} \cup Items(deferred')
         /\ m \notin Items(deferred')
         /\ \E fate \in Fates :
              /\ Do(m, fate)
              /\ messages'[m].fate = IF fate \in {"retry", "thrown"} THEN "failed" ELSE fate
         /\ messages'[m].fate \in {"shown", "nobody", "circuit", "failed"}
         /\ messages'[m].fate = "circuit" => circuit'
<1>1. deferred \in Seq(Numbers) /\ Distinct(deferred) /\ messages \in Seq(Message)
  BY DEF InjectInv, QueueInv
<1>2. /\ CanPop(deferred) /\ deferred' = Tail(deferred)
      /\ \E fate \in Fates :
           /\ Do(m, fate)
           /\ messages' = Mark({m}, IF fate \in {"retry", "thrown"} THEN "failed" ELSE fate)
  BY DEF FlushOne
<1>3. /\ m \in Numbers /\ Items(deferred) = {m} \cup Items(deferred')
      /\ m \notin Items(deferred')
  BY <1>1, <1>2, PopItems, PopType, PopDistinct
<1>4. PICK fate \in Fates :
        /\ Do(m, fate)
        /\ messages' = Mark({m}, IF fate \in {"retry", "thrown"} THEN "failed" ELSE fate)
  BY <1>2
<1> DEFINE end == IF fate \in {"retry", "thrown"} THEN "failed" ELSE fate
<1>5. end \in MessageFates /\ end \in {"shown", "nobody", "circuit", "failed"}
      /\ (end = "circuit" => fate = "circuit")
  BY DEF Fates, MessageFates
<1>6. messages' = Mark({m}, end)
  BY <1>4
<1>7. messages'[m].fate = end
  <2> HIDE DEF end
  <2> QED
    BY <1>1, <1>3, <1>5, <1>6, MarkKeeps
<1>8. Do(m, "circuit") => circuit'
  <2>1. ASSUME NEW calls, NEW r, Outcome(calls, r, "circuit")
        PROVE  circuit'
    BY <2>1 DEF Outcome, Faults, Silent
  <2>2. ~SendScreenLog(m, "circuit")
    BY DEF SendScreenLog
  <2> QED
    BY <2>1, <2>2 DEF Do, BroadcastDual, BroadcastPrivate
<1> QED
  BY <1>3, <1>4, <1>5, <1>7, <1>8

LEMMA InjectFates ==
  ASSUME OneLive, InjectInv, FateInv, Inject
  PROVE  FateInv'
<1>1. /\ \A m \in Numbers :
           /\ MessageKept(m)
           /\ \/ messages'[m].fate = messages[m].fate \/ Is(m, "row")
              \/ FlushOne /\ m = Head(deferred)
      /\ \A m \in Numbers' \ Numbers : messages'[m].kind = "row"
      /\ FlushOne \/ deferred' = deferred
  BY InjectMarks
<1>2. circuit => circuit'
  BY InjectPlayers DEF PlayersKept
<1>3. ASSUME NEW m \in Numbers', messages'[m].kind # "row"
      PROVE  /\ messages'[m].fate = "queued" <=> m \in Items(deferred')
             /\ messages'[m].fate # "filtered"
             /\ messages'[m].fate = "circuit" => circuit'
  <2>1. m \in Numbers /\ ~Is(m, "row")
    BY <1>1, <1>3 DEF Is, MessageKept
  <2>2. /\ messages[m].fate = "queued" <=> m \in Items(deferred)
        /\ messages[m].fate # "filtered"
        /\ messages[m].fate = "circuit" => circuit
    BY <2>1 DEF FateInv
  <2>3. CASE FlushOne /\ m = Head(deferred)
    BY <2>3, FlushEnds
  <2>4. CASE ~(FlushOne /\ m = Head(deferred))
    <3>1. messages'[m].fate = messages[m].fate
      BY <1>1, <2>1, <2>4
    <3>2. m \in Items(deferred) <=> m \in Items(deferred')
      <4>1. CASE FlushOne
        <5>1. Items(deferred) = {Head(deferred)} \cup Items(deferred')
          BY <4>1, FlushEnds
        <5> QED
          BY <2>4, <4>1, <5>1
      <4>2. CASE ~FlushOne
        BY <1>1, <4>2
      <4> QED
        BY <4>1, <4>2
    <3> QED
      BY <1>2, <2>2, <3>1, <3>2
  <2> QED
    BY <2>3, <2>4
<1> QED
  BY <1>3 DEF FateInv, Is

LEMMA EnqueueFates ==
  ASSUME InjectInv, FateInv, NEW new, FreshMessages(new), EnqueueDeferred(new),
         circuit => circuit'
  PROVE  /\ FateInv'
         /\ \A m \in Numbers :
              /\ MessageKept(m)
              /\ messages'[m].fate \in {"shown", "nobody"} => messages'[m].fate = messages[m].fate
<1>1. /\ messages \in Seq(Message) /\ deferred \in Seq(Numbers) /\ Distinct(deferred)
      /\ new \in Seq(Message)
  BY DEF InjectInv, QueueInv, FreshMessages
<1>2. /\ messages' \in Seq(Message) /\ Len(messages') = Len(messages) + Len(new)
      /\ Items(deferred') \subseteq Items(deferred) \cup (Numbers' \ Numbers)
      /\ \A n \in Items(deferred) : Enqueued(n, messages[n])
      /\ \A n \in Numbers \ Items(deferred) : messages'[n] = messages[n]
      /\ \A i \in 1 .. Len(new) : Enqueued(Len(messages) + i, new[i])
  BY <1>1, EnqueueType
<1>3. /\ Numbers \subseteq Numbers'
      /\ \A m \in Numbers :
           /\ messages'[m].kind = messages[m].kind /\ messages'[m].state = messages[m].state
           /\ messages'[m].sender = messages[m].sender
           /\ messages'[m].fate = messages[m].fate \/ messages'[m].fate = "overflow"
  BY <1>1, EnqueueKeeps
<1>4. ASSUME NEW n, NEW m \in Message, Enqueued(n, m)
      PROVE  messages'[n].fate = IF n \in Items(deferred') THEN m.fate ELSE "overflow"
  BY <1>4 DEF Enqueued, Message
<1>5. ASSUME NEW m \in Numbers' \ Numbers
      PROVE  messages'[m].fate = IF m \in Items(deferred') THEN "queued" ELSE "overflow"
  <2>1. Len(messages) \in Nat /\ Len(new) \in Nat
    BY <1>1, LenProperties
  <2> DEFINE i == m - Len(messages)
  <2>2. i \in 1 .. Len(new) /\ m = Len(messages) + i
    BY <1>2, <2>1 DEF Numbers
  <2> HIDE DEF i
  <2>3. new[i] \in Message /\ new[i].fate = "queued" /\ Enqueued(m, new[i])
    BY <1>1, <1>2, <2>2, ElementOfSeq DEF FreshMessages
  <2> QED
    BY <1>4, <2>3
<1>6. ASSUME NEW m \in Numbers', messages'[m].kind # "row"
      PROVE  /\ messages'[m].fate = "queued" <=> m \in Items(deferred')
             /\ messages'[m].fate # "filtered"
             /\ messages'[m].fate = "circuit" => circuit'
  <2>1. CASE m \notin Numbers
    BY <1>5, <2>1
  <2>2. CASE m \in Numbers
    <3>1. /\ messages[m].fate = "queued" <=> m \in Items(deferred)
          /\ messages[m].fate # "filtered"
          /\ messages[m].fate = "circuit" => circuit
      BY <1>3, <1>6, <2>2 DEF FateInv, Is
    <3>2. CASE m \in Items(deferred)
      <4>1. messages[m] \in Message
        BY <1>1, <2>2, ElementOfSeq DEF Numbers
      <4>2. messages'[m].fate = IF m \in Items(deferred') THEN "queued" ELSE "overflow"
        BY <1>2, <1>4, <3>1, <3>2, <4>1
      <4> QED
        BY <4>2
    <3>3. CASE m \notin Items(deferred)
      <4>1. m \notin Items(deferred') /\ messages'[m] = messages[m]
        BY <1>2, <2>2, <3>3
      <4> QED
        BY <3>1, <3>3, <4>1
    <3> QED
      BY <3>2, <3>3
  <2> QED
    BY <2>1, <2>2
<1> QED
  BY <1>3, <1>6 DEF FateInv, Is, MessageKept

-----------------------------------------------------------------------------
(* Lines, their players and their messages                                 *)

(* A line is its PlayerState's, and whoever typed one is listed for as     *)
(* long as he is there, unless the circuit has opened.                     *)
LineInv ==
  \A n \in P!Numbers :
    /\ lines[n].line.player = visits[typedBy[n]].player
    /\ lines[n].line.kind # "setdiscord" /\ lines[n].line.uid =>
         ~Live(typedBy[n]) \/ circuit \/ Listed(typedBy[n])

ComeInv == \A i \in 1 .. Len(rebroadcast) : Comes(rebroadcast[i], comebacks[i])

LEMMA NextLine ==
  ASSUME OneLive, InjectInv, LinesInv, TiesInv, LineInv, [GameNext]_gameVars
  PROVE  LineInv'
<1>1. PlayersKept
  BY GamePlayers
<1>2. \A n \in P!Numbers : typedBy[n] \in States
  BY ElementOfSeq DEF TiesInv, P!Numbers
<1>3. ASSUME NEW n \in P!Numbers, lines'[n] = lines[n], typedBy'[n] = typedBy[n]
      PROVE  /\ lines'[n].line.player = visits'[typedBy'[n]].player
             /\ lines'[n].line.kind # "setdiscord" /\ lines'[n].line.uid =>
                  \A k : k = typedBy'[n] => ~Live(k)' \/ circuit' \/ Listed(k)'
  <2>1. Kept(typedBy[n]) /\ (circuit => circuit')
    BY <1>1, <1>2 DEF PlayersKept
  <2> QED
    BY <1>3, <2>1 DEF Kept, LineInv
<1>4. ASSUME NEW l \in Inputs, NEW k \in States, HandleHook(l, k)
      PROVE  LineInv'
  <2>1. /\ P!Numbers' = P!Numbers \cup {P!Number}
        /\ \A n \in P!Numbers : typedBy'[n] = typedBy[n] /\ lines'[n] = lines[n]
        /\ typedBy'[P!Number] = k /\ lines'[P!Number].line = l
    BY <1>4, HookTyped
  <2>2. /\ l.player = visits[k].player /\ visits' = visits
        /\ l.kind # "setdiscord" /\ l.uid => Listed(k)'
    BY <1>4, HookPlayers DEF HandleHook
  <2>3. ASSUME NEW n \in P!Numbers'
        PROVE  /\ lines'[n].line.player = visits'[typedBy'[n]].player
               /\ lines'[n].line.kind # "setdiscord" /\ lines'[n].line.uid =>
                    \A j : j = typedBy'[n] => ~Live(j)' \/ circuit' \/ Listed(j)'
    <3>1. CASE n \in P!Numbers
      BY <1>3, <2>1, <3>1
    <3>2. CASE n = P!Number
      BY <2>1, <2>2, <3>2
    <3> QED
      BY <2>1, <3>1, <3>2
  <2> QED
    BY <2>3 DEF LineInv, Live, Listed
<1>5. CASE UNCHANGED <<lines, typedBy>>
  <2>1. P!Numbers' = P!Numbers
    BY <1>5 DEF P!Numbers
  <2> QED
    BY <1>3, <1>5, <2>1 DEF LineInv, Live, Listed
<1>6. CASE OnUpdate
  BY <1>5, <1>6 DEF OnUpdate, FlushCapture, C!FlushDeferred, captureVars
<1> QED
  BY <1>4, <1>5, <1>6 DEF GameNext, gameVars, captureVars

(* What has been shown stays shown.                                        *)
LEMMA ReceiversGrow ==
  ASSUME Len(shown) \in Nat, Len(shown') \in Nat, Extends(shown', shown), NEW m
  PROVE  Receivers(m) \subseteq Receivers(m)'
<1>1. \A i \in 1 .. Len(shown) : i \in 1 .. Len(shown') /\ shown'[i] = shown[i]
  BY DEF Extends
<1> QED
  BY <1>1 DEF Receivers

LEMMA ShownGrows ==
  ASSUME InjectInv, [GameNext]_gameVars
  PROVE  Len(shown) \in Nat /\ Len(shown') \in Nat /\ Extends(shown', shown)
<1>1. shown \in Seq(Broadcast) /\ Len(shown) \in Nat
  BY LenProperties DEF InjectInv, ShownInv
<1>2. CASE shown' = shown
  BY <1>1, <1>2 DEF Extends
<1>3. CASE \E n \in Numbers : Adds(n)
  <2>1. /\ shown' \in Seq(Broadcast) /\ Len(shown) <= Len(shown')
        /\ \A i \in 1 .. Len(shown) : shown'[i] = shown[i]
    BY <1>3 DEF Adds
  <2> QED
    BY <1>1, <2>1, LenProperties DEF Extends
<1> QED
  BY <1>2, <1>3, QuietSteps, StepAdds

LEMMA ComesKept ==
  ASSUME PlayersKept, TiesInv, Len(shown) \in Nat, Len(shown') \in Nat,
         Extends(shown', shown),
         NEW n \in P!Numbers, lines'[n] = lines[n], typedBy'[n] = typedBy[n],
         NEW m, MessageKept(m), Comes(n, m),
         messages'[m].fate \in {"shown", "nobody"} => messages'[m].fate = messages[m].fate
  PROVE  Comes(n, m)'
<1>1. typedBy[n] \in States
  BY ElementOfSeq DEF TiesInv, P!Numbers
<1>2. (circuit => circuit') /\ Kept(typedBy[n])
  BY <1>1 DEF PlayersKept
<1>3. Missing(n) => Missing(n)'
  BY <1>2 DEF Missing, Kept, Live
<1>4. Receivers(m) \subseteq Receivers(m)'
  BY ReceiversGrow
<1>5. /\ messages'[m].kind = "tagged" /\ messages'[m].state = typedBy'[n]
      /\ messages'[m].sender = SenderOf(n)'
  BY DEF Comes, MessageKept, Is, Sender, SenderOf
<1>6. /\ messages'[m].fate = "shown" => lines'[n].line.player \in Receivers(m)' \/ Missing(n)'
      /\ messages'[m].fate = "nobody" => Missing(n)' \/ circuit'
  BY <1>2, <1>3, <1>4 DEF Comes
<1> QED
  BY <1>5, <1>6 DEF Comes, Is, Sender

(* A broadcast of a player's own line reaches him if he is listed: in one  *)
(* form or, since he is a sender who can be named, in the other.           *)
LEMMA CallsReach ==
  ASSUME NEW r, Good(visits, r), DOMAIN r \subseteq Online, NEW m \in Nat,
         Sender(m) \in DOMAIN r
  PROVE  /\ Calls(r, m) \in Seq(Broadcast) /\ Calls(r, m) # <<>>
         /\ \E i \in 1 .. Len(Calls(r, m)) :
              Calls(r, m)[i].message = m /\ Sender(m) \in Calls(r, m)[i].to
<1> DEFINE p      == Sender(m)
           a      == Call(m, OthersOf(r), "formatted")
           b      == Call(m, XboxOf(r), "plain")
           first  == IF OthersOf(r) # {} THEN <<a>> ELSE <<>>
           second == IF XboxOf(r) # {} /\ Attributed(r, m) THEN <<b>> ELSE <<>>
           calls  == Calls(r, m)
<1>1. Attributed(r, m) /\ (p \in XboxOf(r) \/ p \in OthersOf(r))
  BY DEF Attributed, XboxOf, OthersOf
<1>2. calls \in Seq(Broadcast) /\ \A i \in 1 .. Len(calls) : calls[i].message = m
  BY CallsAreGood DEF GoodCalls, GoodCall
<1>3. calls = first \o second
  BY DEF Calls
<1>4. a \in Broadcast /\ b \in Broadcast
  BY ListsInRoster DEF Good, Call, Broadcast
<1>5. a.to = OthersOf(r) /\ b.to = XboxOf(r)
  BY DEF Call
<1>b. /\ (OthersOf(r) # {}) \in BOOLEAN
      /\ (XboxOf(r) # {} /\ Attributed(r, m)) \in BOOLEAN
  OBVIOUS
<1> HIDE DEF a, b, calls
<1>6. first \in Seq(Broadcast) /\ second \in Seq(Broadcast)
  BY <1>4, EmptySeq
<1>7. /\ OthersOf(r) # {} => Len(first) = 1 /\ first[1] = a
      /\ XboxOf(r) # {} => Len(second) = 1 /\ second[1] = b
  BY <1>1
<1> HIDE DEF first, second
<1>8. /\ Len(calls) = Len(first) + Len(second) /\ Len(first) \in Nat /\ Len(second) \in Nat
      /\ \A i \in 1 .. Len(first) + Len(second) :
           calls[i] = IF i <= Len(first) THEN first[i] ELSE second[i - Len(first)]
  BY <1>3, <1>6, ConcatProperties, LenProperties
<1>9. \E i \in 1 .. Len(calls) : p \in calls[i].to
  <2>1. CASE p \in OthersOf(r)
    <3>1. 1 \in 1 .. Len(calls) /\ calls[1] = a
      BY <1>7, <1>8, <2>1
    <3> QED
      BY <1>5, <2>1, <3>1
  <2>2. CASE p \in XboxOf(r)
    <3>1. Len(second) = 1 /\ second[1] = b
      BY <1>7, <2>2
    <3> DEFINE i == Len(first) + 1
    <3>2. i \in 1 .. Len(calls) /\ ~(i <= Len(first)) /\ i - Len(first) = 1
      BY <1>8, <3>1
    <3>3. calls[i] = b
      BY <1>8, <3>1, <3>2
    <3> QED
      BY <1>5, <2>2, <3>2, <3>3
  <2> QED
    BY <1>1, <2>1, <2>2
<1>10. calls # <<>>
  BY <1>9, EmptySeq
<1> QED
  BY <1>2, <1>9, <1>10 DEF calls

(* Bringing back a line.                                                   *)
LEMMA DualComes ==
  ASSUME OneLive, InjectInv, LinesInv, TiesInv, LineInv,
         NEW n \in P!Numbers, lines[n].line.kind # "setdiscord",
         NEW m \in Nat, NEW fate, BroadcastDual(m, fate), Sender(m) = SenderOf(n), ~Missing(n)
  PROVE  /\ fate = "shown" => lines[n].line.player \in Receivers(m)'
         /\ fate = "nobody" => circuit'
<1>1. PICK found \in {Readable, {}} :
        Outcome(Calls(Pruned(Bootstrapped(found)), m), Pruned(Bootstrapped(found)), fate)
  BY DEF BroadcastDual
<1> DEFINE r == Pruned(Bootstrapped(found))
           calls == Calls(r, m)
           k == typedBy[n]
           p == lines[n].line.player
<1>2. k \in States /\ Live(k) /\ p = visits[k].player /\ Sender(m) = p
      /\ (circuit \/ Listed(k))
  BY ElementOfSeq DEF TiesInv, P!Numbers, LineInv, Missing, SenderOf
<1>3. Outcome(calls, r, fate)
  BY <1>1
<1>4. CASE circuit
  BY <1>3, <1>4 DEF Outcome, AllShown, Silent
<1>5. CASE ~circuit
  <2>1. p \in DOMAIN r
    BY <1>2, <1>5, BroadcastLists DEF ListedIn
  <2>2. Good(visits, r) /\ DOMAIN r \subseteq Online
    <3>1. found \in SUBSET States
      BY DEF Readable
    <3>2. Good(visits, Bootstrapped(found))
      BY <3>1, UpsertedGood DEF InjectInv, AudienceInv, Bootstrapped
    <3> QED
      BY <3>2, PrunedGood
  <2> HIDE DEF r
  <2>3. /\ calls \in Seq(Broadcast) /\ calls # <<>>
        /\ \E i \in 1 .. Len(calls) : calls[i].message = m /\ p \in calls[i].to
    BY <1>2, <2>1, <2>2, CallsReach
  <2> HIDE DEF calls
  <2>4. fate # "nobody"
    BY <1>3, <2>3 DEF Outcome
  <2>5. ASSUME fate = "shown"
        PROVE  p \in Receivers(m)'
    <3>1. shown' = shown \o calls
      BY <1>3, <2>5 DEF Outcome, AllShown
    <3>2. /\ Len(shown') = Len(shown) + Len(calls) /\ Len(shown) \in Nat /\ Len(calls) \in Nat
          /\ \A i \in 1 .. Len(shown) + Len(calls) :
               shown'[i] = IF i <= Len(shown) THEN shown[i] ELSE calls[i - Len(shown)]
      BY <2>3, <3>1, ConcatProperties, LenProperties DEF InjectInv, ShownInv
    <3>3. PICK i \in 1 .. Len(calls) : calls[i].message = m /\ p \in calls[i].to
      BY <2>3
    <3> DEFINE j == Len(shown) + i
    <3>4. j \in 1 .. Len(shown') /\ ~(j <= Len(shown)) /\ j - Len(shown) = i
          /\ j \in 1 .. Len(shown) + Len(calls)
      BY <3>2
    <3>5. shown'[j] = calls[i]
      BY <3>2, <3>4
    <3> QED
      BY <3>3, <3>4, <3>5 DEF Receivers
  <2> QED
    BY <2>4, <2>5
<1> QED
  BY <1>4, <1>5

(* A line that is shown again is none of the commands.                     *)
LEMMA RebroadcastLines ==
  ASSUME LinesInv, NEW i \in 1 .. Len(rebroadcast)
  PROVE  rebroadcast[i] \in P!Numbers /\ lines[rebroadcast[i]].line.kind # "setdiscord"
<1>1. rebroadcast \in Seq(P!Numbers)
  BY DEF LinesInv, P!TypeOK
<1>2. rebroadcast[i] \in P!Numbers
  BY <1>1, ElementOfSeq
<1>3. rebroadcast = relayed
  <2>1. rebroadcast # <<>>
    BY EmptySeq
  <2> QED
    BY <2>1 DEF LinesInv, P!TwinInv
<1>4. rebroadcast[i] \in P!Due
  BY <1>3 DEF LinesInv, P!PlaceInv, P!Items
<1> QED
  BY <1>2, <1>4 DEF P!Due, LinesInv, P!PublicInv, P!IsCommand

LEMMA NextCome ==
  ASSUME OneLive, InjectInv, LinesInv, TiesInv, LineInv, FateInv, ComeInv,
         [GameNext]_gameVars
  PROVE  ComeInv' /\ FateInv'
<1>1. PlayersKept
  BY GamePlayers
<1>2. Len(shown) \in Nat /\ Len(shown') \in Nat /\ Extends(shown', shown)
  BY ShownGrows
<1>3. ASSUME NEW i \in 1 .. Len(rebroadcast)
      PROVE  /\ rebroadcast[i] \in P!Numbers /\ comebacks[i] \in Numbers
             /\ lines[rebroadcast[i]].line.kind # "setdiscord"
             /\ Comes(rebroadcast[i], comebacks[i])
  BY RebroadcastLines, ElementOfSeq DEF TiesInv, ComeInv
<1>4. [P!Next]_P!vars
  BY CaptureStep DEF captureVars, P!vars
<1>5. /\ Extends(rebroadcast', rebroadcast) /\ Extends(lines', lines)
      /\ Len(rebroadcast) \in Nat /\ Len(rebroadcast') \in Nat
  BY <1>4, LinesGrow
<1>6. \A n \in P!Numbers : lines'[n] = lines[n]
  BY <1>5 DEF Extends, P!Numbers
(* A step that brings lines, or none.                                      *)
<1>7. ASSUME Brings, \A n \in P!Numbers : typedBy'[n] = typedBy[n]
      PROVE  ComeInv' /\ FateInv'
  <2>1. /\ FateInv'
        /\ \A m \in Numbers :
             /\ MessageKept(m)
             /\ messages'[m].fate \in {"shown", "nobody"} =>
                  messages'[m].fate = messages[m].fate
    <3>1. CASE \E new : FreshMessages(new) /\ EnqueueDeferred(new)
      BY <1>1, <3>1, EnqueueFates DEF PlayersKept
    <3>2. CASE UNCHANGED <<deferred, messages>>
      BY <1>1, <3>2 DEF PlayersKept, FateInv, MessageKept, Numbers, Is
    <3> QED
      BY <1>7, <3>1, <3>2 DEF Brings
  <2>2. ASSUME NEW i \in 1 .. Len(rebroadcast'), NEW n, NEW m,
               n = rebroadcast'[i], m = comebacks'[i]
        PROVE  Comes(n, m)'
    <3>1. CASE i > Len(rebroadcast)
      BY <1>7, <2>2, <3>1 DEF Brings
    <3>2. CASE i \in 1 .. Len(rebroadcast)
      <4>1. n = rebroadcast[i] /\ m = comebacks[i]
        BY <1>5, <1>7, <2>2, <3>2 DEF Brings, Extends, TiesInv
      <4>2. n \in P!Numbers /\ m \in Numbers /\ Comes(n, m)
        BY <1>3, <3>2, <4>1
      <4> QED
        BY <1>1, <1>2, <1>6, <1>7, <2>1, <4>2, ComesKept
    <3> QED
      BY <1>5, <3>1, <3>2
  <2>3. ComeInv'
    BY <2>2 DEF ComeInv
  <2> QED
    BY <2>1, <2>3
<1>8. ASSUME NEW l \in Inputs, NEW k \in States, HandleHook(l, k)
      PROVE  ComeInv' /\ FateInv'
  BY <1>7, <1>8, HookTyped, HookInject
<1>9. CASE OnUpdate
  BY <1>7, <1>9, UpdateInject DEF OnUpdate
<1>10. CASE Inject /\ UNCHANGED <<captureVars, typedBy, comebacks>>
  <2>1. FateInv'
    BY <1>10, InjectFates
  <2>2. UNCHANGED <<rebroadcast, lines, typedBy, comebacks>>
    BY <1>10 DEF captureVars
  <2>3. ASSUME NEW i \in 1 .. Len(rebroadcast), NEW n, NEW m,
               n = rebroadcast[i], m = comebacks[i]
        PROVE  Comes(n, m)'
    <3>1. /\ n \in P!Numbers /\ m \in Numbers /\ Comes(n, m)
          /\ lines[n].line.kind # "setdiscord"
      BY <1>3, <2>3
    <3>2. /\ MessageKept(m)
          /\ messages'[m].fate = messages[m].fate \/ (FlushOne /\ m = Head(deferred))
      BY <1>10, <3>1, InjectMarks DEF Comes, Is
    <3>3. CASE messages'[m].fate = messages[m].fate
      BY <1>1, <1>2, <2>2, <3>1, <3>2, <3>3, ComesKept
    <3>4. CASE FlushOne /\ m = Head(deferred)
      <4>1. PICK fate \in Fates :
              /\ Do(m, fate)
              /\ messages'[m].fate = IF fate \in {"retry", "thrown"} THEN "failed" ELSE fate
        BY <3>4, FlushEnds
      <4>2. BroadcastDual(m, fate) \/ fate = "thrown"
        BY <3>1, <4>1 DEF Comes, Is, Do
      <4>3. CASE Missing(n)
        <5>1. Missing(n)'
          <6>1. typedBy[n] \in States
            BY <3>1, ElementOfSeq DEF TiesInv, P!Numbers
          <6>2. Kept(typedBy[n])
            BY <1>1, <6>1 DEF PlayersKept
          <6> QED
            BY <2>2, <4>3, <6>2 DEF Missing, Kept, Live
        <5> QED
          BY <2>2, <3>1, <3>2, <5>1 DEF Comes, MessageKept, Is, Sender, SenderOf
      <4>4. CASE ~Missing(n)
        <5>1. m \in Nat
          BY <3>1, OrderFacts
        <5>2. /\ fate = "shown" => lines[n].line.player \in Receivers(m)'
              /\ fate = "nobody" => circuit'
          BY <3>1, <4>2, <4>4, <5>1, DualComes DEF Comes
        <5>3. /\ messages'[m].fate = "shown" => fate = "shown"
              /\ messages'[m].fate = "nobody" => fate = "nobody"
          BY <4>1
        <5> QED
          BY <2>2, <3>1, <3>2, <5>2, <5>3 DEF Comes, MessageKept, Is, Sender, SenderOf
      <4> QED
        BY <4>3, <4>4
    <3> QED
      BY <3>2, <3>3, <3>4
  <2>4. ComeInv'
    BY <2>2, <2>3 DEF ComeInv
  <2> QED
    BY <2>1, <2>4
<1>11. CASE UNCHANGED gameVars
  <2>1. UNCHANGED <<vars, captureVars, typedBy, comebacks>>
    BY <1>11 DEF gameVars
  <2>2. FateInv'
    BY <2>1 DEF FateInv, vars, injectVars, Numbers, Is
  <2>3. UNCHANGED <<rebroadcast, lines, typedBy, comebacks, messages, shown, visits, circuit>>
    BY <2>1 DEF captureVars, vars, injectVars, audienceVars
  <2>4. ComeInv'
    BY <2>3 DEF ComeInv, Comes, Is, Sender, SenderOf, Missing, Live, Receivers
  <2> QED
    BY <2>2, <2>4
<1> QED
  BY <1>8, <1>9, <1>10, <1>11 DEF GameNext

-----------------------------------------------------------------------------
(* A cleared line comes back                                               *)

(* The inductive invariant of the game thread.                             *)
GameInv ==
  /\ InjectInv /\ LinesInv /\ TiesInv
  /\ OneLive /\ LineInv /\ FateInv /\ ComeInv

LEMMA InitGame == GameInit => GameInv
<1> SUFFICES ASSUME GameInit PROVE GameInv
  OBVIOUS
<1>1. visits = <<>> /\ messages = <<>> /\ lines = <<>> /\ rebroadcast = <<>>
  BY DEF GameInit, Init, AudienceInit, C!Init
<1>2. States = {} /\ Numbers = {} /\ P!Numbers = {} /\ 1 .. Len(rebroadcast) = {}
  BY <1>1, EmptySeq DEF States, Numbers, P!Numbers
<1>3. OneLive /\ LineInv /\ FateInv /\ ComeInv
  BY <1>2 DEF OneLive, LineInv, FateInv, ComeInv
<1> QED
  BY <1>3, InitTogether DEF GameInv

LEMMA NextGame == GameInv /\ [GameNext]_gameVars => GameInv'
BY NextTogether, GamePlayers, NextLine, NextCome DEF GameInv

(* The message of a line that has been shown again is its own.             *)
LEMMA ComebackComes ==
  ASSUME GameInv, NEW n \in Items(rebroadcast)
  PROVE  Comeback(n) \in Numbers /\ Comes(n, Comeback(n))
<1> DEFINE i == CHOOSE i \in 1 .. Len(rebroadcast) : rebroadcast[i] = n
<1>1. i \in 1 .. Len(rebroadcast) /\ rebroadcast[i] = n
  BY DEF Items
<1> HIDE DEF i
<1>2. Comes(n, comebacks[i])
  BY <1>1 DEF GameInv, ComeInv
<1>3. comebacks[i] \in Numbers
  BY <1>1, ElementOfSeq DEF GameInv, TiesInv
<1> QED
  BY <1>2, <1>3 DEF Comeback, i

(* A cleared line is to be shown again: it is where the relayed lines are, *)
(* for its hook ran with ShowLocalServerTag.                               *)
LEMMA ClearedPlace ==
  ASSUME LinesInv, NEW n \in 1 .. Len(lines), lines[n].native = "cleared",
         lines[n].fate \in {"held", "sent"}
  PROVE  n \in Items(rebroadcast) \cup Items(pending) \cup overflowed
<1>1. n \in P!Numbers
  BY DEF P!Numbers
<1>2. rebroadcast = relayed
  BY <1>1 DEF LinesInv, ClearedInv, P!TwinInv
<1>3. n \in P!Due
  BY <1>1 DEF P!Due
<1> QED
  BY <1>2, <1>3 DEF LinesInv, P!PlaceInv, P!Items, Items

LEMMA GameComesBack == GameInv => ClearedLineComesBack
<1> SUFFICES ASSUME GameInv, NEW n \in 1 .. Len(lines), lines[n].native = "cleared",
                    lines[n].fate \in {"held", "sent"}, n \in Items(rebroadcast),
                    NEW m, m = Comeback(n)
             PROVE  /\ Is(m, "tagged") /\ messages[m].state = typedBy[n]
                    /\ messages[m].fate = "queued" <=> m \in Items(deferred)
                    /\ messages[m].fate = "circuit" => circuit
                    /\ messages[m].fate # "filtered"
                    /\ messages[m].fate \in {"shown", "nobody"} =>
                         \/ lines[n].line.player \in Receivers(m)
                         \/ ~Live(typedBy[n]) \/ ~lines[n].line.uid
                         \/ circuit /\ messages[m].fate = "nobody"
  BY ClearedPlace DEF ClearedLineComesBack, GameInv
<1>1. m \in Numbers /\ Comes(n, m)
  BY ComebackComes
<1>2. /\ Is(m, "tagged") /\ messages[m].state = typedBy[n]
      /\ messages[m].fate = "shown" => lines[n].line.player \in Receivers(m) \/ Missing(n)
      /\ messages[m].fate = "nobody" => Missing(n) \/ circuit
  BY <1>1 DEF Comes
<1>3. ~Is(m, "row")
  BY <1>2 DEF Is
<1>4. /\ messages[m].fate = "queued" <=> m \in Items(deferred)
      /\ messages[m].fate # "filtered"
      /\ messages[m].fate = "circuit" => circuit
  BY <1>1, <1>3 DEF GameInv, FateInv
<1>5. messages[m].fate \in {"shown", "nobody"} =>
        \/ lines[n].line.player \in Receivers(m)
        \/ ~Live(typedBy[n]) \/ ~lines[n].line.uid
        \/ circuit /\ messages[m].fate = "nobody"
  BY <1>2 DEF Missing
<1> QED
  BY <1>2, <1>4, <1>5

(* A line that the hook cleared from the game's chat comes back to the     *)
(* player who typed it: it waits in a list, or it is the message that he   *)
(* is shown, unless he has left, had no uid, or is met by one of the       *)
(* losses that the code admits.                                            *)
THEOREM GameBackCorrect == GameSpec => []ClearedLineComesBack
BY InitGame, NextGame, GameComesBack, PTL DEF GameSpec
=============================================================================
