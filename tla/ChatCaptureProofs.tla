-------------------------- MODULE ChatCaptureProofs --------------------------
(***************************************************************************)
(* Theorems about ChatCapture, for any players and any lines they type,    *)
(* mutes of any length and lists of any positive size.                     *)
(***************************************************************************)
EXTENDS ChatCapture, BoundedQueueProofs

Fates == {"setdiscord", "muted", "filtered", "command", "native", "held", "sent"}
Natives == {"shown", "parked", "cleared"}
Record == [line : Line, at : Nat, mute : Nat, fate : Fates, native : Natives]
Notice == [player : Players, at : Nat, kind : {"initial", "active"}]

MutesOK(ms) == \A key \in DOMAIN ms : ms[key] \in [until : Nat, notified : Nat]

-----------------------------------------------------------------------------
(* The mutes                                                               *)

(* Erasing an expired entry changes nothing that a later lookup sees.      *)
LEMMA SweptMutes ==
  ASSUME NEW ms, MutesOK(ms), NEW key, NEW t0 \in Nat
  PROVE  /\ MutesOK(Swept(ms, key, t0))
         /\ DOMAIN Swept(ms, key, t0) \subseteq DOMAIN ms
         /\ \A k \in DOMAIN Swept(ms, key, t0) : Swept(ms, key, t0)[k] = ms[k]
         /\ \A k : \A t \in Nat : t >= t0 =>
              (IsMuted(Swept(ms, key, t0), k, t) <=> IsMuted(ms, k, t))
<1> DEFINE sw == Swept(ms, key, t0)
           left == {k \in DOMAIN ms : k # key \/ IsMuted(ms, key, t0)}
<1>1. sw = [k \in left |-> ms[k]]
  BY DEF Swept
<1>2. DOMAIN sw = left /\ \A k \in left : sw[k] = ms[k]
  BY <1>1
<1> HIDE DEF sw
<1>3. \A k \in left : k \in DOMAIN ms
  OBVIOUS
<1>4. ASSUME NEW k, NEW t \in Nat, t >= t0
      PROVE  IsMuted(sw, k, t) <=> IsMuted(ms, k, t)
  <2>1. CASE k \in left
    BY <1>2, <1>3, <2>1 DEF IsMuted
  <2>2. CASE k \notin left
    <3>1. ~IsMuted(sw, k, t)
      BY <1>2, <2>2 DEF IsMuted
    <3>2. ASSUME IsMuted(ms, k, t) PROVE FALSE
      <4>1. k \in DOMAIN ms /\ t < ms[k].until /\ ms[k].until \in Nat
        BY <3>2 DEF IsMuted, MutesOK
      <4>2. k = key /\ ~IsMuted(ms, key, t0)
        BY <2>2, <4>1
      <4>3. t0 < ms[key].until
        BY <1>4, <4>1, <4>2
      <4> QED
        BY <4>1, <4>2, <4>3 DEF IsMuted
    <3> QED
      BY <3>1, <3>2
  <2> QED
    BY <2>1, <2>2
<1>5. MutesOK(sw)
  BY <1>2, <1>3 DEF MutesOK
<1>6. /\ MutesOK(sw) /\ DOMAIN sw \subseteq DOMAIN ms /\ \A k \in DOMAIN sw : sw[k] = ms[k]
      /\ \A k : \A t \in Nat : t >= t0 => (IsMuted(sw, k, t) <=> IsMuted(ms, k, t))
  BY <1>2, <1>3, <1>4, <1>5
<1> QED
  BY <1>6 DEF sw

(* A notice changes the time of the last notice and nothing else.          *)
LEMMA NoticeMutes ==
  ASSUME NEW ms, MutesOK(ms), NEW key, NEW t0 \in Nat, NEW gap \in Nat
  PROVE  /\ MutesOK(AfterNotice(ms, key, t0, gap))
         /\ DOMAIN AfterNotice(ms, key, t0, gap) = DOMAIN ms
         /\ \A k \in DOMAIN ms :
              /\ AfterNotice(ms, key, t0, gap)[k].until = ms[k].until
              /\ AfterNotice(ms, key, t0, gap)[k].notified
                   = IF k = key /\ NoticeDue(ms, key, t0, gap) THEN t0 ELSE ms[k].notified
         /\ \A k : \A t \in Nat :
              IsMuted(AfterNotice(ms, key, t0, gap), k, t) <=> IsMuted(ms, k, t)
<1> DEFINE an == AfterNotice(ms, key, t0, gap)
<1>1. CASE NoticeDue(ms, key, t0, gap)
  <2>1. key \in DOMAIN ms
    BY <1>1 DEF NoticeDue, IsMuted
  <2>2. an = [ms EXCEPT ![key] = [ms[key] EXCEPT !.notified = t0]]
    BY <1>1 DEF AfterNotice
  <2>3. /\ [ms[key] EXCEPT !.notified = t0] \in [until : Nat, notified : Nat]
        /\ [ms[key] EXCEPT !.notified = t0].until = ms[key].until
        /\ [ms[key] EXCEPT !.notified = t0].notified = t0
    BY <2>1 DEF MutesOK
  <2>4. /\ DOMAIN an = DOMAIN ms
        /\ \A k \in DOMAIN ms : k # key => an[k] = ms[k]
        /\ an[key] = [ms[key] EXCEPT !.notified = t0]
    BY <2>1, <2>2
  <2> HIDE DEF an
  <2>5. /\ MutesOK(an)
        /\ \A k \in DOMAIN ms : /\ an[k].until = ms[k].until
                                /\ an[k].notified = IF k = key THEN t0 ELSE ms[k].notified
    BY <2>3, <2>4 DEF MutesOK
  <2>6. \A k : \A t \in Nat : IsMuted(an, k, t) <=> IsMuted(ms, k, t)
    BY <2>4, <2>5 DEF IsMuted
  <2> QED
    BY <1>1, <2>4, <2>5, <2>6 DEF an
<1>2. CASE ~NoticeDue(ms, key, t0, gap)
  BY <1>2 DEF AfterNotice
<1> QED
  BY <1>1, <1>2

(* A mute of a player who is not muted.                                    *)
LEMMA MuteMutes ==
  ASSUME NEW ms, MutesOK(ms), NEW key, NEW t0 \in Nat, NEW duration \in Nat,
         ~IsMuted(ms, key, t0)
  PROVE  /\ MutesOK(Mute(ms, key, t0, duration))
         /\ DOMAIN Mute(ms, key, t0, duration)
              = IF duration = 0 THEN DOMAIN ms ELSE DOMAIN ms \cup {key}
         /\ \A k \in DOMAIN ms : k # key => Mute(ms, key, t0, duration)[k] = ms[k]
         /\ duration # 0 => Mute(ms, key, t0, duration)[key].notified = t0
         /\ \A k : \A t \in Nat : k # key =>
              (IsMuted(Mute(ms, key, t0, duration), k, t) <=> IsMuted(ms, k, t))
         /\ \A t \in Nat : t >= t0 =>
              (IsMuted(Mute(ms, key, t0, duration), key, t) <=> t < t0 + duration)
<1> DEFINE mu == Mute(ms, key, t0, duration)
<1>1. CASE duration = 0
  <2>1. mu = ms
    BY <1>1 DEF Mute
  <2>2. ASSUME NEW t \in Nat, t >= t0, IsMuted(ms, key, t)
        PROVE  FALSE
    <3>1. key \in DOMAIN ms /\ t < ms[key].until /\ ms[key].until \in Nat
      BY <2>2 DEF IsMuted, MutesOK
    <3>2. t0 < ms[key].until
      BY <2>2, <3>1
    <3> QED
      BY <3>1, <3>2 DEF IsMuted
  <2>3. \A t \in Nat : t >= t0 => ~IsMuted(ms, key, t) /\ ~(t < t0 + duration)
    BY <1>1, <2>2
  <2> QED
    BY <1>1, <2>1, <2>3
<1>2. CASE duration # 0
  <2> DEFINE entry == [until |-> t0 + duration, notified |-> t0]
  <2>1. mu = [k \in DOMAIN ms \cup {key} |-> IF k = key THEN entry ELSE ms[k]]
    BY <1>2 DEF Mute
  <2>2. entry \in [until : Nat, notified : Nat]
    OBVIOUS
  <2>3. /\ DOMAIN mu = DOMAIN ms \cup {key} /\ mu[key] = entry
        /\ \A k \in DOMAIN ms : k # key => mu[k] = ms[k]
    BY <2>1
  <2>4. mu[key].until = t0 + duration /\ mu[key].notified = t0
    BY <2>3
  <2> HIDE DEF mu, entry
  <2>5. MutesOK(mu)
    BY <2>2, <2>3 DEF MutesOK
  <2>6. \A k : \A t \in Nat : k # key => (IsMuted(mu, k, t) <=> IsMuted(ms, k, t))
    BY <2>3 DEF IsMuted
  <2>7. \A t \in Nat : IsMuted(mu, key, t) <=> t < t0 + duration
    BY <2>3, <2>4 DEF IsMuted
  <2> QED
    BY <1>2, <2>3, <2>4, <2>5, <2>6, <2>7 DEF mu
<1> QED
  BY <1>1, <1>2

-----------------------------------------------------------------------------
(* Types                                                                   *)

LEMMA NameTypes ==
  ASSUME TypeOK
  PROVE  /\ now \in Nat /\ MutesOK(mutes) /\ lines \in Seq(Record)
         /\ Len(lines) \in Nat /\ Numbers \subseteq Nat
         /\ banners \in Seq(Notice)
BY LenProperties, LimitAssumption
   DEF TypeOK, MutesOK, Record, Fates, Natives, Notice, Numbers

LEMMA RecordTypes ==
  ASSUME TypeOK, NEW n \in Numbers
  PROVE  lines[n].line \in Line /\ lines[n].at \in Nat /\ lines[n].mute \in Nat
         /\ lines[n].fate \in Fates /\ n \in Nat
<1>1. lines[n] \in Record
  BY NameTypes, ElementOfSeq DEF Numbers
<1> QED
  BY <1>1, NameTypes DEF Record

(* The record that a way out of HandleHook leaves of its line.             *)
LEMMA FinishLines ==
  ASSUME TypeOK, NEW l \in Inputs, NEW fate \in Fates, NEW native \in Natives,
         NEW mute \in Nat, Finish(l, fate, native, mute)
  PROVE  /\ lines' \in Seq(Record) /\ Numbers' = Numbers \cup {Number}
         /\ Number \in Nat /\ \A n \in Numbers : n < Number
         /\ lines'[Number] = [line |-> l, at |-> now, fate |-> fate, native |-> native,
                              mute |-> mute]
         /\ \A n \in Numbers : lines'[n] = lines[n]
<1> DEFINE rec == [line |-> l, at |-> now, fate |-> fate, native |-> native, mute |-> mute]
<1>1. rec \in Record
  BY NameTypes, InputAssumption DEF Record
<1>2. lines' = Append(lines, rec) /\ lines \in Seq(Record) /\ Len(lines) \in Nat
  BY NameTypes DEF Finish
<1> HIDE DEF rec
<1>3. /\ lines' \in Seq(Record) /\ Len(lines') = Len(lines) + 1
      /\ \A n \in 1 .. Len(lines) : lines'[n] = lines[n]
      /\ lines'[Len(lines) + 1] = rec
  BY <1>1, <1>2, AppendProperties
<1> QED
  BY <1>2, <1>3 DEF rec, Numbers, Number

(* What every way out of HandleHook does to the lines.                     *)
Ends(l, fates) ==
  /\ lines' \in Seq(Record) /\ Numbers' = Numbers \cup {Number}
  /\ Number \in Nat /\ \A n \in Numbers : n < Number
  /\ lines'[Number].line = l /\ lines'[Number].at = now /\ lines'[Number].fate \in fates
  /\ \A n \in Numbers : lines'[n] = lines[n]

LEMMA LeftShown ==
  \A l : TryClearMessage(l) \in Natives /\ TrySetCategory(l) \in Natives
         /\ Suppress(l) \in Natives
BY DEF TryClearMessage, TrySetCategory, Suppress, Natives

LEMMA FinishEnds ==
  ASSUME TypeOK, NEW l \in Inputs, NEW fate \in Fates, NEW native \in Natives,
         NEW mute \in Nat, Finish(l, fate, native, mute)
  PROVE  Ends(l, {fate}) /\ lines'[Number].mute = mute
<1>1. /\ lines' \in Seq(Record) /\ Numbers' = Numbers \cup {Number}
      /\ Number \in Nat /\ \A n \in Numbers : n < Number
      /\ lines'[Number] = [line |-> l, at |-> now, fate |-> fate, native |-> native,
                           mute |-> mute]
      /\ \A n \in Numbers : lines'[n] = lines[n]
  BY FinishLines
<1> QED
  BY <1>1 DEF Ends

LEMMA HookEnds ==
  ASSUME TypeOK, NEW l \in Inputs
  PROVE  /\ LinkLine(l) => Ends(l, {"setdiscord"})
         /\ MutedLine(l) => Ends(l, {"muted"})
         /\ CommandLine(l) => Ends(l, {"command"})
         /\ NativeLine(l) => Ends(l, {"native"})
         /\ HeldLine(l) => Ends(l, {"held"})
         /\ SentLine(l) => Ends(l, {"sent"})
         /\ FilteredLine(l) =>
              /\ Ends(l, {"filtered"})
              /\ \E mute \in MuteTimes :
                   /\ mute \in Nat /\ lines'[Number].mute = mute
                   /\ mutes' = Mute(Swept(mutes, MuteKey(l), now), MuteKey(l), now, mute)
<1>0. /\ 0 \in Nat /\ MuteTimes \subseteq Nat /\ "shown" \in Natives
      /\ "setdiscord" \in Fates /\ "muted" \in Fates /\ "filtered" \in Fates
      /\ "command" \in Fates /\ "native" \in Fates /\ "held" \in Fates
      /\ "sent" \in Fates
  BY LimitAssumption DEF Natives, Fates
<1>1. ASSUME LinkLine(l) PROVE Ends(l, {"setdiscord"})
  <2>1. Finish(l, "setdiscord", TryClearMessage(l), 0)
    BY <1>1 DEF LinkLine
  <2> QED
    BY <1>0, <2>1, LeftShown, FinishEnds
<1>2. ASSUME MutedLine(l) PROVE Ends(l, {"muted"})
  <2>1. Finish(l, "muted", TryClearMessage(l), 0)
    BY <1>2 DEF MutedLine
  <2> QED
    BY <1>0, <2>1, LeftShown, FinishEnds
<1>3. ASSUME CommandLine(l) PROVE Ends(l, {"command"})
  <2>1. Finish(l, "command", TrySetCategory(l), 0)
    BY <1>3 DEF CommandLine
  <2> QED
    BY <1>0, <2>1, LeftShown, FinishEnds
<1>4. ASSUME NativeLine(l) PROVE Ends(l, {"native"})
  <2>1. Finish(l, "native", "shown", 0)
    BY <1>4 DEF NativeLine
  <2> QED
    BY <1>0, <2>1, LeftShown, FinishEnds
<1>5. ASSUME HeldLine(l) PROVE Ends(l, {"held"})
  <2>1. Finish(l, "held", Suppress(l), 0)
    BY <1>5 DEF HeldLine
  <2> QED
    BY <1>0, <2>1, LeftShown, FinishEnds
<1>6. ASSUME SentLine(l) PROVE Ends(l, {"sent"})
  <2>1. Finish(l, "sent", Suppress(l), 0)
    BY <1>6 DEF SentLine
  <2> QED
    BY <1>0, <2>1, LeftShown, FinishEnds
<1>7. ASSUME FilteredLine(l)
      PROVE  /\ Ends(l, {"filtered"})
             /\ \E mute \in MuteTimes :
                  /\ mute \in Nat /\ lines'[Number].mute = mute
                  /\ mutes' = Mute(Swept(mutes, MuteKey(l), now), MuteKey(l), now, mute)
  <2>1. PICK mute \in MuteTimes :
          /\ Finish(l, "filtered", TryClearMessage(l), mute)
          /\ mutes' = Mute(Swept(mutes, MuteKey(l), now), MuteKey(l), now, mute)
    BY <1>7 DEF FilteredLine
  <2>2. mute \in Nat
    BY <1>0
  <2>3. Ends(l, {"filtered"}) /\ lines'[Number].mute = mute
    BY <1>0, <2>1, <2>2, LeftShown, FinishEnds
  <2> QED
    BY <2>1, <2>2, <2>3
<1> QED
  BY <1>1, <1>2, <1>3, <1>4, <1>5, <1>6, <1>7

(* The ways out of HandleHook, and what each leaves alone.                 *)
LEMMA HookCases ==
  ASSUME NEW l \in Inputs, HandleHook(l)
  PROVE  \/ LinkLine(l) \/ MutedLine(l) \/ FilteredLine(l) \/ CommandLine(l)
         \/ NativeLine(l) \/ HeldLine(l) \/ SentLine(l)
BY DEF HandleHook

LEMMA HookKeeps ==
  ASSUME TypeOK, NEW l \in Inputs, HandleHook(l)
  PROVE  /\ now' = now /\ names' = names
         /\ links' = links \/ links' = Push(links, Number, LinksMax)
         /\ ~SentLine(l) => relayed' = relayed /\ rebroadcast' = rebroadcast
         /\ ~HeldLine(l) => pending' = pending /\ overflowed' = overflowed
         /\ \/ LinkLine(l) /\ mutes' = mutes
            \/ MutedLine(l) \/ FilteredLine(l) \/ Sweep(l)
         /\ \/ banners' = banners
            \/ MutedLine(l) /\ banners' = Banner(l, "active")
            \/ FilteredLine(l) /\ banners' = Banner(l, "initial")
         /\ reported' \subseteq reported \cup {Number}
<1> DEFINE Kept ==
         /\ now' = now /\ names' = names
         /\ links' = links \/ links' = Push(links, Number, LinksMax)
         /\ ~SentLine(l) => relayed' = relayed /\ rebroadcast' = rebroadcast
         /\ ~HeldLine(l) => pending' = pending /\ overflowed' = overflowed
         /\ \/ LinkLine(l) /\ mutes' = mutes
            \/ MutedLine(l) \/ FilteredLine(l) \/ Sweep(l)
         /\ \/ banners' = banners
            \/ MutedLine(l) /\ banners' = Banner(l, "active")
            \/ FilteredLine(l) /\ banners' = Banner(l, "initial")
         /\ reported' \subseteq reported \cup {Number}
<1>1. ASSUME LinkLine(l) PROVE Kept
  BY <1>1 DEF LinkLine
<1>2. ASSUME MutedLine(l) PROVE Kept
  BY <1>2 DEF MutedLine
<1>3. ASSUME FilteredLine(l) PROVE Kept
  BY <1>3 DEF FilteredLine
<1>4. ASSUME CommandLine(l) PROVE Kept
  BY <1>4 DEF CommandLine
<1>5. ASSUME NativeLine(l) PROVE Kept
  BY <1>5 DEF NativeLine
<1>6. ASSUME HeldLine(l) PROVE Kept
  <2>1. /\ now' = now /\ names' = names /\ links' = links /\ Sweep(l)
        /\ banners' = banners /\ reported' = reported
        /\ relayed' = relayed /\ rebroadcast' = rebroadcast
    BY <1>6 DEF HeldLine
  <2> QED
    BY <1>6, <2>1
<1>7. ASSUME SentLine(l) PROVE Kept
  <2>1. /\ now' = now /\ names' = names /\ links' = links /\ Sweep(l)
        /\ banners' = banners /\ reported' = reported
        /\ pending' = pending /\ overflowed' = overflowed
    BY <1>7 DEF SentLine
  <2> QED
    BY <1>7, <2>1
<1> HIDE DEF Kept
<1>8. Kept
  BY <1>1, <1>2, <1>3, <1>4, <1>5, <1>6, <1>7, HookCases
<1> QED
  BY <1>8 DEF Kept

LEMMA HookLines ==
  ASSUME TypeOK, NEW l \in Inputs, HandleHook(l)
  PROVE  /\ Ends(l, Fates)
         /\ lines'[Number].fate = "muted" => MutedLine(l)
         /\ lines'[Number].fate = "filtered" => FilteredLine(l)
         /\ lines'[Number].fate = "held" => HeldLine(l)
         /\ lines'[Number].fate = "sent" => SentLine(l)
<1>1. \/ LinkLine(l) \/ MutedLine(l) \/ FilteredLine(l) \/ CommandLine(l)
      \/ NativeLine(l) \/ HeldLine(l) \/ SentLine(l)
  BY HookCases
<1> QED
  BY <1>1, HookEnds DEF Ends, Fates

LEMMA HookMutes ==
  ASSUME TypeOK, NEW l \in Inputs, HandleHook(l)
  PROVE  MutesOK(mutes')
<1>1. now \in Nat /\ MutesOK(mutes) /\ NoticeGap \in Nat
  BY NameTypes, LimitAssumption
<1>2. CASE mutes' = mutes
  BY <1>1, <1>2
<1>3. CASE MutedLine(l)
  BY <1>1, <1>3, NoticeMutes DEF MutedLine
<1>4. CASE FilteredLine(l)
  <2>1. PICK mute \in Nat :
          mutes' = Mute(Swept(mutes, MuteKey(l), now), MuteKey(l), now, mute)
    BY <1>4, HookEnds
  <2> DEFINE sw == Swept(mutes, MuteKey(l), now)
  <2>2. MutesOK(sw) /\ ~IsMuted(sw, MuteKey(l), now)
    BY <1>1, <1>4, SweptMutes DEF FilteredLine, Muted
  <2> HIDE DEF sw
  <2>3. MutesOK(Mute(sw, MuteKey(l), now, mute))
    BY <1>1, <2>2, MuteMutes
  <2> QED
    BY <2>1, <2>3 DEF sw
<1>5. CASE Sweep(l)
  BY <1>1, <1>5, SweptMutes DEF Sweep
<1> QED
  BY <1>2, <1>3, <1>4, <1>5, HookKeeps

LEMMA GrowNumbers ==
  ASSUME NEW q \in Seq(Numbers), Numbers' = Numbers \cup {Number}
  PROVE  q \in Seq(Numbers')
BY SeqMonotonic

LEMMA HookTypeOK ==
  ASSUME TypeOK, NEW l \in Inputs, HandleHook(l)
  PROVE  TypeOK'
<1>1. Ends(l, Fates)
  BY HookLines
<1>2. /\ lines' \in Seq(Record) /\ Numbers' = Numbers \cup {Number} /\ Number \in Numbers'
  BY <1>1 DEF Ends
<1>3. /\ links \in Seq(Numbers') /\ pending \in Seq(Numbers')
      /\ relayed \in Seq(Numbers') /\ rebroadcast \in Seq(Numbers')
      /\ Len(links) <= LinksMax /\ Len(pending) <= PendingMax
      /\ LinksMax \in Nat \ {0} /\ PendingMax \in Nat \ {0}
  BY <1>2, GrowNumbers, LimitAssumption DEF TypeOK
<1>4. links' \in Seq(Numbers') /\ Len(links') <= LinksMax
  <2> DEFINE N2 == Numbers'
  <2>1. links \in Seq(N2) /\ Number \in N2
    BY <1>2, <1>3
  <2> HIDE DEF N2
  <2>2. /\ Push(links, Number, LinksMax) \in Seq(N2)
        /\ Len(Push(links, Number, LinksMax)) <= LinksMax
    BY <2>1, <1>3, PushType
  <2> QED
    BY <1>3, <2>1, <2>2, HookKeeps DEF N2
<1>5. pending' \in Seq(Numbers') /\ Len(pending') <= PendingMax /\ overflowed' \subseteq Numbers'
  <2> DEFINE N2 == Numbers'
  <2>1. pending \in Seq(N2) /\ Number \in N2 /\ overflowed \subseteq N2
    BY <1>2, <1>3 DEF TypeOK
  <2> HIDE DEF N2
  <2>2. /\ Push(pending, Number, PendingMax) \in Seq(N2)
        /\ Len(Push(pending, Number, PendingMax)) <= PendingMax
        /\ Dropped(pending, PendingMax) \subseteq N2
    BY <2>1, <1>3, PushType
  <2>3. CASE HeldLine(l)
    BY <2>1, <2>2, <2>3 DEF HeldLine, N2
  <2> QED
    BY <1>3, <2>1, <2>3, HookKeeps DEF N2
<1>6. relayed' \in Seq(Numbers') /\ rebroadcast' \in Seq(Numbers')
  <2> DEFINE N2 == Numbers'
  <2>1. relayed \in Seq(N2) /\ rebroadcast \in Seq(N2) /\ Number \in N2
    BY <1>2, <1>3
  <2> HIDE DEF N2
  <2>2. <<Number>> \in Seq(N2)
    BY <2>1
  <2>3. Append(relayed, Number) \in Seq(N2) /\ rebroadcast \o <<Number>> \in Seq(N2)
    BY <2>1, <2>2, AppendProperties, ConcatProperties
  <2>4. CASE SentLine(l)
    BY <2>1, <2>3, <2>4 DEF SentLine, Rebroadcast, N2
  <2> QED
    BY <1>3, <2>1, <2>4, HookKeeps DEF N2
<1>7. banners' \in Seq(Notice)
  <2>1. banners \in Seq(Notice) /\ l.player \in Players /\ now \in Nat
    BY NameTypes, InputAssumption DEF Line
  <2>2. \A kind \in {"initial", "active"} :
          [player |-> l.player, at |-> now, kind |-> kind] \in Notice
    BY <2>1 DEF Notice
  <2>3. \A kind \in {"initial", "active"} : Banner(l, kind) \in Seq(Notice)
    BY <2>1, <2>2, AppendProperties DEF Banner
  <2> QED
    BY <2>1, <2>3, HookKeeps
<1>8. MutesOK(mutes')
  BY HookMutes
<1>9. now' \in 0 .. MaxTime /\ names' \subseteq Players /\ reported' \subseteq Numbers'
  BY <1>2, HookKeeps DEF TypeOK
<1> QED
  BY <1>2, <1>4, <1>5, <1>6, <1>7, <1>8, <1>9
     DEF TypeOK, MutesOK, Record, Notice, Fates, Natives

LEMMA FlushTypeOK ==
  ASSUME TypeOK, FlushDeferred
  PROVE  TypeOK'
<1> USE DEF TypeOK
<1>1. <<>> \in Seq(Numbers) /\ Len(<<>>) = 0 /\ LinksMax \in Nat /\ PendingMax \in Nat
  BY EmptySeq, LimitAssumption
<1>2. /\ rebroadcast \o pending \in Seq(Numbers) /\ relayed \o pending \in Seq(Numbers)
      /\ pending \in Seq(Numbers)
  BY ConcatProperties
<1>3. Askable \subseteq Players
  <2>1. \A n \in Numbers : Player(n) \in Players
    BY RecordTypes, InputAssumption DEF Line, Player
  <2>2. Items(links) \subseteq Numbers /\ Items(pending) \subseteq Numbers
    BY ElementOfSeq DEF Items
  <2> QED
    BY <2>1, <2>2 DEF Askable
<1>4. /\ now' = now /\ mutes' = mutes /\ names' \subseteq Players /\ links' = <<>>
      /\ pending' = <<>> /\ lines' = lines /\ reported' = reported /\ banners' = banners
      /\ overflowed' = overflowed /\ relayed' = relayed \o pending
      /\ rebroadcast' \in Seq(Numbers) /\ Numbers' = Numbers
  BY <1>2, <1>3 DEF FlushDeferred, Rebroadcast, Numbers
<1> QED
  BY <1>1, <1>2, <1>4

LEMMA NextTypeOK == TypeOK /\ [Next]_vars => TypeOK'
<1> SUFFICES ASSUME TypeOK, [Next]_vars PROVE TypeOK'
  OBVIOUS
<1>1. CASE \E l \in Inputs : HandleHook(l)
  BY <1>1, HookTypeOK
<1>2. CASE FlushDeferred
  BY <1>2, FlushTypeOK
<1>3. CASE Tick
  <2>1. now' \in 0 .. MaxTime
    BY <1>3, LimitAssumption DEF Tick, TypeOK
  <2> QED
    BY <1>3, <2>1 DEF Tick, TypeOK, Numbers
<1>4. CASE UNCHANGED vars
  BY <1>4 DEF vars, TypeOK, Numbers
<1> QED
  BY <1>1, <1>2, <1>3, <1>4 DEF Next

LEMMA InitTypeOK == Init => TypeOK
<1> SUFFICES ASSUME Init PROVE TypeOK
  OBVIOUS
<1>1. \A S : <<>> \in Seq(S)
  BY EmptySeq
<1>2. DOMAIN <<>> = {} /\ Len(<<>>) = 0
  OBVIOUS
<1> QED
  BY <1>1, <1>2, LimitAssumption DEF Init, TypeOK

(* The variables keep their types: the two lists of deferred work never    *)
(* outgrow their bounds.                                                   *)
THEOREM CaptureTypeCorrect == Spec => []TypeOK
BY InitTypeOK, NextTypeOK, PTL DEF Spec

-----------------------------------------------------------------------------
(* This server and the others                                              *)

(* Without ShowLocalServerTag nothing is shown here again.                 *)
TwinInv == IF ShowLocalServerTag THEN rebroadcast = relayed ELSE rebroadcast = <<>>

LEMMA AppendOne ==
  ASSUME NEW S, NEW q \in Seq(S), NEW item \in S
  PROVE  q \o <<item>> = Append(q, item)
OBVIOUS

LEMMA NextTwinInv == TypeOK /\ TypeOK' /\ TwinInv /\ [Next]_vars => TwinInv'
<1> SUFFICES ASSUME TypeOK, TypeOK', TwinInv, [Next]_vars PROVE TwinInv'
  OBVIOUS
<1> USE DEF TwinInv, Rebroadcast
<1>1. ASSUME NEW l \in Inputs, HandleHook(l) PROVE TwinInv'
  <2>1. CASE SentLine(l)
    <3>1. lines'[Number].fate = "sent" /\ Number \in Nat
      BY <2>1, HookEnds DEF Ends
    <3>2. relayed \in Seq(Numbers) /\ Numbers \subseteq Nat
      BY NameTypes DEF TypeOK
    <3>3. relayed \in Seq(Nat)
      BY <3>2, SeqMonotonic
    <3>4. relayed \o <<Number>> = Append(relayed, Number)
      BY <3>1, <3>3, AppendOne
    <3> QED
      BY <2>1, <3>4 DEF SentLine
  <2>2. CASE ~SentLine(l)
    BY <1>1, <2>2, HookKeeps
  <2> QED
    BY <2>1, <2>2
<1>2. CASE FlushDeferred
  BY <1>2 DEF FlushDeferred
<1>3. CASE Tick
  BY <1>3 DEF Tick
<1>4. CASE UNCHANGED vars
  BY <1>4 DEF vars
<1> QED
  BY <1>1, <1>2, <1>3, <1>4 DEF Next

(* LocalAndRemoteAgree: whatever the order in which lines wait for a name  *)
(* and are flushed, this server shows what the others are sent.            *)
THEOREM AgreementCorrect == Spec => []LocalAndRemoteAgree
<1>1. Init => TwinInv
  BY DEF Init, TwinInv
<1>2. TwinInv => LocalAndRemoteAgree
  BY DEF TwinInv, LocalAndRemoteAgree
<1> QED
  BY <1>1, <1>2, InitTypeOK, NextTypeOK, NextTwinInv, PTL DEF Spec

-----------------------------------------------------------------------------
(* The order of a player's lines                                           *)

(* A player's waiting lines are later than those he has sent, for a line   *)
(* of a player whose name is known does not wait.                          *)
Named(l, known) == l.name \/ (l.uid /\ l.player \in known)
Ordered(sent, waiting, ls, known) ==
  /\ \A i, j \in 1 .. Len(sent) :
       i < j /\ ls[sent[i]].line.player = ls[sent[j]].line.player => sent[i] < sent[j]
  /\ \A i \in 1 .. Len(sent), j \in 1 .. Len(waiting) :
       ls[sent[i]].line.player = ls[waiting[j]].line.player => sent[i] < waiting[j]
  /\ \A i, j \in 1 .. Len(waiting) : i < j => waiting[i] < waiting[j]
  /\ \A i \in 1 .. Len(waiting) : ~Named(ls[waiting[i]].line, known)
OrderInv ==
  /\ Ordered(relayed, pending, lines, names)
  /\ \A n \in Numbers : lines[n].line \in Inputs

LEMMA ItemNumbers ==
  ASSUME TypeOK
  PROVE  /\ Items(relayed) \subseteq Numbers /\ Items(pending) \subseteq Numbers
         /\ Items(rebroadcast) \subseteq Numbers
         /\ \A i \in 1 .. Len(relayed) : relayed[i] \in Items(relayed)
         /\ \A i \in 1 .. Len(pending) : pending[i] \in Items(pending)
<1>1. /\ \A i \in 1 .. Len(relayed) : relayed[i] \in Numbers
      /\ \A i \in 1 .. Len(pending) : pending[i] \in Numbers
      /\ \A i \in 1 .. Len(rebroadcast) : rebroadcast[i] \in Numbers
  BY ElementOfSeq DEF TypeOK
<1> QED
  BY <1>1 DEF Items

(* The places of a list that one item was pushed into.                     *)
Pushed(q, item, r) ==
  /\ Len(r) \in Nat \ {0} /\ r[Len(r)] = item
  /\ \E shift \in {0, 1} :
       \A i \in 1 .. Len(r) : i # Len(r) =>
         i + shift \in 1 .. Len(q) /\ r[i] = q[i + shift]
LEMMA PushPlaces ==
  ASSUME NEW S, NEW max \in Nat \ {0}, NEW q \in Seq(S), NEW item \in S
  PROVE  Pushed(q, item, Push(q, item, max))
<1> DEFINE r == Push(q, item, max)
<1>0. Len(q) \in Nat
  BY LenProperties
<1>1. CASE Len(q) >= max
  <2>1. CanPop(q)
    BY <1>1, EmptySeq DEF CanPop
  <2> DEFINE rest == Tail(q)
  <2>2. /\ rest \in Seq(S) /\ Len(rest) = Len(q) - 1 /\ Len(q) # 0
        /\ \A i \in 1 .. Len(rest) : rest[i] = q[i + 1]
    BY <2>1, PopType, HeadTailProperties DEF CanPop
  <2>3. r = Append(rest, item)
    BY <1>1 DEF Push, Room
  <2> HIDE DEF rest, r
  <2>4. /\ Len(r) = Len(rest) + 1 /\ r[Len(rest) + 1] = item
        /\ \A i \in 1 .. Len(rest) : r[i] = rest[i]
    BY <2>2, <2>3, AppendProperties
  <2>5. \A i \in 1 .. Len(r) : i # Len(r) => i + 1 \in 1 .. Len(q) /\ r[i] = q[i + 1]
    BY <1>0, <2>2, <2>4
  <2>6. Len(r) \in Nat \ {0} /\ r[Len(r)] = item
    BY <1>0, <2>2, <2>4
  <2> QED
    BY <2>5, <2>6 DEF r, Pushed
<1>2. CASE ~(Len(q) >= max)
  <2>1. r = Append(q, item)
    BY <1>2 DEF Push, Room
  <2> HIDE DEF r
  <2>2. /\ Len(r) = Len(q) + 1 /\ r[Len(q) + 1] = item
        /\ \A i \in 1 .. Len(q) : r[i] = q[i]
    BY <2>1, AppendProperties
  <2>3. \A i \in 1 .. Len(r) : i # Len(r) => i + 0 \in 1 .. Len(q) /\ r[i] = q[i + 0]
    BY <1>0, <2>2
  <2>4. Len(r) \in Nat \ {0} /\ r[Len(r)] = item
    BY <1>0, <2>2
  <2> QED
    BY <2>3, <2>4 DEF r, Pushed
<1> QED
  BY <1>1, <1>2

(* The lines that were typed before stay as they were.                     *)
LEMMA OldLines ==
  ASSUME TypeOK, NEW l \in Inputs, HandleHook(l)
  PROVE  /\ Numbers' = Numbers \cup {Number} /\ Number \in Nat
         /\ \A n \in Numbers : n < Number /\ n # Number
         /\ lines'[Number].line = l /\ lines'[Number].at = now
         /\ \A n \in Numbers : lines'[n] = lines[n]
<1>1. Ends(l, Fates) /\ Numbers \subseteq Nat
  BY HookLines, NameTypes
<1>2. /\ Numbers' = Numbers \cup {Number} /\ Number \in Nat
      /\ \A n \in Numbers : n < Number
      /\ lines'[Number].line = l /\ lines'[Number].at = now
      /\ \A n \in Numbers : lines'[n] = lines[n]
  BY <1>1 DEF Ends
<1>3. \A n \in Numbers : n # Number
  BY <1>1, <1>2
<1> QED
  BY <1>2, <1>3

LEMMA PlaceNumbers ==
  ASSUME TypeOK
  PROVE  /\ relayed \in Seq(Nat) /\ pending \in Seq(Nat) /\ rebroadcast \in Seq(Nat)
         /\ Len(relayed) \in Nat /\ Len(pending) \in Nat
         /\ \A i \in 1 .. Len(relayed) : relayed[i] \in Numbers /\ relayed[i] \in Nat
         /\ \A i \in 1 .. Len(pending) : pending[i] \in Numbers /\ pending[i] \in Nat
<1>1. /\ relayed \in Seq(Numbers) /\ pending \in Seq(Numbers)
      /\ rebroadcast \in Seq(Numbers) /\ Numbers \subseteq Nat
  BY NameTypes DEF TypeOK
<1> QED
  BY <1>1, SeqMonotonic, ElementOfSeq, LenProperties

LEMMA HeldOrderInv ==
  ASSUME TypeOK, OrderInv, NEW l \in Inputs, HandleHook(l), HeldLine(l)
  PROVE  Ordered(relayed', pending', lines', names')
<1>1. /\ relayed' = relayed /\ names' = names
      /\ pending' = Push(pending, Number, PendingMax) /\ ~Named(l, names)
  BY DEF HeldLine, HaveDisplayName, Named
<1>2. pending \in Seq(Nat) /\ PendingMax \in Nat \ {0} /\ Number \in Nat
  BY LimitAssumption, PlaceNumbers, OldLines
<1>3. Pushed(pending, Number, pending')
  BY <1>1, <1>2, PushPlaces
<1>l. Len(pending') \in Nat \ {0} /\ pending'[Len(pending')] = Number
  BY <1>3 DEF Pushed
<1>4. PICK shift \in {0, 1} :
        \A i \in 1 .. Len(pending') : i # Len(pending') =>
          i + shift \in 1 .. Len(pending) /\ pending'[i] = pending[i + shift]
  BY <1>3 DEF Pushed
<1>5. /\ \A i \in 1 .. Len(relayed) :
           lines'[relayed[i]] = lines[relayed[i]] /\ relayed[i] < Number
      /\ \A i \in 1 .. Len(pending) :
           lines'[pending[i]] = lines[pending[i]] /\ pending[i] < Number
      /\ lines'[Number].line = l
  BY PlaceNumbers, OldLines
<1>6. \A i \in 1 .. Len(pending') :
        \/ i = Len(pending') /\ pending'[i] = Number
        \/ /\ i # Len(pending') /\ i + shift \in 1 .. Len(pending)
           /\ pending'[i] = pending[i + shift]
  BY <1>l, <1>4
<1>7. \A i, j \in 1 .. Len(pending') : i < j => pending'[i] < pending'[j]
  <2> SUFFICES ASSUME NEW i \in 1 .. Len(pending'), NEW j \in 1 .. Len(pending'), i < j
               PROVE  pending'[i] < pending'[j]
    OBVIOUS
  <2>1. i # Len(pending') /\ i + shift < j + shift
    BY <1>l
  <2>2. i + shift \in 1 .. Len(pending) /\ pending'[i] = pending[i + shift]
    BY <1>6, <2>1
  <2>3. CASE j = Len(pending')
    BY <1>l, <1>5, <2>2, <2>3
  <2>4. CASE j # Len(pending')
    <3>1. j + shift \in 1 .. Len(pending) /\ pending'[j] = pending[j + shift]
      BY <1>6, <2>4
    <3> QED
      BY <2>1, <2>2, <3>1 DEF OrderInv, Ordered
  <2> QED
    BY <2>3, <2>4
<1>8. ASSUME NEW i \in 1 .. Len(relayed), NEW j \in 1 .. Len(pending'),
             lines'[relayed[i]].line.player = lines'[pending'[j]].line.player
      PROVE  relayed[i] < pending'[j]
  <2>1. CASE pending'[j] = Number
    BY <1>5, <2>1
  <2>2. CASE j + shift \in 1 .. Len(pending) /\ pending'[j] = pending[j + shift]
    <3>1. lines[relayed[i]].line.player = lines[pending[j + shift]].line.player
      BY <1>5, <1>8, <2>2
    <3> QED
      BY <2>2, <3>1 DEF OrderInv, Ordered
  <2> QED
    BY <1>6, <2>1, <2>2
<1>9. ASSUME NEW i \in 1 .. Len(pending')
      PROVE  ~Named(lines'[pending'[i]].line, names)
  <2>1. CASE pending'[i] = Number
    BY <1>1, <1>5, <2>1
  <2>2. CASE i + shift \in 1 .. Len(pending) /\ pending'[i] = pending[i + shift]
    <3>1. lines'[pending'[i]] = lines[pending[i + shift]]
      BY <1>5, <2>2
    <3>2. ~Named(lines[pending[i + shift]].line, names)
      BY <2>2 DEF OrderInv, Ordered
    <3> QED
      BY <3>1, <3>2
  <2> QED
    BY <1>6, <2>1, <2>2
<1>10. \A i, j \in 1 .. Len(relayed) :
         i < j /\ lines'[relayed[i]].line.player = lines'[relayed[j]].line.player =>
           relayed[i] < relayed[j]
  BY <1>5 DEF OrderInv, Ordered
<1> QED
  BY <1>1, <1>7, <1>8, <1>9, <1>10 DEF Ordered

LEMMA SentOrderInv ==
  ASSUME SteadyNames, TypeOK, OrderInv, NEW l \in Inputs, HandleHook(l), SentLine(l)
  PROVE  Ordered(relayed', pending', lines', names')
<1>1. /\ relayed' = Append(relayed, Number) /\ names' = names /\ pending' = pending
      /\ Named(l, names)
  BY DEF SentLine, HaveDisplayName, Named
<1>2. relayed \in Seq(Nat) /\ Number \in Nat
  BY PlaceNumbers, OldLines
<1>3. /\ Len(relayed') = Len(relayed) + 1 /\ relayed'[Len(relayed) + 1] = Number
      /\ \A i \in 1 .. Len(relayed) : relayed'[i] = relayed[i]
      /\ Len(relayed) \in Nat
  BY <1>1, <1>2, AppendProperties, LenProperties
<1>4. /\ \A i \in 1 .. Len(relayed) :
           lines'[relayed[i]] = lines[relayed[i]] /\ relayed[i] < Number
      /\ \A i \in 1 .. Len(pending) :
           lines'[pending[i]] = lines[pending[i]] /\ lines[pending[i]].line \in Inputs
      /\ lines'[Number].line = l
  BY PlaceNumbers, OldLines DEF OrderInv
<1>5. ASSUME NEW i \in 1 .. Len(pending), lines[pending[i]].line.player = l.player
      PROVE  FALSE
  <2>1. /\ lines[pending[i]].line.uid = l.uid /\ lines[pending[i]].line.name = l.name
        /\ ~Named(lines[pending[i]].line, names)
    BY <1>4, <1>5 DEF SteadyNames, OrderInv, Ordered
  <2> QED
    BY <1>1, <1>5, <2>1 DEF Named
<1>6. \A i \in 1 .. Len(relayed') :
        \/ i = Len(relayed) + 1 /\ relayed'[i] = Number
        \/ i \in 1 .. Len(relayed) /\ relayed'[i] = relayed[i]
  BY <1>3
<1>7. ASSUME NEW i \in 1 .. Len(relayed'), NEW j \in 1 .. Len(relayed'), i < j,
             lines'[relayed'[i]].line.player = lines'[relayed'[j]].line.player
      PROVE  relayed'[i] < relayed'[j]
  <2>1. i \in 1 .. Len(relayed) /\ relayed'[i] = relayed[i]
    BY <1>3, <1>7
  <2>2. CASE j = Len(relayed) + 1
    BY <1>3, <1>4, <2>1, <2>2
  <2>3. CASE j \in 1 .. Len(relayed)
    BY <1>3, <1>4, <1>7, <2>1, <2>3 DEF OrderInv, Ordered
  <2> QED
    BY <1>6, <2>2, <2>3
<1>8. ASSUME NEW i \in 1 .. Len(relayed'), NEW j \in 1 .. Len(pending),
             lines'[relayed'[i]].line.player = lines'[pending[j]].line.player
      PROVE  relayed'[i] < pending[j]
  <2>1. CASE relayed'[i] = Number
    BY <1>4, <1>5, <1>8, <2>1
  <2>2. CASE i \in 1 .. Len(relayed) /\ relayed'[i] = relayed[i]
    <3>1. lines[relayed[i]].line.player = lines[pending[j]].line.player
      BY <1>4, <1>8, <2>2
    <3> QED
      BY <2>2, <3>1 DEF OrderInv, Ordered
  <2> QED
    BY <1>6, <2>1, <2>2
<1>9. /\ \A i, j \in 1 .. Len(pending) : i < j => pending[i] < pending[j]
      /\ \A i \in 1 .. Len(pending) : ~Named(lines'[pending[i]].line, names)
  BY <1>4 DEF OrderInv, Ordered
<1> QED
  BY <1>1, <1>7, <1>8, <1>9 DEF Ordered

LEMMA FlushOrderInv ==
  ASSUME TypeOK, OrderInv, FlushDeferred
  PROVE  Ordered(relayed', pending', lines', names')
<1>1. relayed' = relayed \o pending /\ pending' = <<>> /\ lines' = lines
  BY DEF FlushDeferred
<1>2. /\ Len(relayed') = Len(relayed) + Len(pending)
      /\ Len(relayed) \in Nat /\ Len(pending) \in Nat
      /\ \A i \in 1 .. Len(relayed') :
           relayed'[i] = IF i <= Len(relayed) THEN relayed[i] ELSE pending[i - Len(relayed)]
  BY <1>1, PlaceNumbers, ConcatProperties
<1>3. \A i \in 1 .. Len(relayed') :
        \/ i \in 1 .. Len(relayed) /\ relayed'[i] = relayed[i]
        \/ /\ i \notin 1 .. Len(relayed) /\ i - Len(relayed) \in 1 .. Len(pending)
           /\ relayed'[i] = pending[i - Len(relayed)]
  BY <1>2
<1>4. ASSUME NEW i \in 1 .. Len(relayed'), NEW j \in 1 .. Len(relayed'), i < j,
             lines[relayed'[i]].line.player = lines[relayed'[j]].line.player
      PROVE  relayed'[i] < relayed'[j]
  <2>1. CASE j \in 1 .. Len(relayed)
    <3>1. i \in 1 .. Len(relayed) /\ relayed'[i] = relayed[i] /\ relayed'[j] = relayed[j]
      BY <1>2, <1>4, <2>1
    <3> QED
      BY <1>4, <2>1, <3>1 DEF OrderInv, Ordered
  <2>2. CASE j \notin 1 .. Len(relayed) /\ i \in 1 .. Len(relayed)
    <3>1. /\ j - Len(relayed) \in 1 .. Len(pending) /\ relayed'[i] = relayed[i]
          /\ relayed'[j] = pending[j - Len(relayed)]
      BY <1>3, <2>2
    <3> QED
      BY <1>4, <2>2, <3>1 DEF OrderInv, Ordered
  <2>3. CASE i \notin 1 .. Len(relayed)
    <3>1. j \notin 1 .. Len(relayed) /\ i - Len(relayed) < j - Len(relayed)
      BY <1>2, <1>4, <2>3
    <3>2. /\ i - Len(relayed) \in 1 .. Len(pending) /\ j - Len(relayed) \in 1 .. Len(pending)
          /\ relayed'[i] = pending[i - Len(relayed)] /\ relayed'[j] = pending[j - Len(relayed)]
      BY <1>3, <2>3, <3>1
    <3> QED
      BY <3>1, <3>2 DEF OrderInv, Ordered
  <2> QED
    BY <2>1, <2>2, <2>3
<1>5. Len(pending') = 0
  BY <1>1
<1> QED
  BY <1>1, <1>4, <1>5 DEF Ordered

LEMMA NextOrderInv ==
  ASSUME SteadyNames
  PROVE  TypeOK /\ OrderInv /\ [Next]_vars => OrderInv'
<1> SUFFICES ASSUME TypeOK, OrderInv, [Next]_vars PROVE OrderInv'
  OBVIOUS
<1>1. ASSUME NEW l \in Inputs, HandleHook(l), ~HeldLine(l), ~SentLine(l)
      PROVE  Ordered(relayed', pending', lines', names')
  <2>1. relayed' = relayed /\ pending' = pending /\ names' = names
    BY <1>1, HookKeeps
  <2>2. /\ \A i \in 1 .. Len(relayed) : lines'[relayed[i]] = lines[relayed[i]]
        /\ \A i \in 1 .. Len(pending) : lines'[pending[i]] = lines[pending[i]]
    BY <1>1, OldLines, PlaceNumbers
  <2> QED
    BY <2>1, <2>2 DEF OrderInv, Ordered
<1>2. ASSUME NEW l \in Inputs, HandleHook(l) PROVE OrderInv'
  <2>1. \A n \in Numbers' : lines'[n].line \in Inputs
    BY <1>2, OldLines DEF OrderInv
  <2> QED
    BY <1>1, <1>2, <2>1, HeldOrderInv, SentOrderInv DEF OrderInv
<1>3. CASE FlushDeferred
  BY <1>3, FlushOrderInv DEF FlushDeferred, OrderInv, Numbers
<1>4. CASE Tick
  BY <1>4 DEF Tick, OrderInv, Numbers
<1>5. CASE UNCHANGED vars
  BY <1>5 DEF vars, OrderInv, Numbers
<1> QED
  BY <1>2, <1>3, <1>4, <1>5 DEF Next

(* SenderOrder: some of a player's lines wait for his name and others do   *)
(* not, yet none overtakes an earlier one.                                 *)
THEOREM SenderOrderCorrect ==
  ASSUME SteadyNames
  PROVE  Spec => []SenderOrder
<1>1. Init => OrderInv
  BY DEF Init, OrderInv, Ordered, Numbers
<1>2. OrderInv => SenderOrder
  BY DEF OrderInv, Ordered, SenderOrder, Player
<1>3. TypeOK /\ OrderInv /\ [Next]_vars => OrderInv'
  BY NextOrderInv
<1> QED
  BY <1>1, <1>2, <1>3, InitTypeOK, NextTypeOK, PTL DEF Spec

-----------------------------------------------------------------------------
(* The places of a line                                                    *)

(* A line that is to be relayed is in one of three places, and once.       *)
Due == {n \in Numbers : lines[n].fate \in {"held", "sent"}}
PlaceInv ==
  /\ Distinct(relayed) /\ Distinct(pending)
  /\ Items(relayed) \cap Items(pending) = {}
  /\ (Items(relayed) \cup Items(pending)) \cap overflowed = {}
  /\ Items(relayed) \cup Items(pending) \cup overflowed = Due

LEMMA DueGrows ==
  ASSUME TypeOK, NEW l \in Inputs, HandleHook(l)
  PROVE  /\ Due' = IF HeldLine(l) \/ SentLine(l) THEN Due \cup {Number} ELSE Due
         /\ Number \notin Due
<1>1. /\ lines'[Number].fate \in {"held", "sent"} => HeldLine(l) \/ SentLine(l)
      /\ HeldLine(l) \/ SentLine(l) => lines'[Number].fate \in {"held", "sent"}
  BY HookLines, HookEnds DEF Ends
<1>2. /\ Numbers' = Numbers \cup {Number} /\ Number \notin Numbers
      /\ \A n \in Numbers : lines'[n] = lines[n]
  BY OldLines
<1>3. Due' = {n \in Numbers' : lines'[n].fate \in {"held", "sent"}}
  BY DEF Due
<1>4. Number \notin Due
  BY <1>2 DEF Due
<1>5. CASE HeldLine(l) \/ SentLine(l)
  BY <1>1, <1>2, <1>3, <1>4, <1>5 DEF Due
<1>6. CASE ~(HeldLine(l) \/ SentLine(l))
  BY <1>1, <1>2, <1>3, <1>4, <1>6 DEF Due
<1> QED
  BY <1>4, <1>5, <1>6

LEMMA NextPlaceInv == TypeOK /\ PlaceInv /\ [Next]_vars => PlaceInv'
<1> SUFFICES ASSUME TypeOK, PlaceInv, [Next]_vars PROVE PlaceInv'
  OBVIOUS
<1>0. /\ relayed \in Seq(Nat) /\ pending \in Seq(Nat) /\ PendingMax \in Nat \ {0}
      /\ Distinct(relayed) /\ Distinct(pending)
      /\ Items(relayed) \cap Items(pending) = {}
      /\ (Items(relayed) \cup Items(pending)) \cap overflowed = {}
      /\ Items(relayed) \cup Items(pending) \cup overflowed = Due
  BY PlaceNumbers, LimitAssumption DEF PlaceInv
<1>1. ASSUME NEW l \in Inputs, HandleHook(l) PROVE PlaceInv'
  <2>0. Number \in Nat /\ Number \notin Due
    BY <1>1, OldLines, DueGrows
  <2>1. CASE HeldLine(l)
    <3>1. /\ relayed' = relayed /\ pending' = Push(pending, Number, PendingMax)
          /\ overflowed' = overflowed \cup Dropped(pending, PendingMax)
          /\ Due' = Due \cup {Number}
      BY <1>1, <2>1, DueGrows DEF HeldLine
    <3>2. Number \notin Items(pending)
      BY <1>0, <2>0
    <3>3. /\ Distinct(pending')
          /\ Items(pending') = (Items(pending) \ Dropped(pending, PendingMax)) \cup {Number}
          /\ Dropped(pending, PendingMax) \subseteq Items(pending)
      BY <1>0, <2>0, <3>1, <3>2, PushDistinct
    <3>4. /\ Items(relayed') \cap Items(pending') = {}
          /\ (Items(relayed') \cup Items(pending')) \cap overflowed' = {}
          /\ Items(relayed') \cup Items(pending') \cup overflowed' = Due'
      BY <1>0, <2>0, <3>1, <3>3
    <3> QED
      BY <1>0, <3>1, <3>3, <3>4 DEF PlaceInv
  <2>2. CASE SentLine(l)
    <3>1. /\ relayed' = Append(relayed, Number) /\ pending' = pending
          /\ overflowed' = overflowed /\ Due' = Due \cup {Number}
      BY <1>1, <2>2, DueGrows DEF SentLine
    <3>2. Number \notin Items(relayed)
      BY <1>0, <2>0
    <3>3. Distinct(relayed') /\ Items(relayed') = Items(relayed) \cup {Number}
      BY <1>0, <2>0, <3>1, <3>2, AppendDistinct, AppendItems
    <3>4. /\ Items(relayed') \cap Items(pending') = {}
          /\ (Items(relayed') \cup Items(pending')) \cap overflowed' = {}
          /\ Items(relayed') \cup Items(pending') \cup overflowed' = Due'
      BY <1>0, <2>0, <3>1, <3>3
    <3> QED
      BY <1>0, <3>1, <3>3, <3>4 DEF PlaceInv
  <2>3. CASE ~HeldLine(l) /\ ~SentLine(l)
    <3>1. /\ relayed' = relayed /\ pending' = pending /\ overflowed' = overflowed
          /\ Due' = Due
      BY <1>1, <2>3, HookKeeps, DueGrows
    <3> QED
      BY <1>0, <3>1 DEF PlaceInv
  <2> QED
    BY <2>1, <2>2, <2>3
<1>2. CASE FlushDeferred
  <2>1. /\ relayed' = relayed \o pending /\ pending' = <<>> /\ overflowed' = overflowed
        /\ Due' = Due
    BY <1>2 DEF FlushDeferred, Due, Numbers
  <2>2. Distinct(relayed') /\ Items(relayed') = Items(relayed) \cup Items(pending)
    BY <1>0, <2>1, ConcatDistinct, ConcatItems
  <2>3. Distinct(pending') /\ Items(pending') = {}
    BY <2>1 DEF Distinct, Items
  <2>4. /\ Items(relayed') \cap Items(pending') = {}
        /\ (Items(relayed') \cup Items(pending')) \cap overflowed' = {}
        /\ Items(relayed') \cup Items(pending') \cup overflowed' = Due'
    BY <1>0, <2>1, <2>2, <2>3
  <2> QED
    BY <2>2, <2>3, <2>4 DEF PlaceInv
<1>3. CASE Tick
  BY <1>0, <1>3 DEF Tick, PlaceInv, Due, Numbers
<1>4. CASE UNCHANGED vars
  BY <1>0, <1>4 DEF vars, PlaceInv, Due, Numbers
<1> QED
  BY <1>1, <1>2, <1>3, <1>4 DEF Next

LEMMA PlacesCount == TypeOK /\ PlaceInv => NoLineForgotten
<1> SUFFICES ASSUME TypeOK, PlaceInv, NEW n \in Numbers
             PROVE  Copies(n) = IF lines[n].fate \in {"held", "sent"} THEN 1 ELSE 0
  BY DEF NoLineForgotten
<1>1. /\ Cardinality({i \in 1 .. Len(relayed) : relayed[i] = n})
           = IF n \in Items(relayed) THEN 1 ELSE 0
  BY PlaceNumbers, CountDistinct DEF PlaceInv
<1>2. ASSUME NEW T
      PROVE  Cardinality({n} \cap T) = IF n \in T THEN 1 ELSE 0
  <2>1. CASE n \in T
    <3>1. {n} \cap T = {n}
      BY <2>1
    <3> QED
      BY <2>1, <3>1, FS_Singleton
  <2>2. CASE n \notin T
    <3>1. {n} \cap T = {}
      BY <2>2
    <3> QED
      BY <2>2, <3>1, FS_EmptySet
  <2> QED
    BY <2>1, <2>2
<1>3. n \in Items(relayed) \cup Items(pending) \cup overflowed
        <=> lines[n].fate \in {"held", "sent"}
  BY DEF PlaceInv, Due
<1> QED
  BY <1>1, <1>2, <1>3 DEF Copies, PlaceInv

LEMMA InitPlaceInv == Init => PlaceInv
BY DEF Init, PlaceInv, Distinct, Items, Due, Numbers

(* NoLineForgotten: a line that the hook has cleared in order to relay it  *)
(* is relayed once, or waits, or was pushed out of a full list; no other   *)
(* line is ever relayed.                                                   *)
THEOREM NoLineForgottenCorrect == Spec => []NoLineForgotten
BY InitPlaceInv, InitTypeOK, NextTypeOK, NextPlaceInv, PlacesCount, PTL DEF Spec

-----------------------------------------------------------------------------
(* Mutes and notices                                                       *)

(* The mutes at every later instant are those that the hits account for.   *)
Hit(ls, player, m, t) ==
  /\ ls[m].line.player = player /\ ls[m].fate = "filtered" /\ t < ls[m].at + ls[m].mute
Silenced(ls, n) == \E m \in 1 .. n - 1 : Hit(ls, ls[n].line.player, m, ls[n].at)

HitInv ==
  \A k \in Inputs, t \in Nat : t >= now =>
    (IsMuted(mutes, MuteKey(k), t) <=> \E m \in Numbers : Hit(lines, k.player, m, t))
FateInv ==
  \A n \in Numbers :
    lines[n].fate # "setdiscord" => (lines[n].fate = "muted" <=> Silenced(lines, n))

LEMMA SilencedIsOwnMute == \A n : Silenced(lines, n) <=> OwnMute(n)
BY DEF Silenced, Hit, OwnMute, Player

(* Only a hit changes what later lookups see.                              *)
LEMMA QuietMutes ==
  ASSUME TypeOK, NEW l \in Inputs, HandleHook(l), ~FilteredLine(l)
  PROVE  \A k : \A t \in Nat : t >= now => (IsMuted(mutes', k, t) <=> IsMuted(mutes, k, t))
<1>1. now \in Nat /\ MutesOK(mutes) /\ NoticeGap \in Nat
  BY NameTypes, LimitAssumption
<1>2. CASE mutes' = mutes
  BY <1>2
<1>3. CASE MutedLine(l)
  BY <1>1, <1>3, NoticeMutes DEF MutedLine
<1>4. CASE Sweep(l)
  BY <1>1, <1>4, SweptMutes DEF Sweep
<1> QED
  BY <1>2, <1>3, <1>4, HookKeeps

LEMMA HitLater ==
  ASSUME MutesOK(mutes), now \in Nat, NEW k, ~IsMuted(mutes, k, now), NEW t \in Nat, t >= now
  PROVE  ~IsMuted(mutes, k, t)
<1> SUFFICES ASSUME IsMuted(mutes, k, t) PROVE FALSE
  OBVIOUS
<1>1. k \in DOMAIN mutes /\ t < mutes[k].until /\ mutes[k].until \in Nat
  BY DEF IsMuted, MutesOK
<1>2. now < mutes[k].until
  BY <1>1
<1> QED
  BY <1>1, <1>2 DEF IsMuted

LEMMA HookHitInv ==
  ASSUME OwnKeys, TypeOK, HitInv, NEW l \in Inputs, HandleHook(l)
  PROVE  HitInv'
<1>1. /\ now' = now /\ now \in Nat /\ MutesOK(mutes)
      /\ Numbers' = Numbers \cup {Number} /\ \A n \in Numbers : lines'[n] = lines[n]
      /\ lines'[Number].line = l /\ lines'[Number].at = now
  BY HookKeeps, NameTypes, OldLines
<1> SUFFICES ASSUME NEW k \in Inputs, NEW t \in Nat, t >= now
             PROVE  IsMuted(mutes', MuteKey(k), t)
                      <=> \E m \in Numbers' : Hit(lines', k.player, m, t)
  BY <1>1 DEF HitInv
<1>2. /\ (\E m \in Numbers' : Hit(lines', k.player, m, t))
           <=> \/ \E m \in Numbers : Hit(lines, k.player, m, t)
              \/ Hit(lines', k.player, Number, t)
      /\ IsMuted(mutes, MuteKey(k), t) <=> \E m \in Numbers : Hit(lines, k.player, m, t)
  BY <1>1 DEF Hit, HitInv
<1>3. CASE ~FilteredLine(l)
  <2>1. ~Hit(lines', k.player, Number, t)
    BY <1>3, HookLines DEF Hit
  <2> QED
    BY <1>2, <1>3, <2>1, QuietMutes
<1>4. CASE FilteredLine(l)
  <2>1. PICK mute \in Nat :
          /\ lines'[Number].mute = mute
          /\ mutes' = Mute(Swept(mutes, MuteKey(l), now), MuteKey(l), now, mute)
    BY <1>4, HookEnds
  <2>2. ~IsMuted(mutes, MuteKey(l), now) /\ lines'[Number].fate = "filtered"
    BY <1>4, HookEnds DEF FilteredLine, Muted, Ends
  <2> DEFINE sw == Swept(mutes, MuteKey(l), now)
  <2>3. /\ MutesOK(sw) /\ ~IsMuted(sw, MuteKey(l), now)
        /\ IsMuted(sw, MuteKey(k), t) <=> IsMuted(mutes, MuteKey(k), t)
    BY <1>1, <2>2, SweptMutes
  <2>4. mutes' = Mute(sw, MuteKey(l), now, mute)
    BY <2>1
  <2> HIDE DEF sw
  <2>5. CASE MuteKey(k) # MuteKey(l)
    <3>1. k.player # l.player
      BY <2>5 DEF OwnKeys
    <3>2. ~Hit(lines', k.player, Number, t)
      BY <1>1, <3>1 DEF Hit
    <3>3. IsMuted(mutes', MuteKey(k), t) <=> IsMuted(sw, MuteKey(k), t)
      BY <1>1, <2>3, <2>4, <2>5, MuteMutes
    <3> QED
      BY <1>2, <2>3, <3>2, <3>3
  <2>6. CASE MuteKey(k) = MuteKey(l)
    <3>1. k.player = l.player
      BY <2>6 DEF OwnKeys
    <3>2. IsMuted(mutes', MuteKey(l), t) <=> t < now + mute
      BY <1>1, <2>3, <2>4, MuteMutes
    <3>3. ~IsMuted(mutes, MuteKey(k), t)
      BY <1>1, <2>2, <2>6, HitLater
    <3>4. Hit(lines', k.player, Number, t) <=> t < now + mute
      BY <1>1, <2>1, <2>2, <3>1 DEF Hit
    <3> QED
      BY <1>2, <2>6, <3>2, <3>3, <3>4
  <2> QED
    BY <2>5, <2>6
<1> QED
  BY <1>3, <1>4

LEMMA HookFateInv ==
  ASSUME TypeOK, HitInv, FateInv, NEW l \in Inputs, HandleHook(l)
  PROVE  FateInv'
<1>1. /\ now \in Nat /\ Numbers' = Numbers \cup {Number} /\ Number \in Nat
      /\ \A n \in Numbers : lines'[n] = lines[n]
      /\ lines'[Number].line = l /\ lines'[Number].at = now
      /\ Numbers = 1 .. Number - 1
  BY NameTypes, OldLines DEF Numbers, Number
<1>2. ASSUME NEW n \in Numbers
      PROVE  Silenced(lines', n) <=> Silenced(lines, n)
  <2>1. lines'[n] = lines[n] /\ \A m \in 1 .. n - 1 : lines'[m] = lines[m]
    BY <1>1
  <2> QED
    BY <2>1 DEF Silenced, Hit
<1>3. Silenced(lines', Number) <=> IsMuted(mutes, MuteKey(l), now)
  <2>1. Silenced(lines', Number) <=> \E m \in Numbers : Hit(lines, l.player, m, now)
    BY <1>1 DEF Silenced, Hit
  <2> QED
    BY <1>1, <2>1 DEF HitInv
<1>4. lines'[Number].fate # "setdiscord" =>
        (lines'[Number].fate = "muted" <=> IsMuted(mutes, MuteKey(l), now))
  <2>1. CASE LinkLine(l)
    BY <2>1, HookEnds DEF Ends
  <2>2. CASE MutedLine(l)
    BY <2>2, HookEnds DEF Ends, MutedLine, Muted
  <2>3. CASE FilteredLine(l)
    BY <2>3, HookEnds DEF Ends, FilteredLine, Muted
  <2>4. CASE CommandLine(l)
    BY <2>4, HookEnds DEF Ends, CommandLine, Passes, Muted
  <2>5. CASE NativeLine(l)
    BY <2>5, HookEnds DEF Ends, NativeLine, Passes, Muted
  <2>6. CASE HeldLine(l)
    BY <2>6, HookEnds DEF Ends, HeldLine, Relays, Public, Passes, Muted
  <2>7. CASE SentLine(l)
    BY <2>7, HookEnds DEF Ends, SentLine, Relays, Public, Passes, Muted
  <2> QED
    BY <2>1, <2>2, <2>3, <2>4, <2>5, <2>6, <2>7, HookCases
<1>5. ASSUME NEW n \in Numbers', lines'[n].fate # "setdiscord"
      PROVE  lines'[n].fate = "muted" <=> Silenced(lines', n)
  <2>1. CASE n = Number
    BY <1>3, <1>4, <1>5, <2>1
  <2>2. CASE n \in Numbers
    BY <1>1, <1>2, <1>5, <2>2 DEF FateInv
  <2> QED
    BY <1>1, <2>1, <2>2
<1> QED
  BY <1>5 DEF FateInv

LEMMA NextHitInv ==
  ASSUME OwnKeys
  PROVE  TypeOK /\ HitInv /\ FateInv /\ [Next]_vars => HitInv' /\ FateInv'
<1> SUFFICES ASSUME TypeOK, HitInv, FateInv, [Next]_vars PROVE HitInv' /\ FateInv'
  OBVIOUS
<1>1. CASE \E l \in Inputs : HandleHook(l)
  BY <1>1, HookHitInv, HookFateInv
<1>2. CASE FlushDeferred
  BY <1>2 DEF FlushDeferred, HitInv, FateInv, Numbers
<1>3. CASE Tick
  <2>1. /\ now' = now + 1 /\ mutes' = mutes /\ lines' = lines /\ now \in Nat
    BY <1>3, NameTypes DEF Tick
  <2>2. \A t \in Nat : t >= now' => t >= now
    BY <2>1
  <2> QED
    BY <2>1, <2>2 DEF HitInv, FateInv, Numbers
<1>4. CASE UNCHANGED vars
  BY <1>4 DEF vars, HitInv, FateInv, Numbers
<1> QED
  BY <1>1, <1>2, <1>3, <1>4 DEF Next

LEMMA InitHitInv == Init => HitInv /\ FateInv
BY DEF Init, HitInv, FateInv, Numbers, IsMuted

(* MuteIsPersonal: a line is kept back as a muted player's exactly when it *)
(* comes within MuteMinutes after one of his own hits.                     *)
THEOREM MuteCorrect ==
  ASSUME OwnKeys
  PROVE  Spec => []MuteIsPersonal
<1>1. FateInv => MuteIsPersonal
  BY SilencedIsOwnMute DEF FateInv, MuteIsPersonal
<1>2. TypeOK /\ HitInv /\ FateInv /\ [Next]_vars => HitInv' /\ FateInv'
  BY NextHitInv
<1> QED
  BY <1>1, <1>2, InitTypeOK, NextTypeOK, InitHitInv, PTL DEF Spec

(* A muted player's last notice, and the earlier ones, are on record as    *)
(* long as his mute is.                                                    *)
NoticeInv ==
  /\ \A j \in 1 .. Len(banners) : banners[j].at <= now
  /\ \A k \in Inputs : MuteKey(k) \in DOMAIN mutes =>
       \A j \in 1 .. Len(banners) : banners[j].player = k.player =>
         banners[j].at <= mutes[MuteKey(k)].notified
  /\ NoticesSpaced

LEMMA SweptKey ==
  ASSUME NEW ms, NEW key, NEW t0, ~IsMuted(ms, key, t0)
  PROVE  key \notin DOMAIN Swept(ms, key, t0)
BY DEF Swept

LEMMA BannerAdded ==
  ASSUME TypeOK, NEW l \in Inputs, NEW kind \in {"initial", "active"},
         banners' = Banner(l, kind)
  PROVE  /\ Len(banners) \in Nat /\ Len(banners') = Len(banners) + 1
         /\ \A j \in 1 .. Len(banners) : banners'[j] = banners[j] /\ banners[j].at \in Nat
         /\ banners'[Len(banners) + 1] = [player |-> l.player, at |-> now, kind |-> kind]
         /\ \A j \in 1 .. Len(banners') : j \in 1 .. Len(banners) \/ j = Len(banners) + 1
<1> DEFINE notice == [player |-> l.player, at |-> now, kind |-> kind]
<1>1. banners \in Seq(Notice) /\ now \in Nat /\ l.player \in Players
  BY NameTypes, InputAssumption DEF Line
<1>2. notice \in Notice /\ banners' = Append(banners, notice)
  <2>1. notice \in Notice
    BY <1>1 DEF Notice
  <2>2. banners' = Append(banners, notice)
    BY DEF Banner
  <2> QED
    BY <2>1, <2>2
<1>3. \A j \in 1 .. Len(banners) : banners[j].at \in Nat
  <2>1. \A j \in 1 .. Len(banners) : banners[j] \in Notice
    BY <1>1, ElementOfSeq
  <2> QED
    BY <2>1 DEF Notice
<1> HIDE DEF notice
<1>4. /\ Len(banners) \in Nat /\ Len(banners') = Len(banners) + 1
      /\ \A j \in 1 .. Len(banners) : banners'[j] = banners[j]
      /\ banners'[Len(banners) + 1] = notice
  BY <1>1, <1>2, AppendProperties, LenProperties
<1>5. \A j \in 1 .. Len(banners') : j \in 1 .. Len(banners) \/ j = Len(banners) + 1
  BY <1>4
<1> QED
  BY <1>3, <1>4, <1>5 DEF notice

LEMMA MutedNoticeInv ==
  ASSUME OwnKeys, TypeOK, NoticeInv, NEW l \in Inputs, HandleHook(l), MutedLine(l)
  PROVE  NoticeInv'
<1>1. /\ now' = now /\ now \in Nat /\ MutesOK(mutes) /\ NoticeGap \in Nat
      /\ mutes' = AfterNotice(mutes, MuteKey(l), now, NoticeGap)
  BY HookKeeps, NameTypes, LimitAssumption DEF MutedLine
<1>2. CASE NoticeDue(mutes, MuteKey(l), now, NoticeGap)
  <2>1. banners' = Banner(l, "active")
    BY <1>2 DEF MutedLine
  <2>2. /\ Len(banners) \in Nat /\ Len(banners') = Len(banners) + 1
        /\ \A j \in 1 .. Len(banners) : banners'[j] = banners[j] /\ banners[j].at \in Nat
        /\ banners'[Len(banners) + 1]
             = [player |-> l.player, at |-> now, kind |-> "active"]
        /\ \A j \in 1 .. Len(banners') : j \in 1 .. Len(banners) \/ j = Len(banners) + 1
    BY <2>1, BannerAdded
  <2>3. /\ DOMAIN mutes' = DOMAIN mutes
        /\ \A k \in DOMAIN mutes : k # MuteKey(l) => mutes'[k].notified = mutes[k].notified
        /\ MuteKey(l) \in DOMAIN mutes /\ mutes'[MuteKey(l)].notified = now
    BY <1>1, <1>2, NoticeMutes DEF NoticeDue, IsMuted
  <2>4. \A j \in 1 .. Len(banners') : banners'[j].at <= now
    BY <1>1, <2>2 DEF NoticeInv
  <2>5. ASSUME NEW k \in Inputs, MuteKey(k) \in DOMAIN mutes',
               NEW j \in 1 .. Len(banners'), banners'[j].player = k.player
        PROVE  banners'[j].at <= mutes'[MuteKey(k)].notified
    <3>1. CASE MuteKey(k) = MuteKey(l)
      BY <2>3, <2>4, <3>1
    <3>2. CASE MuteKey(k) # MuteKey(l)
      <4>1. k.player # l.player
        BY <3>2 DEF OwnKeys
      <4>2. j \in 1 .. Len(banners) /\ banners'[j] = banners[j]
        BY <2>2, <2>5, <4>1
      <4> QED
        BY <2>3, <2>5, <3>2, <4>2 DEF NoticeInv
    <3> QED
      BY <3>1, <3>2
  <2>6. ASSUME NEW i \in 1 .. Len(banners), banners[i].player = l.player
        PROVE  now >= banners[i].at + NoticeGap
    <3>1. /\ banners[i].at <= mutes[MuteKey(l)].notified /\ banners[i].at \in Nat
          /\ mutes[MuteKey(l)].notified \in Nat
      BY <1>1, <2>2, <2>3, <2>6 DEF NoticeInv, MutesOK
    <3>2. now - mutes[MuteKey(l)].notified >= NoticeGap
      BY <1>2 DEF NoticeDue
    <3> QED
      BY <1>1, <3>1, <3>2
  <2>7. ASSUME NEW j \in 1 .. Len(banners'), banners'[j].kind = "active",
               NEW i \in 1 .. j - 1, banners'[i].player = banners'[j].player
        PROVE  banners'[j].at >= banners'[i].at + NoticeGap
    <3>1. i \in 1 .. Len(banners) /\ banners'[i] = banners[i]
      BY <2>2
    <3>2. CASE j \in 1 .. Len(banners)
      BY <2>2, <2>7, <3>1, <3>2 DEF NoticeInv, NoticesSpaced
    <3>3. CASE j = Len(banners) + 1
      BY <2>2, <2>6, <2>7, <3>1, <3>3
    <3> QED
      BY <2>2, <3>2, <3>3
  <2> QED
    BY <1>1, <2>4, <2>5, <2>7 DEF NoticeInv, NoticesSpaced
<1>3. CASE ~NoticeDue(mutes, MuteKey(l), now, NoticeGap)
  BY <1>1, <1>3 DEF MutedLine, AfterNotice, NoticeInv, NoticesSpaced
<1> QED
  BY <1>2, <1>3

LEMMA FilteredNoticeInv ==
  ASSUME OwnKeys, TypeOK, NoticeInv, NEW l \in Inputs, HandleHook(l), FilteredLine(l)
  PROVE  NoticeInv'
<1> DEFINE sw == Swept(mutes, MuteKey(l), now)
<1>1. /\ now' = now /\ now \in Nat /\ MutesOK(mutes) /\ NoticeGap \in Nat
      /\ ~IsMuted(mutes, MuteKey(l), now) /\ banners' = Banner(l, "initial")
  BY HookKeeps, NameTypes, LimitAssumption DEF FilteredLine, Muted
<1>2. PICK mute \in Nat : mutes' = Mute(sw, MuteKey(l), now, mute)
  BY HookEnds
<1>3. /\ MutesOK(sw) /\ ~IsMuted(sw, MuteKey(l), now) /\ MuteKey(l) \notin DOMAIN sw
      /\ DOMAIN sw \subseteq DOMAIN mutes /\ \A k \in DOMAIN sw : sw[k] = mutes[k]
  BY <1>1, SweptMutes, SweptKey
<1> HIDE DEF sw
<1>4. /\ DOMAIN mutes' = IF mute = 0 THEN DOMAIN sw ELSE DOMAIN sw \cup {MuteKey(l)}
      /\ \A k \in DOMAIN sw : k # MuteKey(l) => mutes'[k] = sw[k]
      /\ mute # 0 => mutes'[MuteKey(l)].notified = now
  BY <1>1, <1>2, <1>3, MuteMutes
<1>5. /\ Len(banners) \in Nat /\ Len(banners') = Len(banners) + 1
      /\ \A j \in 1 .. Len(banners) : banners'[j] = banners[j] /\ banners[j].at \in Nat
      /\ banners'[Len(banners) + 1]
           = [player |-> l.player, at |-> now, kind |-> "initial"]
      /\ \A j \in 1 .. Len(banners') : j \in 1 .. Len(banners) \/ j = Len(banners) + 1
  BY <1>1, BannerAdded
<1>6. \A j \in 1 .. Len(banners') : banners'[j].at <= now
  BY <1>1, <1>5 DEF NoticeInv
<1>7. ASSUME NEW k \in Inputs, MuteKey(k) \in DOMAIN mutes',
             NEW j \in 1 .. Len(banners'), banners'[j].player = k.player
      PROVE  banners'[j].at <= mutes'[MuteKey(k)].notified
  <2>1. CASE MuteKey(k) = MuteKey(l)
    BY <1>3, <1>4, <1>6, <1>7, <2>1
  <2>2. CASE MuteKey(k) # MuteKey(l)
    <3>1. k.player # l.player
      BY <2>2 DEF OwnKeys
    <3>2. j \in 1 .. Len(banners) /\ banners'[j] = banners[j]
      BY <1>5, <1>7, <3>1
    <3>3. MuteKey(k) \in DOMAIN mutes /\ mutes'[MuteKey(k)] = mutes[MuteKey(k)]
      BY <1>3, <1>4, <1>7, <2>2
    <3> QED
      BY <1>7, <3>2, <3>3 DEF NoticeInv
  <2> QED
    BY <2>1, <2>2
<1>8. ASSUME NEW j \in 1 .. Len(banners'), banners'[j].kind = "active",
             NEW i \in 1 .. j - 1, banners'[i].player = banners'[j].player
      PROVE  banners'[j].at >= banners'[i].at + NoticeGap
  <2>1. j \in 1 .. Len(banners)
    BY <1>5, <1>8
  <2>2. i \in 1 .. Len(banners) /\ banners'[i] = banners[i] /\ banners'[j] = banners[j]
    BY <1>5, <2>1
  <2> QED
    BY <1>8, <2>1, <2>2 DEF NoticeInv, NoticesSpaced
<1> QED
  BY <1>1, <1>6, <1>7, <1>8 DEF NoticeInv, NoticesSpaced

LEMMA NextNoticeInv ==
  ASSUME OwnKeys
  PROVE  TypeOK /\ NoticeInv /\ [Next]_vars => NoticeInv'
<1> SUFFICES ASSUME TypeOK, NoticeInv, [Next]_vars PROVE NoticeInv'
  OBVIOUS
<1>1. ASSUME NEW l \in Inputs, HandleHook(l) PROVE NoticeInv'
  <2>1. CASE MutedLine(l)
    BY <1>1, <2>1, MutedNoticeInv
  <2>2. CASE FilteredLine(l)
    BY <1>1, <2>2, FilteredNoticeInv
  <2>3. CASE ~MutedLine(l) /\ ~FilteredLine(l)
    <3>1. now' = now /\ banners' = banners
      BY <1>1, <2>3, HookKeeps
    <3>2. /\ DOMAIN mutes' \subseteq DOMAIN mutes
          /\ \A k \in DOMAIN mutes' : mutes'[k] = mutes[k]
      <4>1. mutes' = mutes \/ Sweep(l)
        BY <1>1, <2>3, HookKeeps
      <4> QED
        BY <4>1, NameTypes, SweptMutes DEF Sweep
    <3> QED
      BY <3>1, <3>2 DEF NoticeInv, NoticesSpaced
  <2> QED
    BY <2>1, <2>2, <2>3
<1>2. CASE FlushDeferred
  BY <1>2 DEF FlushDeferred, NoticeInv, NoticesSpaced
<1>3. CASE Tick
  <2>1. /\ now' = now + 1 /\ mutes' = mutes /\ banners' = banners /\ now \in Nat
    BY <1>3, NameTypes DEF Tick
  <2>2. \A j \in 1 .. Len(banners) : banners[j].at \in Nat
    <3>1. \A j \in 1 .. Len(banners) : banners[j] \in Notice
      BY NameTypes, ElementOfSeq
    <3> QED
      BY <3>1 DEF Notice
  <2>3. \A j \in 1 .. Len(banners) : banners[j].at <= now + 1
    BY <2>1, <2>2 DEF NoticeInv
  <2> QED
    BY <2>1, <2>3 DEF NoticeInv, NoticesSpaced
<1>4. CASE UNCHANGED vars
  BY <1>4 DEF vars, NoticeInv, NoticesSpaced
<1> QED
  BY <1>1, <1>2, <1>3, <1>4 DEF Next

LEMMA InitNoticeInv == Init => NoticeInv
BY DEF Init, NoticeInv, NoticesSpaced

(* NoticesSpaced: a player is not told more often than every 15 s that he  *)
(* is muted, also not when a new mute follows an old one.                  *)
THEOREM NoticesCorrect ==
  ASSUME OwnKeys
  PROVE  Spec => []NoticesSpaced
<1>1. NoticeInv => NoticesSpaced
  BY DEF NoticeInv
<1>2. TypeOK /\ NoticeInv /\ [Next]_vars => NoticeInv'
  BY NextNoticeInv
<1> QED
  BY <1>1, <1>2, InitTypeOK, NextTypeOK, InitNoticeInv, PTL DEF Spec

-----------------------------------------------------------------------------
(* What leaves the server                                                  *)

(* What the hook knew of a line when it let it out.                        *)
PublicInv ==
  \A n \in Numbers : lines[n].fate \in {"held", "sent"} =>
    /\ lines[n].line.category = "global"
    /\ ~IsCommand(lines[n].line) /\ ~FindMatch(lines[n].line)

LEMMA NextPublicInv == TypeOK /\ PublicInv /\ [Next]_vars => PublicInv'
<1> SUFFICES ASSUME TypeOK, PublicInv, [Next]_vars PROVE PublicInv'
  OBVIOUS
<1>1. ASSUME NEW l \in Inputs, HandleHook(l) PROVE PublicInv'
  <2>1. lines'[Number].fate \in {"held", "sent"} =>
          l.category = "global" /\ ~IsCommand(l) /\ ~FindMatch(l)
    BY <1>1, HookLines DEF HeldLine, SentLine, Relays, Public, Passes
  <2> QED
    BY <1>1, <2>1, OldLines DEF PublicInv
<1>2. CASE FlushDeferred
  BY <1>2 DEF FlushDeferred, PublicInv, Numbers
<1>3. CASE Tick
  BY <1>3 DEF Tick, PublicInv, Numbers
<1>4. CASE UNCHANGED vars
  BY <1>4 DEF vars, PublicInv, Numbers
<1> QED
  BY <1>1, <1>2, <1>3, <1>4 DEF Next

LEMMA OnlyPublic ==
  TypeOK /\ TwinInv /\ PlaceInv /\ FateInv /\ PublicInv => OnlyPublicChatLeaves
<1> SUFFICES ASSUME TypeOK, TwinInv, PlaceInv, FateInv, PublicInv,
                    NEW n \in Items(relayed) \cup Items(rebroadcast)
             PROVE  /\ lines[n].line.category = "global"
                    /\ ~IsCommand(lines[n].line) /\ ~FindMatch(lines[n].line)
                    /\ ~OwnMute(n)
  BY DEF OnlyPublicChatLeaves
<1>1. n \in Items(relayed)
  BY DEF TwinInv, Items
<1>2. n \in Numbers /\ lines[n].fate \in {"held", "sent"}
  BY <1>1 DEF PlaceInv, Due
<1>3. ~OwnMute(n)
  BY <1>2, SilencedIsOwnMute DEF FateInv
<1> QED
  BY <1>2, <1>3 DEF PublicInv

(* OnlyPublicChatLeaves: nothing that a player said to his guild or under  *)
(* a mute, no command and nothing filtered reaches the other servers or    *)
(* Discord, also not by way of the pending list.                           *)
THEOREM PublicCorrect ==
  ASSUME OwnKeys
  PROVE  Spec => []OnlyPublicChatLeaves
<1>1. Init => TwinInv /\ PublicInv
  BY DEF Init, TwinInv, PublicInv, Numbers
<1>2. TypeOK /\ HitInv /\ FateInv /\ [Next]_vars => HitInv' /\ FateInv'
  BY NextHitInv
<1> QED
  BY <1>1, <1>2, InitTypeOK, NextTypeOK, InitHitInv, NextTwinInv, InitPlaceInv, NextPlaceInv,
     NextPublicInv, OnlyPublic, PTL DEF Spec
=============================================================================
