---------------------------- MODULE MessageText ----------------------------
(***************************************************************************)
(* The text of one chat line on its way from the player who types it to    *)
(* the players of another server: SanitizeMessage in the hook, the row in  *)
(* the table, the fixed buffer of poll_inbound, and SanitizeMessage again  *)
(* before it is shown; beside it, the copy that is rebroadcast locally.  A *)
(* row of the Discord bot (src/README.md) comes from a program not in the  *)
(* repository, and is as long as that program likes.                       *)
(*                                                                         *)
(* Bytes are told apart as far as the code does: a letter, white space, a  *)
(* control character (NUL among them), the first byte of a sequence of two *)
(* or three, and a continuation byte.  The template, the name and the      *)
(* guild it is shown with are chosen when it is shown.                     *)
(***************************************************************************)
EXTENDS ChatFormat

CONSTANTS
  MaxBytes,  \* 512: the limit of SanitizeMessage and the size of message_buf; a code
             \* point fits
  MaxRaw,    \* bound: bytes typed
  MaxPosted  \* bound: bytes of a row of the bot

ASSUME SizeAssumption == MaxBytes \in Nat \ 0 .. 2 /\ MaxRaw \in Nat /\ MaxPosted \in Nat

VARIABLES
  author, \* who has written it: a player, or the bot
  stage,  \* how far the line has come
  raw,    \* as the game, or the bot, has it
  text,   \* as the mod has it
  local,  \* as the players of the same server see it
  line    \* template, prefix, guild and player, and the two fields made of them

vars == <<author, stage, raw, text, local, line>>

-----------------------------------------------------------------------------
(* UTF-8                                                                   *)

Bytes == {"letter", "space", "control", "lead2", "lead3", "more"}

Size(byte) == IF byte = "lead2" THEN 2 ELSE IF byte = "lead3" THEN 3 ELSE 1

(* Every first byte has its continuation bytes, and there are no others.   *)
WellFormed(s) ==
  {i \in 1 .. Len(s) : s[i] = "more"}
    = UNION {i + 1 .. i + Size(s[i]) - 1 : i \in {i \in 1 .. Len(s) : s[i] # "more"}}

(* What the game and the table have is well formed.                        *)
Texts(n) == {s \in UNION {[1 .. k -> Bytes] : k \in 0 .. n} : WellFormed(s)}

-----------------------------------------------------------------------------
(* Sanitize.cpp                                                            *)

(* Mutant: only the front is trimmed.                                      *)
TrimFront(s) ==
  LET solid == {i \in 1 .. Len(s) : s[i] # "space"}
  IN  IF solid = {} THEN <<>> ELSE SubSeq(s, Min(solid), Len(s))

Trim(s) ==
  LET solid == {i \in 1 .. Len(s) : s[i] # "space"}
  IN  IF solid = {} THEN <<>> ELSE SubSeq(s, Min(solid), Max(solid))

(* The characters that are kept, from the left.                            *)
StripControl(s) ==
  LET out[n \in 0 .. Len(s)] ==
        IF n = 0 THEN <<>>
        ELSE IF s[n] = "control" THEN out[n - 1] ELSE Append(out[n - 1], s[n])
  IN  out[Len(s)]

StripControlAndTrim(s) == Trim(StripControl(s))

(* Mutant: the walk back looks at the last byte kept, not at the first     *)
(* byte cut.                                                               *)
TruncateAtLastKept(s, max) ==
  IF Len(s) <= max THEN s
  ELSE SubSeq(s, 1, Max({0} \cup {cut \in 1 .. max : s[cut] # "more"}))

TruncateUtf8(s, max) ==
  IF Len(s) <= max THEN s
  ELSE SubSeq(s, 1, Max({0} \cup {cut \in 1 .. max : s[cut + 1] # "more"}))

SanitizeMessage(s) == TruncateUtf8(StripControlAndTrim(s), MaxBytes)

-----------------------------------------------------------------------------
(* The way of a line                                                       *)

(* Bounds: the default template, the other that src/README.md recommends,  *)
(* none, and some that put {message}, {player} or a bracket in an odd      *)
(* place; a prefix and a guild that may be missing; and names with a pair  *)
(* of brackets, an empty pair, a space and two.                            *)
Templates ==
  { <<"[", "{prefix}", "]", "space", "[", "{guild}", "]", "space", "{player}", ":",
      "space", "{message}">>,
    <<"[", "{prefix}", "]", "[", "{guild}", "]", "[", "{player}", ":", "space", "{message}">>,
    <<>>,
    <<"[", "{guild}", "]", "space", "{player}">>,
    <<"[", "{player}", "space", "[", "{guild}", "]", ":", "{message}", "]">>,
    <<"[", "{guild}", "]", "{message}">>,
    <<"[", "{prefix}", "]", "{message}", "{player}">> }

Prefixes == {<<>>, <<"p">>}
Guilds   == {<<>>, <<"g", "space", "g">>}
Names    == {<<"n">>, <<"[", "n", "]">>, <<"n", "space", "n">>,
             <<"n", "[", "]">>, <<"n", "space", "space", "n">>}

NoLine == [template |-> <<>>, guild |-> <<>>, player |-> <<>>, sender |-> <<>>, text |-> <<>>]

Init ==
  /\ stage = "typed" /\ text = <<>> /\ local = <<>> /\ line = NoLine
  /\ \/ author = "player" /\ raw \in Texts(MaxRaw)
     \/ author = "bot" /\ raw \in Texts(MaxPosted)

(* HandleHook; BroadcastLocalTagged sanitizes its copy again.              *)
Capture ==
  /\ author = "player" /\ stage = "typed"
  /\ text' = SanitizeMessage(raw)
  /\ local' = SanitizeMessage(text')
  /\ stage' = IF text' = <<>> THEN "dropped" ELSE "stored"
  /\ UNCHANGED <<author, raw, line>>

(* The bot inserts the row as it is.                                       *)
Post ==
  /\ author = "bot" /\ stage = "typed"
  /\ text' = raw
  /\ stage' = "stored"
  /\ UNCHANGED <<author, raw, local, line>>

(* Mutant: two bytes of the buffer are not used.                           *)
BufferTooShort(s) ==
  [i \in 1 .. MaxBytes |-> IF i <= Len(s) /\ i < MaxBytes - 1 THEN s[i] ELSE "control"]

(* The row is fetched into a zeroed buffer that takes one byte less than   *)
(* its size.                                                               *)
BufferOf(s) == [i \in 1 .. MaxBytes |-> IF i <= Len(s) /\ i < MaxBytes THEN s[i] ELSE "control"]

(* The text is then as many bytes as the row is long, from the buffer on:  *)
(* that a row was cut (MYSQL_DATA_TRUNCATED) is no error, and for a row of *)
(* the bot that is longer than the buffer the last of them are what the    *)
(* stack has behind it.                                                    *)
Fetch ==
  /\ stage = "stored"
  /\ \E behind \in [1 .. Len(text) - MaxBytes -> Bytes] :
       text' = SubSeq(BufferOf(text) \o behind, 1, Len(text))
  /\ stage' = "fetched"
  /\ UNCHANGED <<author, raw, local, line>>

(* BroadcastOne, for a row of that player and guild.                       *)
Show(template, prefix, guild, player) ==
  /\ stage = "fetched"
  /\ text' = SanitizeMessage(text)
  /\ IF text' = <<>> THEN stage' = "dropped" /\ UNCHANGED line
     ELSE /\ stage' = "shown"
          /\ LET shown == ApplyChatFormat(template, prefix, guild, player, text')
             IN  line' = [template |-> template, guild |-> guild, player |-> player,
                          sender |-> shown.sender, text |-> shown.text]
  /\ UNCHANGED <<author, raw, local>>

Next ==
  \/ Capture \/ Post \/ Fetch
  \/ \E t \in Templates, x \in Prefixes, g \in Guilds, p \in Names : Show(t, x, g, p)

Spec == Init /\ [][Next]_vars

-----------------------------------------------------------------------------
(* Properties                                                              *)

(* What is in a text, in one piece.                                        *)
Holds(s, part) == \E i \in 1 .. Len(s) : IsAt(s, part, i)

(* The cleanup of a sender takes nothing from this name.                   *)
Plain(name) ==
  \A part \in {<<"[", "]">>, <<"[", "space", "]">>, <<"space", "space">>} : ~Holds(name, part)

(* With each of the templates, the line that is shown has the whole        *)
(* message, and a sender that is not empty.  For a name that the cleanup   *)
(* leaves alone, the sender names the player, if there is no template or   *)
(* one that has {player} before {message} (what comes after {message} is   *)
(* ignored), and has no brackets around a guild he does not have           *)
(* (src/README.md, ChatFormat).  The game writes the first "[" of the      *)
(* sender.                                                                 *)
ShownLineIsWhole ==
  stage = "shown" =>
    /\ line.text \in {text, <<"space">> \o text}
    /\ line.sender # <<>>
    /\ Plain(line.player) =>
         /\ line.template = <<>> \/ Holds(Before(line.template), <<"{player}">>)
              => Holds(<<"[">> \o line.sender, line.player)
         /\ line.guild = <<>> => ~Holds(line.sender, <<"[", "]">>)
                                 /\ ~Holds(line.sender, <<"[", "space", "]">>)

(* TruncateUtf8 keeps as many whole code points as fit, whatever the limit *)
(* (Sanitize.h: "never split a multibyte seq").                            *)
TruncateKeepsWholePrefix ==
  stage = "typed" =>
    \A max \in 0 .. MaxRaw :
      LET kept == TruncateUtf8(raw, max)
      IN  /\ kept = SubSeq(raw, 1, Len(kept)) /\ Len(kept) <= max /\ WellFormed(kept)
          /\ \A n \in Len(kept) + 1 .. max :
               n <= Len(raw) => ~WellFormed(SubSeq(raw, 1, n))

(* What a hook puts into the table is whole, visible text that neither     *)
(* begins nor (unless it was cut) ends in white space.  A line is dropped  *)
(* only if it has nothing else; one of the bot that is not shorter than the *)
(* limit may be dropped for what the buffer does not keep of it.           *)
StoredTextIsClean ==
  /\ author = "player" /\ stage = "stored" =>
       /\ WellFormed(text) /\ \A i \in 1 .. Len(text) : text[i] # "control"
       /\ text[1] # "space"
       /\ text[Len(text)] = "space" => Len(StripControlAndTrim(raw)) > MaxBytes
  /\ stage = "dropped" /\ (author = "player" \/ Len(raw) < MaxBytes) =>
       \A i \in 1 .. Len(raw) : raw[i] \in {"space", "control"}

(* A line shorter than the limit is the same text on every server: cleaned *)
(* as it was typed, or as the bot wrote it.  For the bot the whole row has *)
(* to be shorter, white space included.                                    *)
SameTextEverywhere ==
  stage = "shown" =>
    /\ author = "player" /\ Len(StripControlAndTrim(raw)) < MaxBytes =>
         text = local /\ text = StripControlAndTrim(raw)
    /\ author = "bot" /\ Len(raw) < MaxBytes => text = StripControlAndTrim(raw)

(* No server shows part of a code point (Sanitize.h), at the limit too:    *)
(* what the fixed buffer of poll_inbound does not keep.                    *)
NoSplitCodePoint == stage = "shown" => WellFormed(text)
=============================================================================
