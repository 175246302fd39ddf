----------------------------- MODULE ChatFormat -----------------------------
(***************************************************************************)
(* ApplyChatFormat of src/ChatFormat.cpp: how a line is divided between    *)
(* the two fields of Palworld's own "[Sender]:Message".  A text is a       *)
(* sequence of characters, told apart as far as the code does ("[", "]",   *)
(* ":", "space" and others); a placeholder of the template is one symbol.  *)
(***************************************************************************)
EXTENDS Naturals, Sequences, FiniteSetsExt

IsAt(text, part, i) ==
  i + Len(part) - 1 <= Len(text) /\ SubSeq(text, i, i + Len(part) - 1) = part

(* Every occurrence, from the left; what is put in is not read again.      *)
ReplaceAll(text, from, to) ==
  LET rest[i \in 1 .. Len(text) + 1] ==
        IF i > Len(text) THEN <<>>
        ELSE IF IsAt(text, from, i) THEN to \o rest[i + Len(from)]
        ELSE <<text[i]>> \o rest[i + 1]
  IN  rest[1]

(* Runs of spaces become one, and there is none at either end.             *)
CollapseSpaces(text) ==
  LET kept  == {i \in 1 .. Len(text) : text[i] = "space" => i > 1 /\ text[i - 1] # "space"}
      solid == {i \in kept : text[i] # "space"}
      out[i \in 0 .. Len(text)] ==
        IF i = 0 THEN <<>>
        ELSE IF i \in kept /\ i <= Max({0} \cup solid) THEN Append(out[i - 1], text[i])
        ELSE out[i - 1]
  IN  out[Len(text)]

(* Brackets around a guild that is empty, and the spaces they leave.       *)
CleanupEmptyGuildBrackets(text) ==
  LET a == ReplaceAll(text, <<"space", "[", "]">>, <<"space">>)
      b == ReplaceAll(a, <<"[", "]", "space">>, <<"space">>)
      c == ReplaceAll(b, <<"[", "]">>, <<>>)
      d == ReplaceAll(c, <<"[", "space", "]">>, <<>>)
  IN  CollapseSpaces(d)

(* Without a template: the prefix and the name.                            *)
Unformatted(prefix, player) ==
  prefix \o (IF prefix # <<>> /\ player # <<>> THEN <<"space">> ELSE <<>>) \o player

OrUnknown(sender) == IF sender = <<>> THEN <<"Unknown">> ELSE sender

(* What the template has before the first {message}; all of it if there is *)
(* none.                                                                   *)
Before(format) ==
  LET places == {i \in 1 .. Len(format) : format[i] = "{message}"}
  IN  IF places = {} THEN format ELSE SubSeq(format, 1, Min(places) - 1)

HasMessage(format) == \E i \in 1 .. Len(format) : format[i] = "{message}"

EndsIn(text, part) == Len(text) >= Len(part) /\ IsAt(text, part, Len(text) - Len(part) + 1)
WithoutLast(text, n) == SubSeq(text, 1, Len(text) - n)

(* The colon before {message} is left to the game, the space after it goes *)
(* over to the message.                                                    *)
SenderPart(format) ==
  LET before == Before(format)
  IN  IF ~HasMessage(format) THEN format
      ELSE IF EndsIn(before, <<":", "space">>) THEN WithoutLast(before, 2)
      ELSE IF EndsIn(before, <<":">>) THEN WithoutLast(before, 1)
      ELSE before

MessagePart(format, message) ==
  IF HasMessage(format) /\ EndsIn(Before(format), <<":", "space">>)
     /\ message # <<>> /\ message[1] # "space"
  THEN <<"space">> \o message ELSE message

Filled(part, prefix, guild, player) ==
  ReplaceAll(ReplaceAll(ReplaceAll(part, <<"{prefix}">>, prefix), <<"{guild}">>, guild),
             <<"{player}">>, player)

(* Mutant: cleaned before it is filled.                                    *)
FilledAfterCleanup(part, prefix, guild, player) ==
  Filled(CleanupEmptyGuildBrackets(part), prefix, guild, player)

CleanSender(part, prefix, guild, player) ==
  CleanupEmptyGuildBrackets(Filled(part, prefix, guild, player))

(* The game writes the first bracket itself.                               *)
WithoutBracket(sender) == IF IsAt(sender, <<"[">>, 1) THEN Tail(sender) ELSE sender

ApplyChatFormat(format, prefix, guild, player, message) ==
  IF format = <<>>
  THEN [sender |-> OrUnknown(Unformatted(prefix, player)), text |-> message]
  ELSE LET sender == WithoutBracket(CleanSender(SenderPart(format), prefix, guild, player))
       IN  [sender |-> IF sender = <<>> THEN OrUnknown(player) ELSE sender,
            text   |-> MessagePart(format, message)]

(* To Xbox players: the name and the message as they are.                  *)
ApplyChatFormatAttributed(player, message) ==
  [sender |-> OrUnknown(player), text |-> message]
=============================================================================
