------------------------------ MODULE PlatformId ------------------------------
(***************************************************************************)
(* Platform ids (src/PlatformId.cpp): the game writes the account of a     *)
(* player in several ways, and the roster, the mutes and the table of      *)
(* linked accounts need one.  A text is a sequence of characters, in which *)
(* the words that the code looks for count as one.                         *)
(***************************************************************************)
EXTENDS Naturals, Sequences

Space  == " "
Digits == {"0", "1", "2", "3", "4", "5", "6", "7", "8", "9"}
Known  == {"steam_", "gdk_", "ps5_"}
Steam  == {"Steam:", "steam:"}
Text   == Seq({Space, "x"} \cup Digits \cup Known \cup Steam)

(* Without the white space at both ends.                                   *)
Ink(raw) == {i \in 1 .. Len(raw) : raw[i] # Space}
Trimmed(raw) ==
  IF Ink(raw) = {} THEN <<>>
  ELSE LET first == CHOOSE i \in Ink(raw) : \A j \in Ink(raw) : i <= j
           last  == CHOOSE i \in Ink(raw) : \A j \in Ink(raw) : j <= i
       IN  SubSeq(raw, first, last)

IsDigits(s) == s # <<>> /\ \A i \in 1 .. Len(s) : s[i] \in Digits

(* The empty text means that the id is of no known kind.                   *)
NormalizePlatformUserId(raw) ==
  LET s == Trimmed(raw)
  IN  IF s # <<>> /\ s[1] \in Known THEN s
      ELSE IF s # <<>> /\ s[1] \in Steam /\ IsDigits(Tail(s)) THEN <<"steam_">> \o Tail(s)
      ELSE IF IsDigits(s) /\ Len(s) >= 15 THEN <<"steam_">> \o s
      ELSE <<>>

(* AccountName if it can be used, or else what the game makes of the       *)
(* player's net id, which is empty after a fault.                          *)
ResolvePlatformUserId(accountName, netId) ==
  IF NormalizePlatformUserId(accountName) # <<>> THEN NormalizePlatformUserId(accountName)
  ELSE NormalizePlatformUserId(netId)

IsXboxPlatform(id) == id # <<>> /\ id[1] = "gdk_"
=============================================================================
