------------------------------- MODULE Config -------------------------------
(***************************************************************************)
(* LoadConfig of src/Config.cpp, and what the constructor of WordFilter    *)
(* makes of the patterns.  A file is a record of what the code reads of    *)
(* config.json; a value that is absent or of the wrong type is <<>>, any   *)
(* other is <<value>>.  Numbers that do not fit an int, which the JSON     *)
(* library cuts, are left out, and so are the texts that only reach the    *)
(* format and the notices.                                                 *)
(***************************************************************************)
EXTENDS Integers, Sequences

(* The directory of the DLL and the file in it were found, opened, parsed; *)
(* and the top level is an object.                                         *)
Entry == [text : {"empty", "invalid", "regex"}, minutes : Seq(Int), wellTyped : BOOLEAN]
File  == [readable : BOOLEAN, object : BOOLEAN,
          origin : {"pal-na", "pal-eu", "other"}, mysql : BOOLEAN,
          poll : Seq(Int), batch : Seq(Int), broadcasts : Seq(Int), backoff : Seq(Int),
          port : Seq(Int), url : BOOLEAN,
          list : {"FilteredPatterns", "BlockedWords", "none"}, entries : Seq(Entry),
          legacyMinutes : Seq(Int)]

Disabled == [enabled |-> FALSE]

GetOr(value, fallback) == IF value = <<>> THEN fallback ELSE value[1]

AtLeast(least, n) == IF n < least THEN least ELSE n

(* The entries of either list that are of the right type and not empty.    *)
Patterns(file) ==
  LET minutes(entry) ==
        IF file.list = "FilteredPatterns" THEN GetOr(entry.minutes, 5)
        ELSE GetOr(file.legacyMinutes, 5)
      kept == SelectSeq(file.entries, LAMBDA e : e.wellTyped /\ e.text # "empty")
  IN  IF file.list = "none" THEN <<>>
      ELSE [i \in 1 .. Len(kept) |->
              [text |-> kept[i].text, minutes |-> AtLeast(0, minutes(kept[i]))]]

(* A file whose top level is no object is not caught: see Lifecycle.       *)
Throws(file) == file.readable /\ ~file.object

LoadConfig(file) ==
  IF ~file.readable \/ file.origin \notin {"pal-na", "pal-eu"} \/ ~file.mysql THEN Disabled
  ELSE LET port == GetOr(file.port, 3306)
       IN  [enabled |-> TRUE,
            poll_interval_ms |-> AtLeast(100, GetOr(file.poll, 750)),
            max_batch |-> AtLeast(1, GetOr(file.batch, 50)),
            max_broadcasts_per_tick |-> AtLeast(1, GetOr(file.broadcasts, 5)),
            reconnect_backoff_max_sec |-> AtLeast(1, GetOr(file.backoff, 30)),
            mysql_port |-> IF port <= 0 \/ port > 65535 THEN 3306 ELSE port,
            mute_log_webhook |-> file.url,
            filter_patterns |-> Patterns(file)]

(* WordFilter: a pattern that is no regular expression is skipped; Active. *)
Active(config) ==
  \E i \in 1 .. Len(config.filter_patterns) : config.filter_patterns[i].text = "regex"
=============================================================================
