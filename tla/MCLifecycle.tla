---------------------------- MODULE MCLifecycle ----------------------------
(* Files for TLC: a complete one, and those that differ from it in one way *)
(* that the code tells apart.                                              *)
EXTENDS Lifecycle

Pattern(text) == [text |-> text, minutes |-> <<-1>>, wellTyped |-> TRUE]

Complete ==
  [readable |-> TRUE, object |-> TRUE, origin |-> "pal-eu", mysql |-> TRUE,
   poll |-> <<>>, batch |-> <<0>>, broadcasts |-> <<2>>, backoff |-> <<-1>>,
   port |-> <<70000>>, url |-> TRUE, list |-> "FilteredPatterns",
   entries |-> <<Pattern("regex")>>, legacyMinutes |-> <<>>]

MCFiles ==
  { Complete,
    [Complete EXCEPT !.readable = FALSE], [Complete EXCEPT !.object = FALSE],
    [Complete EXCEPT !.origin = "other"], [Complete EXCEPT !.mysql = FALSE],
    [Complete EXCEPT !.url = FALSE], [Complete EXCEPT !.list = "none"],
    [Complete EXCEPT !.list = "BlockedWords"],
    [Complete EXCEPT !.entries = <<Pattern("invalid"), Pattern("regex")>>],
    [Complete EXCEPT !.entries = <<Pattern("empty"), Pattern("invalid")>>] }
=============================================================================
