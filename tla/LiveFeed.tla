------------------------------ MODULE LiveFeed ------------------------------
(***************************************************************************)
(* What a server is promised about the lines of the others: the abstract   *)
(* specification that DbWorker implements.                                 *)
(*                                                                         *)
(* The lines form one log that only grows.  While the feed is live it      *)
(* hands over every foreign line that is appended, each once, in order and *)
(* with none left out.  While it is not live, lines go by unseen, and they *)
(* are never made up for: "live-only; no catch-up".                        *)
(***************************************************************************)
EXTENDS Naturals, Sequences

VARIABLES
  log,  \* log[n]: line n comes from another server
  live, \* the feed is connected
  pos,  \* every line up to here has been handed over or passed by
  feed  \* the lines handed over

vars == <<log, live, pos, feed>>

Init == log = <<>> /\ live = FALSE /\ pos = 0 /\ feed = <<>>

(* A line is appended; nobody listens unless the feed is live.             *)
Publish(foreign) ==
  /\ log' = Append(log, foreign)
  /\ pos' = IF live THEN pos ELSE Len(log')
  /\ UNCHANGED <<live, feed>>

GoLive ==
  /\ ~live
  /\ live' = TRUE
  /\ UNCHANGED <<log, pos, feed>>

(* The next foreign line, and not a later one.                             *)
Deliver(n) ==
  /\ live
  /\ n > pos /\ log[n]
  /\ \A m \in pos + 1 .. n - 1 : ~log[m]
  /\ pos' = n
  /\ feed' = Append(feed, n)
  /\ UNCHANGED <<log, live>>

(* The feed breaks, perhaps while a line of this server is being appended. *)
Lose ==
  /\ live
  /\ live' = FALSE
  /\ log' \in {log, Append(log, FALSE)}
  /\ pos' = Len(log')
  /\ UNCHANGED feed

Next ==
  \/ \E foreign \in BOOLEAN : Publish(foreign)
  \/ GoLive
  \/ \E n \in 1 .. Len(log) : Deliver(n)
  \/ Lose

Spec == Init /\ [][Next]_vars
=============================================================================
