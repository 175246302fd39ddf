------------------------------ MODULE DbWorker ------------------------------
(***************************************************************************)
(* The chat relay of one game server: the database worker thread of        *)
(* src/DbWorker.cpp, the two queues it shares with the game thread, and    *)
(* the MySQL tables it shares with the other servers and the Discord bot.  *)
(*                                                                         *)
(* The worker is a sequential program; pc names the place it has reached   *)
(* in ThreadMain, and a step runs from one point where others can notice   *)
(* the worker (a statement sent to MySQL, a queue operation, a sleep) to   *)
(* the next.  Any statement may fail, and a failed write may or may not    *)
(* have been committed: the 5 second read timeout gives up on an answer    *)
(* that is merely late.  The Discord link jobs that the same loop drains   *)
(* are in DiscordLink.tla; they change none of the state below.            *)
(***************************************************************************)
EXTENDS Integers, FiniteSets, Sequences, BoundedQueue

CONSTANTS
  ServerOrigin, \* origin column of the rows this server writes
  Peers,        \* origins of the rows the others write
  QueueMax,     \* kQueueMax
  MaxBatch,     \* max_batch, the LIMIT of the poll
  BackoffCap,   \* reconnect_backoff_max_sec
  Refused,      \* lines that MySQL rejects every time
  MaxLines,     \* bound: lines the game thread relays
  MaxForeign,   \* bound: the others insert while the table is shorter
  MaxOpen,      \* bound: inserts that hold an id and are not committed yet
  MaxFaults,    \* bound: failed connects, statements and fetches
  MaxRestarts   \* bound: restarts of the game server process

ASSUME OriginAssumption  == ServerOrigin \notin Peers
ASSUME QueueAssumption   == QueueMax \in Nat \ {0}
ASSUME BatchAssumption   == MaxBatch \in Nat \ {0}
ASSUME BackoffAssumption == BackoffCap \in Nat \ {0}
ASSUME RefusedAssumption == Refused \subseteq 1 .. MaxLines
ASSUME BoundAssumption   == /\ MaxLines \in Nat /\ MaxForeign \in Nat
                            /\ MaxOpen \in Nat /\ MaxFaults \in Nat
                            /\ MaxRestarts \in Nat

VARIABLES
  pc,          \* where ThreadMain is
  stop,        \* the stop_token has been triggered
  handle,      \* conn: "none", "open" (m_mysql set), "prepared" (and statements)
  connected,   \* m_connected
  cursorReady, \* cursor_ready
  cursorId,    \* m_cursor_id
  backoff,     \* backoff_sec
  pollDue,     \* poll_interval_ms have passed since last_poll
  maxId,       \* max_id of init_cursor
  held,        \* the item popped from m_outbound, 0 when there is none
  batch,       \* ids of the rows in the stored result not fetched yet
  rowId,       \* id of the row pushed last
  outbound,    \* m_outbound, lines by number
  inbound,     \* m_inbound, rows by id
  rows,        \* crosschat_messages, by id
  cursorRow,   \* last_id of this consumer in crosschat_cursors
  relayed,     \* lines the game thread has relayed; line n is the n-th
  faults,      \* faults so far
  restarts,    \* restarts so far
  \* What has happened, for the properties only.
  pushed,      \* every id ever pushed to m_inbound, in order
  owed,        \* rows committed while the feed was live, to be pushed yet
  dropped,     \* lines a full m_outbound has discarded
  abandoned,   \* lines that were in memory when the process ended
  requeued,    \* lines pushed back after a failed INSERT
  unacked      \* those of them whose INSERT had been committed

conn  == <<handle, connected, cursorReady>>
local == <<maxId, held, batch, rowId>>
queue == <<outbound, inbound>>
db    == <<rows, cursorRow>>
loss  == <<dropped, abandoned, requeued, unacked>>
vars  == <<pc, stop, conn, cursorId, backoff, pollDue, local, queue, db,
           relayed, faults, restarts, pushed, owed, loss>>

-----------------------------------------------------------------------------
(* The tables.                                                             *)

Origins == {ServerOrigin} \cup Peers
Row     == [origin : Origins, line : Nat, committed : BOOLEAN]

Visible == {id \in 1 .. Len(rows) : rows[id].committed}
Foreign == {id \in Visible : rows[id].origin # ServerOrigin}
OwnRows == {id \in 1 .. Len(rows) : rows[id].origin = ServerOrigin}
Open    == {id \in 1 .. Len(rows) : ~rows[id].committed}

(* Mutants: resume from the saved cursor; count the rows.                  *)
IsSavedCursor(id) == id = cursorRow
IsRowCount(id) == id = Cardinality(Visible)

(* SELECT COALESCE(MAX(id), 0)                                             *)
IsMaxId(id) == /\ id \in Visible \cup {0}
               /\ \A v \in Visible : v <= id

(* WHERE id > cursor AND origin != ServerOrigin ORDER BY id LIMIT MaxBatch *)
Selectable == {id \in Foreign : id > cursorId}
IsBatch(b) == /\ b \subseteq Selectable
              /\ \A id \in b, other \in Selectable \ b : id < other
              /\ Cardinality(b) <= MaxBatch
              /\ b = Selectable \/ Cardinality(b) = MaxBatch

(* The rows are wanted from the moment the worker has read MAX(id).        *)
Live == cursorReady \/ pc = "upsert"

-----------------------------------------------------------------------------
(* A process starts with empty queues and no connection; the tables stay.  *)
Fresh ==
  /\ pc' = "new" /\ stop' = FALSE
  /\ handle' = "none" /\ connected' = FALSE /\ cursorReady' = FALSE
  /\ cursorId' = -1 /\ backoff' = 1 /\ pollDue' = TRUE
  /\ maxId' = 0 /\ held' = 0 /\ batch' = {} /\ rowId' = 0
  /\ outbound' = <<>> /\ inbound' = <<>>

Init ==
  /\ pc = "new" /\ stop = FALSE
  /\ handle = "none" /\ connected = FALSE /\ cursorReady = FALSE
  /\ cursorId = -1 /\ backoff = 1 /\ pollDue = TRUE
  /\ maxId = 0 /\ held = 0 /\ batch = {} /\ rowId = 0
  /\ outbound = <<>> /\ inbound = <<>>
  /\ rows = <<>> /\ cursorRow = 0
  /\ relayed = 0 /\ faults = 0 /\ restarts = 0
  /\ pushed = <<>> /\ owed = {}
  /\ dropped = {} /\ abandoned = {} /\ requeued = {} /\ unacked = {}

(* Something goes wrong now; the bound makes the trouble end.              *)
Fault == faults < MaxFaults /\ faults' = faults + 1

(* Mutant: cursor_ready survives the connection.                           *)
MarkFailureKeepsCursor ==
  /\ connected' = FALSE /\ cursorReady' = cursorReady /\ handle' = "none"
  /\ owed' = {}
  /\ pc' = "backoff"

(* mark_failure, then the sleep at the end of the pass.                    *)
MarkFailure ==
  /\ connected' = FALSE /\ cursorReady' = FALSE /\ handle' = "none"
  /\ owed' = {}
  /\ pc' = "backoff"

-----------------------------------------------------------------------------
(* ensure_connected                                                        *)

(* An established connection is trusted, never tested.                     *)
AlreadyConnected ==
  /\ pc = "top" /\ ~stop
  /\ handle # "none" /\ connected
  /\ pc' = IF cursorReady THEN "drain" ELSE "max"
  /\ UNCHANGED <<stop, conn, cursorId, backoff, pollDue, local, queue, db,
                 relayed, faults, restarts, pushed, owed, loss>>

Connect ==
  /\ pc = "top" /\ ~stop
  /\ handle = "none" \/ ~connected
  /\ handle' = "prepared" /\ connected' = TRUE
  /\ backoff' = 1
  /\ pc' = IF cursorReady THEN "drain" ELSE "max"
  /\ UNCHANGED <<stop, cursorReady, cursorId, pollDue, local, queue, db,
                 relayed, faults, restarts, pushed, owed, loss>>

(* No connection (m_mysql keeps the failed handle), or no statements: a    *)
(* missing table or column makes PrepareStatements fail and Close run.     *)
ConnectFails ==
  /\ pc = "top" /\ ~stop
  /\ handle = "none" \/ ~connected
  /\ Fault
  /\ handle' \in {"open", "none"}
  /\ connected' = FALSE /\ cursorReady' = FALSE
  /\ pc' = "backoff"
  /\ UNCHANGED <<stop, cursorId, backoff, pollDue, local, queue, db,
                 relayed, restarts, pushed, owed, loss>>

Doubled == IF backoff * 2 < BackoffCap THEN backoff * 2 ELSE BackoffCap

(* Where a SleepInterruptible of the loop leads.                           *)
AfterSleep == IF stop THEN "exit" ELSE "top"

(* SleepInterruptible(backoff_sec), then double up to the cap.             *)
BackOff ==
  /\ pc = "backoff"
  /\ pc' = AfterSleep
  /\ backoff' = IF stop THEN backoff ELSE Doubled
  /\ UNCHANGED <<stop, conn, cursorId, pollDue, local, queue, db,
                 relayed, faults, restarts, pushed, owed, loss>>

-----------------------------------------------------------------------------
(* init_cursor                                                             *)

SelectMaxId ==
  /\ pc = "max"
  /\ \E id \in 0 .. Len(rows) : IsMaxId(id) /\ maxId' = id
  /\ pc' = "upsert"
  /\ UNCHANGED <<stop, conn, cursorId, backoff, pollDue, held, batch, rowId,
                 queue, db, relayed, faults, restarts, pushed, owed, loss>>

SelectMaxIdFails ==
  /\ pc = "max"
  /\ Fault
  /\ MarkFailure
  /\ UNCHANGED <<stop, cursorId, backoff, pollDue, local, queue, db,
                 relayed, restarts, pushed, loss>>

SetCursor == cursorRow' = maxId /\ cursorId' = maxId

InitCursor ==
  /\ pc = "upsert"
  /\ SetCursor
  /\ cursorReady' = TRUE
  /\ pc' = "drain"
  /\ UNCHANGED <<stop, handle, connected, backoff, pollDue, local, queue, rows,
                 relayed, faults, restarts, pushed, owed, loss>>

InitCursorFails ==
  /\ pc = "upsert"
  /\ Fault
  /\ cursorRow' \in {cursorRow, maxId}
  /\ MarkFailure
  /\ UNCHANGED <<stop, cursorId, backoff, pollDue, local, queue, rows,
                 relayed, restarts, pushed, loss>>

-----------------------------------------------------------------------------
(* The outbound drain and insert_outbound                                  *)

(* Mutants: the newest item first; the item stays in the queue.            *)
PopNewest == /\ held' = outbound[Len(outbound)]
             /\ outbound' = SubSeq(outbound, 1, Len(outbound) - 1)
PopNothing == held' = Head(outbound) /\ UNCHANGED outbound

PopOutbound == held' = Head(outbound) /\ outbound' = Tail(outbound)

TakeOutbound ==
  /\ pc = "drain" /\ ~stop
  /\ CanPop(outbound)
  /\ PopOutbound
  /\ pc' = "insert"
  /\ UNCHANGED <<stop, conn, cursorId, backoff, pollDue, maxId, batch, rowId,
                 inbound, db, relayed, faults, restarts, pushed, owed, loss>>

(* Mutant: the drain ends only when the queue is empty.                    *)
DrainEndsEmpty == ~CanPop(outbound)

(* A stop request leaves the rest of the queue where it is.                *)
DrainEnds == stop \/ ~CanPop(outbound)

DrainDone ==
  /\ pc = "drain"
  /\ DrainEnds
  /\ pc' = "poll"
  /\ UNCHANGED <<stop, conn, cursorId, backoff, pollDue, local, queue, db,
                 relayed, faults, restarts, pushed, owed, loss>>

OwnRow(line) == [origin |-> ServerOrigin, line |-> line, committed |-> TRUE]

Insert ==
  /\ pc = "insert" /\ held \notin Refused
  /\ rows' = Append(rows, OwnRow(held))
  /\ held' = 0
  /\ pc' = "drain"
  /\ UNCHANGED <<stop, conn, cursorId, backoff, pollDue, maxId, batch, rowId, queue,
                 cursorRow, relayed, faults, restarts, pushed, owed, loss>>

(* Mutant: the line of a failed INSERT is forgotten.                       *)
RequeueNothing(line) ==
  /\ requeued' = requeued \cup {line}
  /\ UNCHANGED <<outbound, dropped>>

(* Mutant: it goes to the front.                                           *)
RequeueInFront(line) ==
  /\ outbound' = <<line>> \o Room(outbound, QueueMax)
  /\ dropped' = dropped \cup Dropped(outbound, QueueMax)
  /\ requeued' = requeued \cup {line}

Requeue(line) ==
  /\ outbound' = Push(outbound, line, QueueMax)
  /\ dropped' = dropped \cup Dropped(outbound, QueueMax)
  /\ requeued' = requeued \cup {line}

(* The server may have committed the row all the same, or be about to. The *)
(* line goes back to the end of the queue, behind what the game thread has *)
(* pushed meanwhile, and pushes out the oldest if the queue is full.       *)
InsertFails(line) ==
  /\ pc = "insert" /\ line = held /\ line \notin Refused
  /\ Fault
  /\ \/ UNCHANGED <<rows, unacked>>
     \/ /\ rows' = Append(rows, OwnRow(line))
        /\ unacked' = unacked \cup {line}
     \/ /\ Cardinality(Open) < MaxOpen
        /\ rows' = Append(rows, [OwnRow(line) EXCEPT !.committed = FALSE])
        /\ unacked' = unacked \cup {line}
  /\ Requeue(line)
  /\ held' = 0
  /\ MarkFailure
  /\ UNCHANGED <<stop, cursorId, backoff, pollDue, maxId, batch, rowId, inbound,
                 cursorRow, relayed, restarts, pushed, abandoned>>

(* A line that the table does not accept fails like that every time, and   *)
(* takes the connection with it.                                           *)
InsertRefused(line) ==
  /\ pc = "insert" /\ line = held /\ line \in Refused
  /\ Requeue(line)
  /\ held' = 0
  /\ MarkFailure
  /\ UNCHANGED <<stop, cursorId, backoff, pollDue, maxId, batch, rowId, inbound, db,
                 relayed, faults, restarts, pushed, abandoned, unacked>>

-----------------------------------------------------------------------------
(* poll_inbound and update_cursor                                          *)

(* Mutant: the test of the poll interval is the wrong way round.           *)
PollTooSoon == IF pollDue THEN "nap" ELSE "select"

PollPlace == IF pollDue THEN "select" ELSE "nap"

PollOrNap ==
  /\ pc = "poll"
  /\ pc' = PollPlace
  /\ UNCHANGED <<stop, conn, cursorId, backoff, pollDue, local, queue, db,
                 relayed, faults, restarts, pushed, owed, loss>>

(* The result is stored on the client: later commits do not reach it.      *)
Select ==
  /\ pc = "select"
  /\ \E b \in SUBSET Selectable : IsBatch(b) /\ batch' = b
  /\ pc' = "fetch"
  /\ UNCHANGED <<stop, conn, cursorId, backoff, pollDue, maxId, held, rowId,
                 queue, db, relayed, faults, restarts, pushed, owed, loss>>

(* The row is in the inbound queue before the cursor moves past it.        *)
FetchRow(id) ==
  /\ pc = "fetch"
  /\ id \in batch /\ \A other \in batch : id <= other
  /\ batch' = batch \ {id}
  /\ rowId' = id
  /\ inbound' = Push(inbound, id, QueueMax)
  /\ pushed' = Append(pushed, id)
  /\ owed' = owed \ {id}
  /\ pc' = "ack"
  /\ UNCHANGED <<stop, conn, cursorId, backoff, pollDue, maxId, held, outbound, db,
                 relayed, faults, restarts, loss>>

UpdateCursor ==
  /\ pc = "ack"
  /\ cursorRow' = rowId
  /\ cursorId' = rowId
  /\ pc' = "fetch"
  /\ UNCHANGED <<stop, conn, backoff, pollDue, local, queue, rows,
                 relayed, faults, restarts, pushed, owed, loss>>

(* m_cursor_id keeps its value even if the table has the new one.          *)
UpdateCursorFails ==
  /\ pc = "ack"
  /\ Fault
  /\ cursorRow' \in {cursorRow, rowId}
  /\ batch' = {}
  /\ MarkFailure
  /\ UNCHANGED <<stop, cursorId, backoff, pollDue, maxId, held, rowId, queue, rows,
                 relayed, restarts, pushed, loss>>

PollDone ==
  /\ pc = "fetch" /\ batch = {}
  /\ pollDue' = FALSE
  /\ pc' = "nap"
  /\ UNCHANGED <<stop, conn, cursorId, backoff, local, queue, db,
                 relayed, faults, restarts, pushed, owed, loss>>

PollFails ==
  /\ pc \in {"select", "fetch"}
  /\ Fault
  /\ batch' = {}
  /\ MarkFailure
  /\ UNCHANGED <<stop, cursorId, backoff, pollDue, maxId, held, rowId, queue, db,
                 relayed, restarts, pushed, loss>>

(* The 50 ms sleep at the end of a good pass.                              *)
Nap ==
  /\ pc = "nap"
  /\ pc' = AfterSleep
  /\ UNCHANGED <<stop, conn, cursorId, backoff, pollDue, local, queue, db,
                 relayed, faults, restarts, pushed, owed, loss>>

-----------------------------------------------------------------------------
(* The end of ThreadMain                                                   *)

SeeStop ==
  /\ pc = "top" /\ stop
  /\ pc' = "exit"
  /\ UNCHANGED <<stop, conn, cursorId, backoff, pollDue, local, queue, db,
                 relayed, faults, restarts, pushed, owed, loss>>

Exit ==
  /\ pc = "exit"
  /\ handle' = "none" /\ connected' = FALSE /\ cursorReady' = FALSE
  /\ owed' = {}
  /\ pc' = "done"
  /\ UNCHANGED <<stop, cursorId, backoff, pollDue, local, queue, db,
                 relayed, faults, restarts, pushed, loss>>

Worker ==
  \/ AlreadyConnected \/ Connect \/ ConnectFails \/ BackOff
  \/ SelectMaxId \/ SelectMaxIdFails \/ InitCursor \/ InitCursorFails
  \/ TakeOutbound \/ DrainDone \/ Insert
  \/ \E line \in 1 .. MaxLines : InsertFails(line) \/ InsertRefused(line)
  \/ PollOrNap \/ Select
  \/ \E id \in batch : FetchRow(id)
  \/ UpdateCursor \/ UpdateCursorFails \/ PollDone \/ PollFails
  \/ Nap \/ SeeStop \/ Exit

-----------------------------------------------------------------------------
(* The game thread.  The hooks and on_update run until the destructor      *)
(* blocks in Stop, so not once stop is set.                                *)

Start ==
  /\ pc = "new"
  /\ pc' = "top"
  /\ UNCHANGED <<stop, conn, cursorId, backoff, pollDue, local, queue, db,
                 relayed, faults, restarts, pushed, owed, loss>>

(* request_stop; the join is the wait for pc = "done".                     *)
Stop ==
  /\ pc # "new" /\ ~stop
  /\ stop' = TRUE
  /\ UNCHANGED <<pc, conn, cursorId, backoff, pollDue, local, queue, db,
                 relayed, faults, restarts, pushed, owed, loss>>

RelayLine ==
  /\ pc # "new" /\ ~stop
  /\ relayed < MaxLines
  /\ relayed' = relayed + 1
  /\ outbound' = Push(outbound, relayed + 1, QueueMax)
  /\ dropped' = dropped \cup Dropped(outbound, QueueMax)
  /\ UNCHANGED <<pc, stop, conn, cursorId, backoff, pollDue, local, inbound, db,
                 faults, restarts, pushed, owed, abandoned, requeued, unacked>>

TakeInbound ==
  /\ ~stop
  /\ CanPop(inbound)
  /\ inbound' = Tail(inbound)
  /\ UNCHANGED <<pc, stop, conn, cursorId, backoff, pollDue, local, outbound, db,
                 relayed, faults, restarts, pushed, owed, loss>>

(* The process dies, or has stopped, and is started again.                 *)
Restart ==
  /\ pc # "new"
  /\ restarts < MaxRestarts
  /\ restarts' = restarts + 1
  /\ Fresh
  /\ abandoned' = abandoned \cup Items(outbound) \cup ({held} \ {0})
  /\ owed' = {}
  /\ UNCHANGED <<db, relayed, faults, pushed, dropped, requeued, unacked>>

-----------------------------------------------------------------------------
(* The others that write crosschat_messages: the second server, the bot.   *)

PeerRow(peer, committed) == [origin |-> peer, line |-> 0, committed |-> committed]

(* A row that gets its id and is visible at once.                          *)
PeerInsert(peer) ==
  /\ Len(rows) < MaxForeign
  /\ rows' = Append(rows, PeerRow(peer, TRUE))
  /\ owed' = IF Live THEN owed \cup {Len(rows) + 1} ELSE owed
  /\ UNCHANGED <<pc, stop, conn, cursorId, backoff, pollDue, local, queue, cursorRow,
                 relayed, faults, restarts, pushed, loss>>

(* An id is taken when the INSERT runs, and seen when it commits: rows may *)
(* appear in another order than their ids.                                 *)
PeerTakeId(peer) ==
  /\ Len(rows) < MaxForeign
  /\ Cardinality(Open) < MaxOpen
  /\ rows' = Append(rows, PeerRow(peer, FALSE))
  /\ UNCHANGED <<pc, stop, conn, cursorId, backoff, pollDue, local, queue, cursorRow,
                 relayed, faults, restarts, pushed, owed, loss>>

Commit(id) ==
  /\ rows' = [rows EXCEPT ![id].committed = TRUE]
  /\ owed' = IF Live /\ rows[id].origin # ServerOrigin THEN owed \cup {id} ELSE owed
  /\ UNCHANGED <<pc, stop, conn, cursorId, backoff, pollDue, local, queue, cursorRow,
                 relayed, faults, restarts, pushed, loss>>

(* steady_clock reaches last_poll + poll_interval_ms.                      *)
PollTimer ==
  /\ ~pollDue
  /\ pollDue' = TRUE
  /\ UNCHANGED <<pc, stop, conn, cursorId, backoff, local, queue, db,
                 relayed, faults, restarts, pushed, owed, loss>>

Environment ==
  \/ Start \/ Stop \/ RelayLine \/ TakeInbound \/ Restart
  \/ \E peer \in Peers : PeerInsert(peer) \/ PeerTakeId(peer)
  \/ \E id \in Open : Commit(id)
  \/ PollTimer

Next == Worker \/ Environment

Spec == Init /\ [][Next]_vars

(* The operating system runs the worker thread and the clock advances. The *)
(* game thread and the other servers owe nothing.                          *)
FairSpec == Spec /\ WF_vars(Worker) /\ WF_vars(PollTimer)

-----------------------------------------------------------------------------
(* Properties                                                              *)

PcValues == {"new", "top", "max", "upsert", "drain", "insert", "poll", "select",
             "fetch", "ack", "nap", "backoff", "exit", "done"}
Ids      == 1 .. Len(rows)
Lines    == 1 .. relayed

ControlTypeOK ==
  /\ pc \in PcValues /\ stop \in BOOLEAN
  /\ handle \in {"none", "open", "prepared"}
  /\ connected \in BOOLEAN /\ cursorReady \in BOOLEAN
  /\ pollDue \in BOOLEAN
DataTypeOK ==
  /\ cursorId \in Int /\ backoff \in 1 .. BackoffCap
  /\ maxId \in Nat /\ held \in 0 .. MaxLines
  /\ batch \subseteq Nat /\ rowId \in Nat
  /\ outbound \in Seq(1 .. MaxLines) /\ Len(outbound) <= QueueMax
  /\ inbound \in Seq(Nat) /\ Len(inbound) <= QueueMax
  /\ rows \in Seq(Row) /\ cursorRow \in Nat
HistoryTypeOK ==
  /\ relayed \in 0 .. MaxLines /\ faults \in 0 .. MaxFaults
  /\ restarts \in 0 .. MaxRestarts
  /\ pushed \in Seq(Nat) /\ owed \subseteq Nat
  /\ dropped \subseteq 1 .. MaxLines /\ abandoned \subseteq 1 .. MaxLines
  /\ requeued \subseteq 1 .. MaxLines /\ unacked \subseteq 1 .. MaxLines

(* The type of every variable; the queues hold at most QueueMax items and  *)
(* the sleep never exceeds the configured cap (DbWorker.cpp:722-746).      *)
TypeOK == ControlTypeOK /\ DataTypeOK /\ HistoryTypeOK

(* A row is pushed to the game at most once, and in id order, whatever     *)
(* fails and however often the process restarts: a row is pushed before    *)
(* the cursor is saved, so only the jump to MAX(id) on the next connect    *)
(* keeps a row whose cursor update failed from coming back.                *)
NoReplay == \A i, j \in 1 .. Len(pushed) : i < j => pushed[i] < pushed[j]

(* No line comes back to the server that wrote it, and no row is read that *)
(* has not been committed (the WHERE clause of the poll).                  *)
NoEcho == Items(pushed) \subseteq Foreign

(* The strengthening of both that every step preserves: nothing pushed is  *)
(* ahead of the cursor, and nothing in the batch is behind it.             *)
Pass == {"drain", "insert", "poll", "select", "fetch", "ack", "nap"}
FeedInv ==
  /\ NoReplay /\ NoEcho
  /\ pc \in Pass => cursorReady
  /\ pc = "upsert" => \A id \in Items(pushed) : id <= maxId
  /\ cursorReady => \A id \in Items(pushed) : id <= IF pc = "ack" THEN rowId ELSE cursorId
  /\ pc \in {"fetch", "ack"} => batch \subseteq Foreign
  /\ pc = "fetch" => \A id \in batch : id > cursorId
  /\ pc = "ack" => \A id \in batch : id > rowId

(* A row committed while the feed is live stays ahead of the cursor until  *)
(* it has been pushed: behind it, no poll would ever select it.            *)
NothingSkipped == cursorReady => \A id \in owed : id > cursorId

(* connected and cursor_ready say what is so: they never survive the       *)
(* connection they speak of, a prepared statement is used only while it    *)
(* exists, and while the feed is live the cursor in memory is the one in   *)
(* the table.                                                              *)
UsesStatements == pc \in {"max", "upsert", "insert", "select", "fetch", "ack"}
StatementsPrepared ==
  UsesStatements \/ connected \/ cursorReady => handle = "prepared"
CursorPersisted == cursorReady => cursorRow = cursorId
FlagsAreTrue == StatementsPrepared /\ CursorPersisted

(* The strengthening that every step preserves: the worker is between a    *)
(* good connect and the end of the pass only with prepared statements.     *)
FlagInv ==
  /\ connected => handle = "prepared"
  /\ cursorReady => handle = "prepared" /\ cursorRow = cursorId
  /\ pc \in Pass \cup {"max", "upsert"} => handle = "prepared"

(* The cursor of this consumer never moves back, over restarts as well.    *)
CursorNeverRewinds == [][cursorRow' >= cursorRow]_vars

(* Every line the hooks relayed is waiting, written, or gone for one of    *)
(* two reasons only: the queue was full, or the process ended.             *)
Written == {rows[id].line : id \in OwnRows}
NoLineLost ==
  Lines \subseteq Items(outbound) \cup {held} \cup Written \cup dropped \cup abandoned

(* A line is written twice only if an INSERT of it was committed and its   *)
(* acknowledgement lost.                                                   *)
DuplicateOnlyAfterLostAck ==
  \A i, j \in OwnRows : i < j /\ rows[i].line = rows[j].line => rows[i].line \in unacked

(* Lines are written in the order they were typed, except a line that went *)
(* back to the end of the queue after a failed INSERT.                     *)
ReorderOnlyByRequeue ==
  \A i, j \in OwnRows : i < j /\ rows[i].line > rows[j].line => rows[j].line \in requeued

(* A line in the queue is written, unless it is pushed out of the queue,   *)
(* or the worker is stopped or dies first.  A line that MySQL rejects time *)
(* and again, which drops the connection on every pass, does not keep the  *)
(* others out of the table: it goes back behind them.                      *)
LineReachesTable ==
  \A line \in 1 .. MaxLines \ Refused :
    line \in Items(outbound) ~> \/ line \in Written \cup dropped \cup abandoned
                              \/ stop

(* As long as no line is typed that MySQL rejects, a row committed while   *)
(* the feed is live is pushed, unless a statement fails, or the worker is  *)
(* stopped or dies, before that.  With such a line in the queue every pass *)
(* fails before its poll (DbWorker.cpp:769-788), and each reconnect moves  *)
(* the cursor past the rows of the others.                                 *)
Trouble == faults + restarts
RowReachesGame ==
  [](Lines \cap Refused = {}) =>
    \A id \in 1 .. MaxForeign, t \in 0 .. MaxFaults + MaxRestarts :
      id \in owed /\ Trouble = t ~> id \in Items(pushed) \/ Trouble > t \/ stop

(* Stop's join returns: the worker ends wherever the request finds it.     *)
StopCompletes == stop ~> pc = "done" \/ ~stop

-----------------------------------------------------------------------------
(* What the worker promises the game thread, LiveFeed.  It holds when rows *)
(* become visible in the order of their ids (MaxOpen = 0).                 *)

Position == CASE pc = "upsert" -> maxId
              [] pc = "ack"    -> rowId
              [] OTHER         -> cursorId

Feed == INSTANCE LiveFeed WITH
  log  <- [id \in Ids |-> rows[id].origin # ServerOrigin],
  live <- Live,
  pos  <- IF Live THEN Position ELSE Len(rows),
  feed <- pushed

FeedSpec == Feed!Spec
=============================================================================
