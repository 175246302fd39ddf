--------------------------- MODULE DbWorkerProofs ---------------------------
(***************************************************************************)
(* Theorems about DbWorker, for every size of its queues, of its batches   *)
(* and of its bounds, and for any set of peers.                            *)
(***************************************************************************)
EXTENDS DbWorker, BoundedQueueProofs

USE DEF conn, local, queue, db, loss

-----------------------------------------------------------------------------
(* Types                                                                   *)

LEMMA RowTypes ==
  /\ \A line \in Nat : /\ OwnRow(line) \in Row
                       /\ [OwnRow(line) EXCEPT !.committed = FALSE] \in Row
  /\ \A peer \in Peers, committed \in BOOLEAN : PeerRow(peer, committed) \in Row
  /\ \A row \in Row : [row EXCEPT !.committed = TRUE] \in Row
BY DEF Row, Origins, OwnRow, PeerRow

LEMMA InitTypeOK == Init => TypeOK
<1> SUFFICES ASSUME Init PROVE TypeOK
  OBVIOUS
<1>1. ControlTypeOK
  BY DEF Init, ControlTypeOK, PcValues
<1>2. DataTypeOK
  BY QueueAssumption, BackoffAssumption, BoundAssumption DEF Init, DataTypeOK
<1>3. HistoryTypeOK
  BY BoundAssumption DEF Init, HistoryTypeOK
<1> QED
  BY <1>1, <1>2, <1>3 DEF TypeOK

LEMMA NextTypeOK == TypeOK /\ [Next]_vars => TypeOK'
<1> SUFFICES ASSUME ControlTypeOK, DataTypeOK, HistoryTypeOK, [Next]_vars
             PROVE  ControlTypeOK' /\ DataTypeOK' /\ HistoryTypeOK'
  BY DEF TypeOK
<1>q. /\ QueueMax \in Nat \ {0} /\ outbound \in Seq(1 .. MaxLines) /\ inbound \in Seq(Nat)
      /\ Len(outbound) <= QueueMax /\ Len(inbound) <= QueueMax
  BY QueueAssumption DEF DataTypeOK
<1>r. rows \in Seq(Row) /\ Len(rows) \in Nat
  BY DEF DataTypeOK
<1>o. owed \subseteq Nat
  BY DEF HistoryTypeOK
<1>l. /\ held \in Nat /\ \A line \in 1 .. MaxLines : line \in Nat
  BY BoundAssumption DEF DataTypeOK
<1>h. /\ pushed \in Seq(Nat) /\ dropped \subseteq 1 .. MaxLines
      /\ abandoned \subseteq 1 .. MaxLines /\ unacked \subseteq 1 .. MaxLines
  BY DEF HistoryTypeOK
<1>1. CASE AlreadyConnected
  BY <1>1, BackoffAssumption DEF AlreadyConnected, ControlTypeOK, PcValues, DataTypeOK, HistoryTypeOK
<1>2. CASE Connect
  BY <1>2, BackoffAssumption DEF Connect, ControlTypeOK, PcValues, DataTypeOK, HistoryTypeOK
<1>3. CASE ConnectFails
  <2>1. ControlTypeOK'
    BY <1>3 DEF ConnectFails, Fault, ControlTypeOK, PcValues
  <2>2. DataTypeOK'
    BY <1>3, BoundAssumption DEF ConnectFails, Fault, DataTypeOK
  <2>3. HistoryTypeOK'
    BY <1>3, BoundAssumption DEF ConnectFails, Fault, HistoryTypeOK
  <2> QED
    BY <2>1, <2>2, <2>3
<1>4. CASE BackOff
  <2>1. ControlTypeOK'
    BY <1>4 DEF BackOff, Doubled, AfterSleep, ControlTypeOK, PcValues
  <2>2. DataTypeOK'
    BY <1>4, BoundAssumption, BackoffAssumption DEF BackOff, Doubled, AfterSleep, DataTypeOK
  <2>3. HistoryTypeOK'
    BY <1>4, BoundAssumption DEF BackOff, Doubled, AfterSleep, HistoryTypeOK
  <2> QED
    BY <2>1, <2>2, <2>3
<1>5. CASE SelectMaxId
  BY <1>5, BackoffAssumption DEF SelectMaxId, ControlTypeOK, PcValues, DataTypeOK, HistoryTypeOK
<1>6. CASE SelectMaxIdFails
  <2>1. ControlTypeOK'
    BY <1>6 DEF SelectMaxIdFails, Fault, MarkFailure, ControlTypeOK, PcValues
  <2>2. DataTypeOK'
    BY <1>6, BoundAssumption DEF SelectMaxIdFails, Fault, MarkFailure, DataTypeOK
  <2>3. HistoryTypeOK'
    BY <1>6, BoundAssumption DEF SelectMaxIdFails, Fault, MarkFailure, HistoryTypeOK
  <2> QED
    BY <2>1, <2>2, <2>3
<1>7. CASE InitCursor
  BY <1>7, BackoffAssumption DEF InitCursor, SetCursor, ControlTypeOK, PcValues, DataTypeOK, HistoryTypeOK
<1>8. CASE InitCursorFails
  <2>1. ControlTypeOK'
    BY <1>8 DEF InitCursorFails, Fault, MarkFailure, ControlTypeOK, PcValues
  <2>2. DataTypeOK'
    BY <1>8, BoundAssumption DEF InitCursorFails, Fault, MarkFailure, DataTypeOK
  <2>3. HistoryTypeOK'
    BY <1>8, BoundAssumption DEF InitCursorFails, Fault, MarkFailure, HistoryTypeOK
  <2> QED
    BY <2>1, <2>2, <2>3
<1>9. CASE TakeOutbound
  <2>p. /\ Head(outbound) \in 1 .. MaxLines /\ Tail(outbound) \in Seq(1 .. MaxLines)
        /\ Len(Tail(outbound)) = Len(outbound) - 1 /\ Len(outbound) \in Nat
    BY <1>9, <1>q, PopType DEF TakeOutbound
  <2>q. Len(Tail(outbound)) <= QueueMax
    BY <2>p, <1>q
  <2>1. ControlTypeOK'
    BY <1>9 DEF TakeOutbound, PopOutbound, ControlTypeOK, PcValues
  <2>2. DataTypeOK'
    BY <1>9, <2>p, <2>q, BoundAssumption DEF TakeOutbound, PopOutbound, DataTypeOK
  <2>3. HistoryTypeOK'
    BY <1>9, BoundAssumption DEF TakeOutbound, PopOutbound, HistoryTypeOK
  <2> QED
    BY <2>1, <2>2, <2>3
<1>10. CASE DrainDone
  BY <1>10, BackoffAssumption DEF DrainDone, DrainEnds, ControlTypeOK, PcValues, DataTypeOK, HistoryTypeOK
<1>11. CASE Insert
  <2>r. OwnRow(held) \in Row
    BY RowTypes, <1>l
  <2>s. Append(rows, OwnRow(held)) \in Seq(Row)
    BY <2>r, <1>r, AppendProperties
  <2>1. ControlTypeOK'
    BY <1>11 DEF Insert, ControlTypeOK, PcValues
  <2>2. DataTypeOK'
    BY <1>11, <2>s, BoundAssumption DEF Insert, DataTypeOK
  <2>3. HistoryTypeOK'
    BY <1>11, BoundAssumption DEF Insert, HistoryTypeOK
  <2> QED
    BY <2>1, <2>2, <2>3
<1>12. ASSUME NEW line \in 1 .. MaxLines, InsertFails(line)
      PROVE  ControlTypeOK' /\ DataTypeOK' /\ HistoryTypeOK'
  <2>q. /\ Push(outbound, line, QueueMax) \in Seq(1 .. MaxLines)
        /\ Len(Push(outbound, line, QueueMax)) <= QueueMax
        /\ Dropped(outbound, QueueMax) \subseteq 1 .. MaxLines
    BY <1>q, PushType
  <2>h. dropped' \subseteq 1 .. MaxLines /\ unacked' \subseteq 1 .. MaxLines
    BY <1>12, <2>q, <1>h DEF InsertFails, Requeue
  <2>o. OwnRow(line) \in Row /\ [OwnRow(line) EXCEPT !.committed = FALSE] \in Row
    BY RowTypes, <1>l
  <2>a. /\ Append(rows, OwnRow(line)) \in Seq(Row)
        /\ Append(rows, [OwnRow(line) EXCEPT !.committed = FALSE]) \in Seq(Row)
    BY <2>o, <1>r, AppendProperties
  <2>s. rows' \in Seq(Row)
    BY <1>12, <2>a, <1>r DEF InsertFails
  <2>1. ControlTypeOK'
    BY <1>12 DEF InsertFails, Fault, MarkFailure, Requeue, ControlTypeOK, PcValues
  <2>2. DataTypeOK'
    BY <1>12, <2>q, <2>s, BoundAssumption DEF InsertFails, Fault, MarkFailure, Requeue, DataTypeOK
  <2>3. HistoryTypeOK'
    BY <1>12, <2>h, BoundAssumption DEF InsertFails, Fault, MarkFailure, Requeue, HistoryTypeOK
  <2> QED
    BY <2>1, <2>2, <2>3
<1>12r. ASSUME NEW line \in 1 .. MaxLines, InsertRefused(line)
      PROVE  ControlTypeOK' /\ DataTypeOK' /\ HistoryTypeOK'
  <2>q. /\ Push(outbound, line, QueueMax) \in Seq(1 .. MaxLines)
        /\ Len(Push(outbound, line, QueueMax)) <= QueueMax
        /\ Dropped(outbound, QueueMax) \subseteq 1 .. MaxLines
    BY <1>q, PushType
  <2>h. dropped' \subseteq 1 .. MaxLines
    BY <1>12r, <2>q, <1>h DEF InsertRefused, Requeue
  <2>1. ControlTypeOK'
    BY <1>12r DEF InsertRefused, MarkFailure, Requeue, ControlTypeOK, PcValues
  <2>2. DataTypeOK'
    BY <1>12r, <2>q, BoundAssumption DEF InsertRefused, MarkFailure, Requeue, DataTypeOK
  <2>3. HistoryTypeOK'
    BY <1>12r, <2>h, BoundAssumption DEF InsertRefused, MarkFailure, Requeue, HistoryTypeOK
  <2> QED
    BY <2>1, <2>2, <2>3
<1>13. CASE PollOrNap
  BY <1>13, BackoffAssumption DEF PollOrNap, PollPlace, ControlTypeOK, PcValues, DataTypeOK, HistoryTypeOK
<1>14. CASE Select
  <2>1. ControlTypeOK'
    BY <1>14 DEF Select, ControlTypeOK, PcValues
  <2>2. DataTypeOK'
    BY <1>14, BoundAssumption DEF Select, DataTypeOK, Selectable, Foreign, Visible, IsBatch
  <2>3. HistoryTypeOK'
    BY <1>14, BoundAssumption DEF Select, HistoryTypeOK
  <2> QED
    BY <2>1, <2>2, <2>3
<1>15. ASSUME NEW id \in batch, FetchRow(id)
      PROVE  ControlTypeOK' /\ DataTypeOK' /\ HistoryTypeOK'
  <2>i. id \in Nat
    BY DEF DataTypeOK
  <2>q. /\ Push(inbound, id, QueueMax) \in Seq(Nat)
        /\ Len(Push(inbound, id, QueueMax)) <= QueueMax
    BY <2>i, <1>q, PushType
  <2>p. Append(pushed, id) \in Seq(Nat)
    BY <2>i, <1>h, AppendProperties
  <2>1. ControlTypeOK'
    BY <1>15 DEF FetchRow, ControlTypeOK, PcValues
  <2>2. DataTypeOK'
    BY <1>15, <2>q, BoundAssumption DEF FetchRow, DataTypeOK
  <2>3. HistoryTypeOK'
    BY <1>15, <2>p, BoundAssumption DEF FetchRow, HistoryTypeOK
  <2> QED
    BY <2>1, <2>2, <2>3
<1>16. CASE UpdateCursor
  BY <1>16, BackoffAssumption DEF UpdateCursor, ControlTypeOK, PcValues, DataTypeOK, HistoryTypeOK
<1>17. CASE UpdateCursorFails
  <2>1. ControlTypeOK'
    BY <1>17 DEF UpdateCursorFails, Fault, MarkFailure, ControlTypeOK, PcValues
  <2>2. DataTypeOK'
    BY <1>17, BoundAssumption DEF UpdateCursorFails, Fault, MarkFailure, DataTypeOK
  <2>3. HistoryTypeOK'
    BY <1>17, BoundAssumption DEF UpdateCursorFails, Fault, MarkFailure, HistoryTypeOK
  <2> QED
    BY <2>1, <2>2, <2>3
<1>18. CASE PollDone
  BY <1>18, BackoffAssumption DEF PollDone, ControlTypeOK, PcValues, DataTypeOK, HistoryTypeOK
<1>19. CASE PollFails
  <2>1. ControlTypeOK'
    BY <1>19 DEF PollFails, Fault, MarkFailure, ControlTypeOK, PcValues
  <2>2. DataTypeOK'
    BY <1>19, BoundAssumption DEF PollFails, Fault, MarkFailure, DataTypeOK
  <2>3. HistoryTypeOK'
    BY <1>19, BoundAssumption DEF PollFails, Fault, MarkFailure, HistoryTypeOK
  <2> QED
    BY <2>1, <2>2, <2>3
<1>20. CASE Nap
  BY <1>20, BackoffAssumption DEF Nap, AfterSleep, ControlTypeOK, PcValues, DataTypeOK, HistoryTypeOK
<1>21. CASE SeeStop
  BY <1>21, BackoffAssumption DEF SeeStop, ControlTypeOK, PcValues, DataTypeOK, HistoryTypeOK
<1>22. CASE Exit
  BY <1>22, BackoffAssumption DEF Exit, ControlTypeOK, PcValues, DataTypeOK, HistoryTypeOK
<1>23. CASE Start
  BY <1>23, BackoffAssumption DEF Start, ControlTypeOK, PcValues, DataTypeOK, HistoryTypeOK
<1>24. CASE Stop
  BY <1>24, BackoffAssumption DEF Stop, ControlTypeOK, PcValues, DataTypeOK, HistoryTypeOK
<1>25. CASE RelayLine
  <2>l. relayed + 1 \in 1 .. MaxLines
    BY <1>25, BoundAssumption DEF RelayLine, HistoryTypeOK
  <2>q. /\ Push(outbound, relayed + 1, QueueMax) \in Seq(1 .. MaxLines)
        /\ Len(Push(outbound, relayed + 1, QueueMax)) <= QueueMax
        /\ Dropped(outbound, QueueMax) \subseteq 1 .. MaxLines
    BY <2>l, <1>q, PushType
  <2>h. dropped' \subseteq 1 .. MaxLines
    BY <1>25, <2>q, <1>h DEF RelayLine
  <2>1. ControlTypeOK'
    BY <1>25 DEF RelayLine, ControlTypeOK, PcValues
  <2>2. DataTypeOK'
    BY <1>25, <2>q, BoundAssumption DEF RelayLine, DataTypeOK
  <2>3. HistoryTypeOK'
    BY <1>25, <2>l, <2>h, BoundAssumption DEF RelayLine, HistoryTypeOK
  <2> QED
    BY <2>1, <2>2, <2>3
<1>26. CASE TakeInbound
  <2>q. Tail(inbound) \in Seq(Nat) /\ Len(Tail(inbound)) <= QueueMax
    BY <1>26, <1>q, PopType DEF TakeInbound
  <2>1. ControlTypeOK'
    BY <1>26 DEF TakeInbound, ControlTypeOK, PcValues
  <2>2. DataTypeOK'
    BY <1>26, <2>q, BoundAssumption DEF TakeInbound, DataTypeOK
  <2>3. HistoryTypeOK'
    BY <1>26, BoundAssumption DEF TakeInbound, HistoryTypeOK
  <2> QED
    BY <2>1, <2>2, <2>3
<1>27. CASE Restart
  <2>o. Items(outbound) \subseteq 1 .. MaxLines
    BY <1>q, ElementOfSeq DEF Items
  <2>l. {held} \ {0} \subseteq 1 .. MaxLines
    BY BoundAssumption DEF DataTypeOK
  <2>h. abandoned' \subseteq 1 .. MaxLines
    BY <1>27, <2>o, <2>l, <1>h DEF Restart
  <2>1. ControlTypeOK'
    BY <1>27 DEF Restart, Fresh, ControlTypeOK, PcValues
  <2>2. DataTypeOK'
    BY <1>27, BoundAssumption, QueueAssumption, BackoffAssumption DEF Restart, Fresh, DataTypeOK
  <2>3. HistoryTypeOK'
    BY <1>27, <2>h, BoundAssumption DEF Restart, Fresh, HistoryTypeOK
  <2> QED
    BY <2>1, <2>2, <2>3
<1>28. ASSUME NEW peer \in Peers, PeerInsert(peer)
      PROVE  ControlTypeOK' /\ DataTypeOK' /\ HistoryTypeOK'
  <2>s. Append(rows, PeerRow(peer, TRUE)) \in Seq(Row)
    BY RowTypes, <1>r, AppendProperties
  <2>i. Len(rows) + 1 \in Nat
    BY <1>r
  <2>h. owed' \subseteq Nat
    BY <1>28, <1>o, <2>i DEF PeerInsert
  <2>1. ControlTypeOK'
    BY <1>28 DEF PeerInsert, ControlTypeOK, PcValues
  <2>2. DataTypeOK'
    BY <1>28, <2>s, BoundAssumption DEF PeerInsert, DataTypeOK
  <2>3. HistoryTypeOK'
    BY <1>28, <2>h, BoundAssumption DEF PeerInsert, HistoryTypeOK
  <2> QED
    BY <2>1, <2>2, <2>3
<1>29. ASSUME NEW peer \in Peers, PeerTakeId(peer)
      PROVE  ControlTypeOK' /\ DataTypeOK' /\ HistoryTypeOK'
  <2>s. Append(rows, PeerRow(peer, FALSE)) \in Seq(Row)
    BY RowTypes, <1>r, AppendProperties
  <2>1. ControlTypeOK'
    BY <1>29 DEF PeerTakeId, ControlTypeOK, PcValues
  <2>2. DataTypeOK'
    BY <1>29, <2>s, BoundAssumption DEF PeerTakeId, DataTypeOK
  <2>3. HistoryTypeOK'
    BY <1>29, BoundAssumption DEF PeerTakeId, HistoryTypeOK
  <2> QED
    BY <2>1, <2>2, <2>3
<1>30. ASSUME NEW id \in Open, Commit(id)
      PROVE  ControlTypeOK' /\ DataTypeOK' /\ HistoryTypeOK'
  <2>i. id \in 1 .. Len(rows)
    BY DEF Open
  <2>o. [rows[id] EXCEPT !.committed = TRUE] \in Row
    BY <2>i, <1>r, ElementOfSeq, RowTypes
  <2>s. [rows EXCEPT ![id].committed = TRUE] \in Seq(Row)
    BY <2>i, <2>o, <1>r, ExceptSeq
  <2>h. owed' \subseteq Nat
    BY <1>30, <2>i, <1>r, <1>o DEF Commit
  <2>1. ControlTypeOK'
    BY <1>30 DEF Commit, ControlTypeOK, PcValues
  <2>2. DataTypeOK'
    BY <1>30, <2>s, BoundAssumption DEF Commit, DataTypeOK
  <2>3. HistoryTypeOK'
    BY <1>30, <2>h, BoundAssumption DEF Commit, HistoryTypeOK
  <2> QED
    BY <2>1, <2>2, <2>3
<1>31. CASE PollTimer
  BY <1>31, BackoffAssumption DEF PollTimer, ControlTypeOK, PcValues, DataTypeOK, HistoryTypeOK
<1>32. CASE UNCHANGED vars
  BY <1>32 DEF vars, ControlTypeOK, DataTypeOK, HistoryTypeOK
<1> QED
  BY <1>1, <1>2, <1>3, <1>4, <1>5, <1>6, <1>7, <1>8, <1>9, <1>10, <1>11, <1>12, <1>13, <1>14, <1>15, <1>16, <1>17, <1>18, <1>19, <1>20, <1>21, <1>22, <1>23, <1>24, <1>25, <1>26, <1>27, <1>28, <1>29, <1>30, <1>31, <1>32, <1>12r DEF Next, Worker, Environment

(* Every variable keeps its type: whatever fails, the queues stay within   *)
(* kQueueMax and the sleep within the configured cap.                      *)
THEOREM TypeCorrect == Spec => []TypeOK
BY InitTypeOK, NextTypeOK, PTL DEF Spec

-----------------------------------------------------------------------------
(* The rows handed to the game                                             *)

(* The steps that lose the feed, or have lost it.                          *)
Loses == \/ ConnectFails \/ SelectMaxIdFails \/ InitCursorFails \/ UpdateCursorFails
         \/ PollFails \/ Exit \/ Restart
         \/ \E line \in 1 .. MaxLines : InsertRefused(line)

(* The steps that touch neither the table nor the feed.                    *)
Idles == \/ AlreadyConnected \/ Connect \/ BackOff \/ TakeOutbound \/ DrainDone
         \/ PollOrNap \/ PollDone \/ Nap \/ SeeStop \/ Start \/ Stop
         \/ RelayLine \/ TakeInbound \/ PollTimer \/ UNCHANGED vars

LEMMA LosesFeed ==
  Loses => /\ cursorReady' = FALSE /\ pc' \notin Pass \cup {"upsert"}
           /\ UNCHANGED <<rows, pushed>>
BY DEF Loses, ConnectFails, SelectMaxIdFails, InitCursorFails, UpdateCursorFails,
       PollFails, Exit, Restart, InsertRefused, Fresh, MarkFailure, Pass

LEMMA IdlesFeed ==
  Idles => /\ UNCHANGED <<rows, pushed, batch, rowId, cursorId, cursorReady>>
           /\ pc' \in {"drain", "max", "top", "insert", "poll", "select", "nap", "exit", pc}
           /\ pc' \in Pass => cursorReady \/ pc \in Pass
           /\ pc' = "upsert" => pc = "upsert" /\ maxId' = maxId
           /\ (pc' = "ack" \/ pc = "ack") => pc' = pc
           /\ pc' = "fetch" => pc = "fetch"
BY DEF Idles, AlreadyConnected, Connect, BackOff, TakeOutbound, DrainDone, PollOrNap,
       PollDone, Nap, SeeStop, Start, Stop, RelayLine, TakeInbound, PollTimer, vars, Pass, AfterSleep, PollPlace

(* Every step is one of these, or one of the nine that are left.           *)
LEMMA Steps ==
  [Next]_vars => \/ Loses \/ Idles
                 \/ SelectMaxId \/ InitCursor \/ Select \/ UpdateCursor
                 \/ \E id \in batch : FetchRow(id)
                 \/ Insert \/ \E line \in 1 .. MaxLines : InsertFails(line)
                 \/ \E peer \in Peers : PeerInsert(peer) \/ PeerTakeId(peer)
                 \/ \E id \in Open : Commit(id)
BY DEF Next, Worker, Environment, Loses, Idles

(* A committed row of another server stays one.                            *)
LEMMA AppendForeign ==
  ASSUME rows \in Seq(Row), NEW r \in Row, rows' = Append(rows, r)
  PROVE  Foreign \subseteq Foreign'
<1>1. /\ Len(rows') = Len(rows) + 1 /\ Len(rows) \in Nat
      /\ \A id \in 1 .. Len(rows) : rows'[id] = rows[id]
  BY AppendProperties, LenProperties
<1> QED
  BY <1>1 DEF Foreign, Visible

LEMMA CommitForeign ==
  ASSUME rows \in Seq(Row), NEW id \in Open, Commit(id)
  PROVE  Foreign \subseteq Foreign'
<1> DEFINE row == [rows[id] EXCEPT !.committed = TRUE]
<1>1. rows' = [rows EXCEPT ![id] = row] /\ id \in 1 .. Len(rows)
  BY DEF Commit, Open
<1>2. rows[id] \in Row /\ row \in Row /\ row.committed /\ row.origin = rows[id].origin
  BY <1>1, ElementOfSeq, RowTypes DEF Row
<1>3. /\ Len(rows') = Len(rows)
      /\ \A j \in 1 .. Len(rows) : rows'[j] = IF j = id THEN row ELSE rows[j]
  BY <1>1, <1>2, ExceptSeq
<1> QED
  BY <1>1, <1>2, <1>3 DEF Foreign, Visible

(* A step that changes the table and not the feed keeps the invariant, as  *)
(* long as the foreign rows only grow.                                     *)
LEMMA TableStep ==
  ASSUME FeedInv, Foreign \subseteq Foreign',
         UNCHANGED <<pushed, batch, rowId, cursorId, maxId>>,
         \/ UNCHANGED <<pc, cursorReady>>
         \/ pc = "insert" /\ pc' = "drain" /\ UNCHANGED cursorReady
         \/ ~cursorReady' /\ pc' \notin Pass \cup {"upsert"}
  PROVE  FeedInv'
BY DEF FeedInv, NoReplay, NoEcho, Items, Pass

LEMMA InitFeedInv == Init => FeedInv
BY DEF Init, FeedInv, NoReplay, NoEcho, Items, Pass

LEMMA NextFeedInv == TypeOK /\ FeedInv /\ [Next]_vars => FeedInv'
<1> SUFFICES ASSUME TypeOK, FeedInv, [Next]_vars
             PROVE  FeedInv'
  OBVIOUS
<1>r. rows \in Seq(Row) /\ pushed \in Seq(Nat) /\ held \in Nat
  BY BoundAssumption DEF TypeOK, DataTypeOK, HistoryTypeOK
<1>1. CASE Loses
  BY <1>1, LosesFeed DEF FeedInv, NoReplay, NoEcho, Items, Foreign, Visible, Pass
<1>2. CASE Idles
  BY <1>2, IdlesFeed DEF FeedInv, NoReplay, NoEcho, Items, Foreign, Visible, Pass
<1>3. CASE SelectMaxId
  (* MAX(id) is at least every row pushed: they are all committed.         *)
  <2>1. \A v \in Visible : v <= maxId'
    BY <1>3 DEF SelectMaxId, IsMaxId
  <2>2. \A id \in Items(pushed) : id <= maxId'
    BY <2>1 DEF FeedInv, NoEcho, Foreign
  <2> QED
    BY <1>3, <2>2 DEF SelectMaxId, FeedInv, NoReplay, NoEcho, Items, Foreign, Visible, Pass
<1>4. CASE InitCursor
  BY <1>4 DEF InitCursor, SetCursor, FeedInv, NoReplay, NoEcho, Items, Foreign, Visible, Pass
<1>5. CASE Select
  BY <1>5 DEF Select, IsBatch, Selectable, FeedInv, NoReplay, NoEcho, Items, Foreign,
              Visible, Pass
<1>6. CASE UpdateCursor
  BY <1>6 DEF UpdateCursor, FeedInv, NoReplay, NoEcho, Items, Foreign, Visible, Pass
<1>7. ASSUME NEW id \in batch, FetchRow(id)
      PROVE  FeedInv'
  <2>p. /\ id \in Nat /\ pc = "fetch" /\ pc' = "ack" /\ rowId' = id /\ batch' = batch \ {id}
        /\ pushed' = Append(pushed, id)
        /\ UNCHANGED <<rows, cursorReady, cursorId>>
        /\ \A other \in batch : id <= other
        /\ batch \subseteq Nat
    BY <1>7 DEF FetchRow, TypeOK, DataTypeOK
  <2>1. \A p \in Items(pushed) : p < id
    <3>1. \A p \in Items(pushed) : p <= cursorId /\ p \in Nat
      BY <2>p, <1>r, ElementOfSeq DEF FeedInv, Pass, Items
    <3>2. cursorId < id /\ cursorId \in Int
      BY <2>p DEF FeedInv, TypeOK, DataTypeOK
    <3> QED
      BY <3>1, <3>2, <2>p
  <2>2. Items(pushed') = Items(pushed) \cup {id}
    BY <2>p, <1>r, AppendItems
  <2>3. NoReplay'
    <3>1. /\ Len(pushed') = Len(pushed) + 1 /\ Len(pushed) \in Nat
          /\ \A i \in 1 .. Len(pushed) : pushed'[i] = pushed[i]
          /\ pushed'[Len(pushed) + 1] = id
      BY <2>p, <1>r, AppendProperties, LenProperties
    <3>2. \A i \in 1 .. Len(pushed) : pushed[i] < id
      BY <2>1 DEF Items
    <3> QED
      BY <3>1, <3>2 DEF FeedInv, NoReplay
  <2>4. Foreign' = Foreign
    BY <2>p DEF Foreign, Visible
  <2>5. NoEcho'
    BY <2>p, <2>2, <2>4 DEF FeedInv, NoEcho
  <2>6. \A p \in Items(pushed') : p <= rowId'
    <3>1. \A p \in Items(pushed) : p \in Nat
      BY <1>r, ElementOfSeq DEF Items
    <3> QED
      BY <2>p, <2>1, <2>2, <3>1
  <2>7. \A other \in batch' : other > rowId'
    BY <2>p
  <2>8. batch' \subseteq Foreign'
    BY <2>p, <2>4 DEF FeedInv
  <2> QED
    BY <2>p, <2>3, <2>5, <2>6, <2>7, <2>8 DEF FeedInv, Pass
<1>8. CASE Insert
  <2>1. Foreign \subseteq Foreign'
    BY <1>8, <1>r, RowTypes, AppendForeign DEF Insert
  <2> QED
    BY <1>8, <2>1, TableStep DEF Insert
<1>9. ASSUME NEW line \in 1 .. MaxLines, InsertFails(line)
      PROVE  FeedInv'
  <2>1. OwnRow(line) \in Row /\ [OwnRow(line) EXCEPT !.committed = FALSE] \in Row
    BY BoundAssumption, RowTypes
  <2>2. Foreign \subseteq Foreign'
    <3>1. CASE rows' = rows
      BY <3>1 DEF Foreign, Visible
    <3>2. CASE rows' # rows
      BY <1>9, <1>r, <2>1, <3>2, AppendForeign DEF InsertFails
    <3> QED
      BY <3>1, <3>2
  <2> QED
    BY <1>9, <2>2, TableStep DEF InsertFails, MarkFailure, Pass
<1>10. ASSUME NEW peer \in Peers, PeerInsert(peer) \/ PeerTakeId(peer)
       PROVE  FeedInv'
  <2>1. Foreign \subseteq Foreign'
    BY <1>10, <1>r, RowTypes, AppendForeign DEF PeerInsert, PeerTakeId
  <2> QED
    BY <1>10, <2>1, TableStep DEF PeerInsert, PeerTakeId
<1>11. ASSUME NEW id \in Open, Commit(id)
       PROVE  FeedInv'
  BY <1>11, <1>r, CommitForeign, TableStep DEF Commit
<1> QED
  BY <1>1, <1>2, <1>3, <1>4, <1>5, <1>6, <1>7, <1>8, <1>9, <1>10, <1>11, Steps

(* Whatever fails and however often the process restarts, a row of another *)
(* server is pushed at most once and in id order, and no row of this one.  *)
THEOREM FeedCorrect == Spec => [](NoReplay /\ NoEcho)
<1>1. Init => TypeOK /\ FeedInv
  BY InitTypeOK, InitFeedInv
<1>2. TypeOK /\ FeedInv /\ [Next]_vars => (TypeOK /\ FeedInv)'
  BY NextTypeOK, NextFeedInv
<1>3. TypeOK /\ FeedInv => NoReplay /\ NoEcho
  BY DEF FeedInv
<1> QED
  BY <1>1, <1>2, <1>3, PTL DEF Spec

-----------------------------------------------------------------------------
(* The flags of the connection                                             *)

(* The steps of the table's other writers and of the game thread leave the *)
(* connection, the cursors and, but for Start, the worker alone.           *)
Outside == \/ Start \/ Stop \/ RelayLine \/ TakeInbound \/ PollTimer \/ UNCHANGED vars
           \/ \E peer \in Peers : PeerInsert(peer) \/ PeerTakeId(peer)
           \/ \E id \in Open : Commit(id)

LEMMA OutsideFlags ==
  Outside => UNCHANGED <<conn, cursorId, cursorRow>> /\ pc' \in {pc, "top"}
BY DEF Outside, Start, Stop, RelayLine, TakeInbound, PollTimer, vars, PeerInsert,
       PeerTakeId, Commit

(* The steps on an open connection, which only move on.                    *)
Proceeds == \/ BackOff \/ SelectMaxId \/ TakeOutbound \/ DrainDone \/ Insert \/ PollOrNap
            \/ Select \/ (\E id \in batch : FetchRow(id)) \/ PollDone \/ Nap \/ SeeStop

LEMMA ProceedsFlags ==
  Proceeds => /\ UNCHANGED <<conn, cursorId, cursorRow>>
              /\ pc' \in {"top", "exit"} \/ pc \in Pass \cup {"max"}
BY DEF Proceeds, BackOff, SelectMaxId, TakeOutbound, DrainDone, Insert, PollOrNap, Select,
       FetchRow, PollDone, Nap, SeeStop, AfterSleep, Pass

LEMMA LosesFlags ==
  Loses \/ (\E line \in 1 .. MaxLines : InsertFails(line)) =>
    ~connected' /\ ~cursorReady' /\ pc' \notin Pass \cup {"max", "upsert"}
BY DEF Loses, ConnectFails, SelectMaxIdFails, InitCursorFails, InsertFails, UpdateCursorFails,
       PollFails, Exit, Restart, InsertRefused, Fresh, MarkFailure, Pass

LEMMA NextFlagInv == FlagInv /\ [Next]_vars => FlagInv'
<1> SUFFICES ASSUME FlagInv, [Next]_vars
             PROVE  FlagInv'
  OBVIOUS
<1>1. CASE Loses \/ \E line \in 1 .. MaxLines : InsertFails(line)
  BY <1>1, LosesFlags DEF FlagInv
<1>2. CASE Outside
  BY <1>2, OutsideFlags DEF FlagInv, Pass
<1>3. CASE Proceeds
  BY <1>3, ProceedsFlags DEF FlagInv, Pass
<1>4. CASE AlreadyConnected
  BY <1>4 DEF AlreadyConnected, FlagInv
<1>5. CASE Connect
  (* The statements are new; cursor_ready can only be set if they were.    *)
  BY <1>5 DEF Connect, FlagInv
<1>6. CASE InitCursor \/ UpdateCursor
  BY <1>6 DEF InitCursor, SetCursor, UpdateCursor, FlagInv, Pass
<1> QED
  BY <1>1, <1>2, <1>3, <1>4, <1>5, <1>6 DEF Next, Worker, Environment, Outside, Proceeds, Loses

(* No statement is used after the connection it was prepared on, and the   *)
(* cursor in memory is the saved one while the feed is live.               *)
THEOREM FlagsCorrect == Spec => []FlagsAreTrue
<1>1. Init => FlagInv
  BY DEF Init, FlagInv, Pass
<1>2. FlagInv => FlagsAreTrue
  BY DEF FlagInv, FlagsAreTrue, StatementsPrepared, CursorPersisted, UsesStatements, Pass
<1> QED
  BY <1>1, <1>2, NextFlagInv, PTL DEF Spec

-----------------------------------------------------------------------------
(* The lines of this server                                                *)

Accounted == Items(outbound) \cup {held} \cup Written \cup dropped \cup abandoned

(* Every line is accounted for, and the worker holds one only while it     *)
(* inserts it: it has nothing in its hand when it pops the next.           *)
LineInv == Lines \subseteq Accounted /\ (held # 0 => pc = "insert")

(* The steps that move no line.                                            *)
Still == \/ AlreadyConnected \/ Connect \/ ConnectFails \/ BackOff \/ SelectMaxId
         \/ SelectMaxIdFails \/ InitCursor \/ InitCursorFails \/ DrainDone \/ PollOrNap
         \/ Select \/ (\E id \in batch : FetchRow(id)) \/ UpdateCursor
         \/ UpdateCursorFails \/ PollDone \/ PollFails \/ Nap \/ SeeStop \/ Exit
         \/ Start \/ Stop \/ TakeInbound \/ PollTimer \/ UNCHANGED vars

LEMMA StillLines ==
  Still => /\ UNCHANGED <<outbound, held, rows, dropped, abandoned, relayed>>
           /\ pc = "insert" => pc' = "insert"
BY DEF Still, AlreadyConnected, Connect, ConnectFails, BackOff, SelectMaxId,
       SelectMaxIdFails, InitCursor, InitCursorFails, DrainDone, PollOrNap, Select,
       FetchRow, UpdateCursor, UpdateCursorFails, PollDone, PollFails, Nap, SeeStop,
       Exit, Start, Stop, TakeInbound, PollTimer, vars

(* A row that is appended hides none, and one of this server is written.   *)
LEMMA AppendWritten ==
  ASSUME rows \in Seq(Row), NEW r \in Row, rows' = Append(rows, r)
  PROVE  /\ Written \subseteq Written'
         /\ r.origin = ServerOrigin => r.line \in Written'
<1>1. /\ Len(rows') = Len(rows) + 1 /\ Len(rows) \in Nat
      /\ \A id \in 1 .. Len(rows) : rows'[id] = rows[id]
      /\ rows'[Len(rows) + 1] = r
  BY AppendProperties, LenProperties
<1>2. OwnRows \subseteq OwnRows'
  BY <1>1 DEF OwnRows
<1>3. \A id \in OwnRows : rows'[id] = rows[id]
  BY <1>1 DEF OwnRows
<1>4. Written \subseteq Written'
  BY <1>2, <1>3 DEF Written
<1>5. r.origin = ServerOrigin => Len(rows) + 1 \in OwnRows'
  BY <1>1 DEF OwnRows
<1> QED
  BY <1>1, <1>4, <1>5 DEF Written

(* A commit changes no line.                                               *)
LEMMA CommitWritten ==
  ASSUME rows \in Seq(Row), NEW id \in 1 .. Len(rows),
         rows' = [rows EXCEPT ![id].committed = TRUE]
  PROVE  Written \subseteq Written'
<1>1. /\ Len(rows') = Len(rows)
      /\ \A i \in 1 .. Len(rows) : rows'[i].origin = rows[i].origin
                                  /\ rows'[i].line = rows[i].line
  BY ElementOfSeq, LenProperties DEF Row
<1>2. OwnRows' = OwnRows
  BY <1>1 DEF OwnRows
<1> QED
  BY <1>1, <1>2 DEF Written, OwnRows

LEMMA NextLineInv == TypeOK /\ LineInv /\ [Next]_vars => LineInv'
<1> SUFFICES ASSUME TypeOK, LineInv, [Next]_vars
             PROVE  LineInv'
  OBVIOUS
<1>t. /\ outbound \in Seq(1 .. MaxLines) /\ rows \in Seq(Row) /\ held \in 0 .. MaxLines
      /\ relayed \in Nat /\ QueueMax \in Nat \ {0} /\ 0 \notin Lines
      /\ \A line \in 0 .. MaxLines : line \in Nat
  BY QueueAssumption, BoundAssumption DEF TypeOK, DataTypeOK, HistoryTypeOK, Lines
<1>1. CASE Still
  <2>1. Written' = Written
    BY <1>1, StillLines DEF Written, OwnRows
  <2> QED
    BY <1>1, <2>1, StillLines DEF LineInv, Accounted, Lines, Items
<1>2. CASE TakeOutbound
  <2>1. Items(outbound) = {Head(outbound)} \cup Items(Tail(outbound))
    BY <1>2, <1>t, PopItems DEF TakeOutbound
  <2>2. Items(outbound)' = Items(Tail(outbound)) /\ Written' = Written
    BY <1>2 DEF TakeOutbound, PopOutbound, Items, Written, OwnRows
  <2>3. held = 0
    BY <1>2 DEF TakeOutbound, LineInv
  <2> QED
    BY <1>2, <1>t, <2>1, <2>2, <2>3 DEF TakeOutbound, PopOutbound, LineInv, Accounted, Lines
<1>3. CASE Insert
  <2>1. OwnRow(held) \in Row /\ OwnRow(held).origin = ServerOrigin /\ OwnRow(held).line = held
    BY <1>t, RowTypes DEF OwnRow
  <2>2. Written \subseteq Written' /\ held \in Written'
    BY <1>3, <1>t, <2>1, AppendWritten DEF Insert
  <2> QED
    BY <1>3, <2>2 DEF Insert, LineInv, Accounted, Lines, Items
<1>4. ASSUME NEW line \in 1 .. MaxLines, InsertFails(line) \/ InsertRefused(line)
      PROVE  LineInv'
  <2>1. Items(outbound) \cup {held} \subseteq Items(outbound)' \cup dropped'
    <3>1. Items(outbound) \cup {line}
            \subseteq Items(Push(outbound, line, QueueMax)) \cup Dropped(outbound, QueueMax)
      BY <1>t, PushItems
    <3> QED
      BY <1>4, <3>1 DEF InsertFails, InsertRefused, Requeue, Items
  <2>2. Written \subseteq Written'
    <3>1. OwnRow(line) \in Row /\ [OwnRow(line) EXCEPT !.committed = FALSE] \in Row
      BY <1>t, RowTypes
    <3>2. CASE rows' = rows
      BY <3>2 DEF Written, OwnRows
    <3>3. CASE rows' # rows
      BY <1>4, <1>t, <3>1, <3>3, AppendWritten DEF InsertFails, InsertRefused
    <3> QED
      BY <3>2, <3>3
  <2> QED
    BY <1>4, <2>1, <2>2
    DEF InsertFails, InsertRefused, Fault, Requeue, LineInv, Accounted, Lines
<1>5. CASE RelayLine
  <2>1. relayed + 1 \in 1 .. MaxLines
    BY <1>5, <1>t, BoundAssumption DEF RelayLine
  <2>2. Items(outbound) \cup {relayed + 1}
          \subseteq Items(Push(outbound, relayed + 1, QueueMax)) \cup Dropped(outbound, QueueMax)
    BY <1>t, <2>1, PushItems
  <2>3. Items(outbound) \cup {relayed + 1} \subseteq Items(outbound)' \cup dropped'
    BY <1>5, <2>2 DEF RelayLine, Items
  <2>4. Lines' = Lines \cup {relayed + 1} /\ Written' = Written
    BY <1>5, <1>t DEF RelayLine, Lines, Written, OwnRows
  <2> QED
    BY <1>5, <2>3, <2>4 DEF RelayLine, LineInv, Accounted
<1>6. CASE Restart
  BY <1>6, <1>t DEF Restart, Fresh, LineInv, Accounted, Lines, Written, OwnRows
<1>7. ASSUME NEW peer \in Peers, PeerInsert(peer) \/ PeerTakeId(peer)
      PROVE  LineInv'
  <2>1. Written \subseteq Written'
    BY <1>7, <1>t, RowTypes, AppendWritten DEF PeerInsert, PeerTakeId
  <2> QED
    BY <1>7, <2>1 DEF PeerInsert, PeerTakeId, LineInv, Accounted, Lines, Items
<1>8. ASSUME NEW id \in Open, Commit(id)
      PROVE  LineInv'
  <2>1. Written \subseteq Written'
    BY <1>8, <1>t, CommitWritten DEF Commit, Open
  <2> QED
    BY <1>8, <2>1 DEF Commit, LineInv, Accounted, Lines, Items
<1> QED
  BY <1>1, <1>2, <1>3, <1>4, <1>5, <1>6, <1>7, <1>8 DEF Next, Worker, Environment, Still

(* However long the queue and whatever fails, a line that the hooks        *)
(* relayed is waiting, written, or gone because the queue was full or the  *)
(* process ended.                                                          *)
THEOREM LinesCorrect == Spec => []NoLineLost
<1>1. Init => LineInv
  BY DEF Init, LineInv, Lines, Accounted
<1>2. LineInv => NoLineLost
  BY DEF LineInv, Accounted, NoLineLost
<1>3. TypeOK /\ LineInv /\ [Next]_vars => (TypeOK /\ LineInv)'
  BY NextTypeOK, NextLineInv
<1> QED
  BY <1>1, <1>2, <1>3, InitTypeOK, PTL DEF Spec

-----------------------------------------------------------------------------
(* Lines that are written twice, or late                                   *)

Waiting == Items(outbound) \cup ({held} \ {0})

(* A line is in the queue or in the worker's hand at most once, and while  *)
(* it is there, a row of it is one whose INSERT was taken for failed.      *)
WriteInv ==
  /\ pc = "insert" => held # 0
  /\ Distinct(outbound) /\ held \notin Items(outbound)
  /\ Waiting \subseteq Lines
  /\ \A i \in OwnRows : rows[i].line \in Lines
  /\ \A i \in OwnRows : rows[i].line \in Waiting => rows[i].line \in unacked
  /\ DuplicateOnlyAfterLostAck

(* A line that waits behind a later one, or is not written when a later    *)
(* one is, has been pushed back.                                           *)
OrderInv ==
  /\ ReorderOnlyByRequeue
  /\ Sorted(outbound, requeued)
  /\ held # 0 => \A n \in Items(outbound) : n < held => n \in requeued
  /\ \A i \in OwnRows, n \in Waiting : n < rows[i].line => n \in requeued

(* The rows of this server after an INSERT.                                *)
LEMMA AppendOwn ==
  ASSUME rows \in Seq(Row), NEW r \in Row, rows' = Append(rows, r)
  PROVE  /\ Len(rows) \in Nat /\ \A i \in OwnRows : i \in Nat /\ i < Len(rows) + 1
         /\ \A i \in OwnRows : rows'[i].line = rows[i].line
         /\ rows'[Len(rows) + 1].line = r.line
         /\ OwnRows' = IF r.origin = ServerOrigin THEN OwnRows \cup {Len(rows) + 1} ELSE OwnRows
<1>1. /\ Len(rows') = Len(rows) + 1 /\ Len(rows) \in Nat
      /\ \A id \in 1 .. Len(rows) : rows'[id] = rows[id]
      /\ rows'[Len(rows) + 1] = r
  BY AppendProperties, LenProperties
<1>2. \A i \in OwnRows : i \in 1 .. Len(rows) /\ i \in Nat /\ i < Len(rows) + 1
  BY <1>1 DEF OwnRows
<1>3. OwnRows' = {id \in 1 .. Len(rows) + 1 : rows'[id].origin = ServerOrigin}
  BY <1>1 DEF OwnRows
<1>4. 1 .. Len(rows) + 1 = 1 .. Len(rows) \cup {Len(rows) + 1}
  BY <1>1
<1>5. OwnRows' = IF r.origin = ServerOrigin THEN OwnRows \cup {Len(rows) + 1} ELSE OwnRows
  BY <1>1, <1>3, <1>4 DEF OwnRows
<1> QED
  BY <1>1, <1>2, <1>5

LEMMA CommitOwn ==
  ASSUME rows \in Seq(Row), NEW id \in 1 .. Len(rows),
         rows' = [rows EXCEPT ![id].committed = TRUE]
  PROVE  OwnRows' = OwnRows /\ \A i \in OwnRows : rows'[i].line = rows[i].line
<1>1. /\ Len(rows') = Len(rows)
      /\ \A i \in 1 .. Len(rows) : rows'[i].origin = rows[i].origin
                                  /\ rows'[i].line = rows[i].line
  BY ElementOfSeq, LenProperties DEF Row
<1> QED
  BY <1>1 DEF OwnRows

(* Whatever leaves this server's rows, and the lines that wait, alone.     *)
LEMMA SameLines ==
  ASSUME WriteInv, OrderInv, UNCHANGED <<outbound, held, requeued, unacked, relayed>>,
         OwnRows' = OwnRows, \A i \in OwnRows : rows'[i].line = rows[i].line,
         pc' = "insert" => pc = "insert"
  PROVE  WriteInv' /\ OrderInv'
<1>1. Waiting' = Waiting /\ Items(outbound)' = Items(outbound) /\ Lines' = Lines
  BY DEF Waiting, Items, Lines
<1>2. DuplicateOnlyAfterLostAck' /\ ReorderOnlyByRequeue'
  BY DEF WriteInv, OrderInv, DuplicateOnlyAfterLostAck, ReorderOnlyByRequeue
<1> QED
  BY <1>1, <1>2 DEF WriteInv, OrderInv

LEMMA StillPlaces ==
  Still => /\ UNCHANGED <<outbound, held, rows, relayed, requeued, unacked>>
           /\ pc' = "insert" => pc = "insert"
BY DEF Still, AlreadyConnected, Connect, ConnectFails, BackOff, SelectMaxId,
       SelectMaxIdFails, InitCursor, InitCursorFails, DrainDone, PollOrNap, Select,
       FetchRow, UpdateCursor, UpdateCursorFails, PollDone, PollFails, Nap, SeeStop,
       Exit, Start, Stop, TakeInbound, PollTimer, vars, MarkFailure, PollPlace, AfterSleep

LEMMA TakeOutboundPlaces ==
  ASSUME TypeOK, WriteInv, OrderInv, TakeOutbound
  PROVE  WriteInv' /\ OrderInv'
<1>1. /\ outbound \in Seq(1 .. MaxLines) /\ outbound \in Seq(Nat) /\ CanPop(outbound)
      /\ Distinct(outbound) /\ Sorted(outbound, requeued)
  BY BoundAssumption, SeqMonotonic DEF TypeOK, DataTypeOK, TakeOutbound, WriteInv, OrderInv
<1>2. /\ held' = Head(outbound) /\ outbound' = Tail(outbound) /\ pc' = "insert"
      /\ UNCHANGED <<rows, requeued, unacked, relayed>>
  BY DEF TakeOutbound, PopOutbound
<1>3. /\ Head(outbound) \in 1 .. MaxLines /\ Distinct(Tail(outbound))
      /\ Head(outbound) \notin Items(Tail(outbound))
      /\ Items(outbound) = {Head(outbound)} \cup Items(Tail(outbound))
  BY <1>1, PopType, PopDistinct, PopItems
<1>4. /\ Sorted(Tail(outbound), requeued)
      /\ \A n \in Items(Tail(outbound)) : n < Head(outbound) => n \in requeued
  BY <1>1, SortedTail
<1>5. /\ Items(outbound)' = Items(Tail(outbound)) /\ Waiting' \subseteq Waiting
      /\ Lines' = Lines /\ OwnRows' = OwnRows /\ held' # 0
  <2>1. Items(outbound)' = Items(Tail(outbound)) /\ Lines' = Lines /\ OwnRows' = OwnRows
    BY <1>2 DEF Items, Lines, OwnRows
  <2>2. Waiting' = Items(Tail(outbound)) \cup ({Head(outbound)} \ {0})
    BY <1>2, <2>1 DEF Waiting
  <2>3. held' # 0
    BY <1>2, <1>3
  <2> QED
    BY <1>3, <2>1, <2>2, <2>3 DEF Waiting
<1>6. DuplicateOnlyAfterLostAck' /\ ReorderOnlyByRequeue'
  BY <1>2, <1>5 DEF WriteInv, OrderInv, DuplicateOnlyAfterLostAck, ReorderOnlyByRequeue
<1>7. WriteInv'
  BY <1>2, <1>3, <1>5, <1>6 DEF WriteInv
<1>8. OrderInv'
  BY <1>2, <1>4, <1>5, <1>6 DEF OrderInv
<1> QED
  BY <1>7, <1>8

(* The line in hand is written, and perhaps kept.                          *)
LEMMA WriteHeld ==
  ASSUME TypeOK, WriteInv, OrderInv, NEW r \in Row, r.origin = ServerOrigin, r.line = held,
         pc = "insert", rows' = Append(rows, r),
         unacked \subseteq unacked', requeued \subseteq requeued'
  PROVE  /\ DuplicateOnlyAfterLostAck' /\ ReorderOnlyByRequeue'
         /\ \A i \in OwnRows' : rows'[i].line \in Lines
         /\ \A i \in OwnRows' : rows'[i].line \in Items(outbound) => rows'[i].line \in unacked
         /\ \A i \in OwnRows', n \in Items(outbound) : n < rows'[i].line => n \in requeued
<1>1. /\ rows \in Seq(Row) /\ held \in Waiting /\ held # 0
      /\ held \notin Items(outbound) /\ Items(outbound) \subseteq Waiting
      /\ Waiting \subseteq Lines
  BY DEF TypeOK, DataTypeOK, WriteInv, Waiting
<1>2. /\ Len(rows) \in Nat /\ \A i \in OwnRows : i \in Nat /\ i < Len(rows) + 1
      /\ \A i \in OwnRows : rows'[i].line = rows[i].line
      /\ rows'[Len(rows) + 1].line = held
      /\ OwnRows' = OwnRows \cup {Len(rows) + 1}
  BY <1>1, AppendOwn
<1>3. DuplicateOnlyAfterLostAck'
  <2> SUFFICES ASSUME NEW i \in OwnRows', NEW j \in OwnRows', i < j,
                      rows'[i].line = rows'[j].line
               PROVE  rows'[i].line \in unacked'
    BY DEF DuplicateOnlyAfterLostAck
  <2>1. i \in OwnRows
    BY <1>2
  <2>2. CASE j \in OwnRows
    BY <1>2, <2>1, <2>2 DEF WriteInv, DuplicateOnlyAfterLostAck
  <2>3. CASE j = Len(rows) + 1
    BY <1>1, <1>2, <2>1, <2>3 DEF WriteInv
  <2> QED
    BY <1>2, <2>2, <2>3
<1>4. ReorderOnlyByRequeue'
  <2> SUFFICES ASSUME NEW i \in OwnRows', NEW j \in OwnRows', i < j,
                      rows'[i].line > rows'[j].line
               PROVE  rows'[j].line \in requeued'
    BY DEF ReorderOnlyByRequeue
  <2>1. i \in OwnRows
    BY <1>2
  <2>2. CASE j \in OwnRows
    BY <1>2, <2>1, <2>2 DEF OrderInv, ReorderOnlyByRequeue
  <2>3. CASE j = Len(rows) + 1
    <3>1. held < rows[i].line
      BY <1>2, <2>1, <2>3
    <3> QED
      BY <1>1, <1>2, <2>1, <2>3, <3>1 DEF OrderInv
  <2> QED
    BY <1>2, <2>2, <2>3
<1>5. \A i \in OwnRows' : rows'[i].line \in Lines
  BY <1>1, <1>2 DEF WriteInv
<1>6. \A i \in OwnRows' : rows'[i].line \in Items(outbound) => rows'[i].line \in unacked
  BY <1>1, <1>2 DEF WriteInv
<1>7. \A i \in OwnRows', n \in Items(outbound) : n < rows'[i].line => n \in requeued
  BY <1>1, <1>2 DEF OrderInv
<1> QED
  BY <1>3, <1>4, <1>5, <1>6, <1>7

LEMMA InsertPlaces ==
  ASSUME TypeOK, WriteInv, OrderInv, Insert
  PROVE  WriteInv' /\ OrderInv'
<1>1. /\ pc = "insert" /\ pc' = "drain" /\ rows' = Append(rows, OwnRow(held)) /\ held' = 0
      /\ UNCHANGED <<outbound, requeued, unacked, relayed>>
      /\ held \in Nat
  BY BoundAssumption DEF Insert, TypeOK, DataTypeOK
<1>2. /\ OwnRow(held) \in Row /\ OwnRow(held).origin = ServerOrigin
      /\ OwnRow(held).line = held
  BY <1>1, RowTypes DEF OwnRow
<1>3. /\ DuplicateOnlyAfterLostAck' /\ ReorderOnlyByRequeue'
      /\ \A i \in OwnRows' : rows'[i].line \in Lines
      /\ \A i \in OwnRows' : rows'[i].line \in Items(outbound) => rows'[i].line \in unacked
      /\ \A i \in OwnRows', n \in Items(outbound) : n < rows'[i].line => n \in requeued
  BY <1>1, <1>2, WriteHeld
<1>4. /\ Waiting' = Items(outbound) /\ Items(outbound)' = Items(outbound) /\ Lines' = Lines
      /\ Items(outbound) \subseteq Lines
  BY <1>1 DEF Waiting, Items, Lines, WriteInv
<1>5. 0 \notin Items(outbound)
  BY <1>4 DEF Lines
<1>6. WriteInv'
  BY <1>1, <1>3, <1>4, <1>5 DEF WriteInv
<1>7. OrderInv'
  BY <1>1, <1>3, <1>4 DEF OrderInv
<1> QED
  BY <1>6, <1>7

(* The line in hand goes back to the end of the queue.                     *)
LEMMA RequeuePlaces ==
  ASSUME TypeOK, WriteInv, OrderInv, NEW line \in 1 .. MaxLines,
         InsertFails(line) \/ InsertRefused(line)
  PROVE  WriteInv' /\ OrderInv'
<1>1. /\ pc = "insert" /\ pc' = "backoff" /\ line = held /\ held' = 0
      /\ outbound' = Push(outbound, held, QueueMax) /\ requeued' = requeued \cup {held}
      /\ relayed' = relayed /\ unacked \subseteq unacked'
      /\ held \in Nat /\ held \in 1 .. MaxLines
  BY DEF InsertFails, InsertRefused, MarkFailure, Requeue
<1>2. /\ outbound \in Seq(1 .. MaxLines) /\ outbound \in Seq(Nat)
      /\ QueueMax \in Nat \ {0} /\ Distinct(outbound) /\ held \notin Items(outbound)
      /\ Items(outbound) \subseteq Lines /\ held \in Lines /\ held # 0
  <2>1. outbound \in Seq(1 .. MaxLines) /\ 1 .. MaxLines \subseteq Nat
    BY BoundAssumption DEF TypeOK, DataTypeOK
  <2>2. outbound \in Seq(Nat)
    BY <2>1, SeqMonotonic
  <2>3. Distinct(outbound) /\ held \notin Items(outbound) /\ Waiting \subseteq Lines /\ held # 0
    BY <1>1 DEF WriteInv
  <2> QED
    BY <2>1, <2>2, <2>3, QueueAssumption DEF Waiting
<1>3. /\ Distinct(outbound') /\ Items(outbound') \subseteq Items(outbound) \cup {held}
  BY <1>1, <1>2, PushDistinct
<1>4. Sorted(outbound', requeued')
  BY <1>1, <1>2, SortedPush DEF OrderInv
<1>5. /\ OwnRow(held) \in Row /\ [OwnRow(held) EXCEPT !.committed = FALSE] \in Row
      /\ OwnRow(held).origin = ServerOrigin /\ OwnRow(held).line = held
      /\ [OwnRow(held) EXCEPT !.committed = FALSE].origin = ServerOrigin
      /\ [OwnRow(held) EXCEPT !.committed = FALSE].line = held
  BY <1>1, RowTypes DEF OwnRow
<1>6. /\ DuplicateOnlyAfterLostAck' /\ ReorderOnlyByRequeue'
      /\ \A i \in OwnRows' : rows'[i].line \in Lines
      /\ \A i \in OwnRows' :
           rows'[i].line \in Items(outbound) \cup {held} => rows'[i].line \in unacked'
      /\ \A i \in OwnRows', n \in Items(outbound) : n < rows'[i].line => n \in requeued
  <2>1. CASE rows' = rows
    <3>1. OwnRows' = OwnRows /\ Items(outbound) \cup {held} = Waiting
      BY <1>2, <2>1 DEF OwnRows, Waiting
    <3>2. DuplicateOnlyAfterLostAck' /\ ReorderOnlyByRequeue'
      BY <1>1, <2>1, <3>1
         DEF WriteInv, OrderInv, DuplicateOnlyAfterLostAck, ReorderOnlyByRequeue
    <3> QED
      BY <1>1, <2>1, <3>1, <3>2 DEF WriteInv, OrderInv
  <2>2. ASSUME NEW r \in Row, r.origin = ServerOrigin, r.line = held,
               rows' = Append(rows, r), unacked' = unacked \cup {held}
        PROVE  /\ DuplicateOnlyAfterLostAck' /\ ReorderOnlyByRequeue'
               /\ \A i \in OwnRows' : rows'[i].line \in Lines
               /\ \A i \in OwnRows' :
                    rows'[i].line \in Items(outbound) \cup {held} => rows'[i].line \in unacked'
               /\ \A i \in OwnRows', n \in Items(outbound) : n < rows'[i].line => n \in requeued
    <3>1. /\ DuplicateOnlyAfterLostAck' /\ ReorderOnlyByRequeue'
          /\ \A i \in OwnRows' : rows'[i].line \in Lines
          /\ \A i \in OwnRows' :
               rows'[i].line \in Items(outbound) => rows'[i].line \in unacked
          /\ \A i \in OwnRows', n \in Items(outbound) : n < rows'[i].line => n \in requeued
      BY <1>1, <2>2, WriteHeld
    <3> QED
      BY <2>2, <3>1
  <2>3. \/ rows' = rows
        \/ /\ rows' = Append(rows, OwnRow(held)) /\ unacked' = unacked \cup {held}
        \/ /\ rows' = Append(rows, [OwnRow(held) EXCEPT !.committed = FALSE])
           /\ unacked' = unacked \cup {held}
    BY <1>1 DEF InsertFails, InsertRefused
  <2> QED
    BY <1>5, <2>1, <2>2, <2>3
<1>7. /\ Items(outbound)' = Items(outbound') /\ Waiting' = Items(outbound') /\ Lines' = Lines
  BY <1>1 DEF Waiting, Items, Lines
<1>8. 0 \notin Items(outbound')
  BY <1>2, <1>3 DEF Lines
<1>9. WriteInv'
  BY <1>1, <1>2, <1>3, <1>6, <1>7, <1>8 DEF WriteInv
<1>10. OrderInv'
  BY <1>1, <1>3, <1>4, <1>6, <1>7 DEF OrderInv
<1> QED
  BY <1>9, <1>10

LEMMA RelayPlaces ==
  ASSUME TypeOK, WriteInv, OrderInv, RelayLine
  PROVE  WriteInv' /\ OrderInv'
<1> DEFINE line == relayed + 1
<1>1. /\ outbound' = Push(outbound, line, QueueMax) /\ relayed' = line
      /\ UNCHANGED <<pc, held, rows, requeued, unacked>> /\ relayed \in Nat
      /\ line \in Nat /\ line \in 1 .. MaxLines
  BY BoundAssumption DEF RelayLine, TypeOK, HistoryTypeOK
<1>2. Lines' = Lines \cup {line} /\ \A n \in Lines : n < line /\ n \in Nat
  BY <1>1 DEF Lines
<1> HIDE DEF line
<1>3. /\ outbound \in Seq(1 .. MaxLines) /\ outbound \in Seq(Nat)
      /\ QueueMax \in Nat \ {0} /\ Distinct(outbound)
      /\ Waiting \subseteq Lines /\ Items(outbound) \subseteq Waiting
  <2>1. outbound \in Seq(1 .. MaxLines) /\ 1 .. MaxLines \subseteq Nat
    BY BoundAssumption DEF TypeOK, DataTypeOK
  <2>2. outbound \in Seq(Nat)
    BY <2>1, SeqMonotonic
  <2> QED
    BY <2>1, <2>2, QueueAssumption DEF WriteInv, Waiting
<1>4. line \notin Lines /\ line # 0 /\ 0 \notin Lines
  BY <1>1, <1>2 DEF Lines
<1>5. line \notin Items(outbound)
  BY <1>3, <1>4
<1>6. Distinct(outbound') /\ Items(outbound') \subseteq Items(outbound) \cup {line}
  BY <1>1, <1>3, <1>5, PushDistinct
<1>7. \A n \in Items(outbound) : ~(line < n)
  BY <1>1, <1>2, <1>3
<1>8. Sorted(outbound', requeued)
  BY <1>1, <1>3, <1>7, SortedPush DEF OrderInv
<1>9. held = 0 \/ held \in Waiting
  BY DEF Waiting
<1>10. /\ Items(outbound)' = Items(outbound') /\ OwnRows' = OwnRows
       /\ Waiting' \subseteq Waiting \cup {line}
  BY <1>1, <1>6 DEF Items, OwnRows, Waiting
<1>11. held \notin Items(outbound')
  BY <1>3, <1>4, <1>6, <1>9 DEF WriteInv
<1>12. DuplicateOnlyAfterLostAck' /\ ReorderOnlyByRequeue'
  BY <1>1, <1>10 DEF WriteInv, OrderInv, DuplicateOnlyAfterLostAck, ReorderOnlyByRequeue
<1>13. \A i \in OwnRows : rows[i].line \in Lines /\ rows[i].line # line /\ ~(line < rows[i].line)
  BY <1>1, <1>2, <1>4 DEF WriteInv
<1>14. WriteInv'
  BY <1>1, <1>2, <1>3, <1>6, <1>10, <1>11, <1>12, <1>13 DEF WriteInv
<1>15. held # 0 => ~(line < held)
  BY <1>1, <1>2, <1>3, <1>9
<1>16. OrderInv'
  <2>1. held' # 0 => \A n \in Items(outbound') : n < held' => n \in requeued'
    BY <1>1, <1>6, <1>15 DEF OrderInv
  <2>2. \A i \in OwnRows', n \in Waiting' : n < rows'[i].line => n \in requeued'
    BY <1>1, <1>10, <1>13 DEF OrderInv
  <2> QED
    BY <1>1, <1>8, <1>10, <1>12, <2>1, <2>2 DEF OrderInv
<1> QED
  BY <1>14, <1>16

LEMMA NextPlaces == TypeOK /\ WriteInv /\ OrderInv /\ [Next]_vars => WriteInv' /\ OrderInv'
<1> SUFFICES ASSUME TypeOK, WriteInv, OrderInv, [Next]_vars PROVE WriteInv' /\ OrderInv'
  OBVIOUS
<1>r. rows \in Seq(Row)
  BY DEF TypeOK, DataTypeOK
<1>1. CASE Still
  BY <1>1, StillPlaces, SameLines DEF OwnRows
<1>2. CASE TakeOutbound
  BY <1>2, TakeOutboundPlaces
<1>3. CASE Insert
  BY <1>3, InsertPlaces
<1>4. ASSUME NEW line \in 1 .. MaxLines, InsertFails(line) \/ InsertRefused(line)
      PROVE  WriteInv' /\ OrderInv'
  BY <1>4, RequeuePlaces
<1>5. CASE RelayLine
  BY <1>5, RelayPlaces
<1>6. CASE Restart
  <2>1. /\ outbound' = <<>> /\ held' = 0 /\ pc' = "new"
        /\ UNCHANGED <<rows, requeued, unacked, relayed>>
    BY <1>6 DEF Restart, Fresh
  <2>2. /\ Items(outbound)' = {} /\ Waiting' = {} /\ OwnRows' = OwnRows /\ Lines' = Lines
    BY <2>1 DEF Items, Waiting, OwnRows, Lines
  <2>3. Distinct(outbound') /\ Sorted(outbound', requeued')
    BY <2>1 DEF Distinct, Sorted
  <2>4. DuplicateOnlyAfterLostAck' /\ ReorderOnlyByRequeue'
    BY <2>1, <2>2 DEF WriteInv, OrderInv, DuplicateOnlyAfterLostAck, ReorderOnlyByRequeue
  <2> QED
    BY <2>1, <2>2, <2>3, <2>4 DEF WriteInv, OrderInv
<1>7. ASSUME NEW peer \in Peers, PeerInsert(peer) \/ PeerTakeId(peer)
      PROVE  WriteInv' /\ OrderInv'
  <2>1. \A committed \in BOOLEAN :
          PeerRow(peer, committed) \in Row /\ PeerRow(peer, committed).origin # ServerOrigin
    BY RowTypes, OriginAssumption DEF PeerRow
  <2>2. OwnRows' = OwnRows /\ \A i \in OwnRows : rows'[i].line = rows[i].line
    BY <1>7, <1>r, <2>1, AppendOwn DEF PeerInsert, PeerTakeId
  <2> QED
    BY <1>7, <2>2, SameLines DEF PeerInsert, PeerTakeId
<1>8. ASSUME NEW id \in Open, Commit(id)
      PROVE  WriteInv' /\ OrderInv'
  <2>1. OwnRows' = OwnRows /\ \A i \in OwnRows : rows'[i].line = rows[i].line
    BY <1>8, <1>r, CommitOwn DEF Commit, Open
  <2> QED
    BY <1>8, <2>1, SameLines DEF Commit
<1> QED
  BY <1>1, <1>2, <1>3, <1>4, <1>5, <1>6, <1>7, <1>8 DEF Next, Worker, Environment, Still

LEMMA InitPlaces == Init => WriteInv /\ OrderInv
BY DEF Init, WriteInv, OrderInv, Waiting, Items, Lines, OwnRows, Distinct, Sorted,
       DuplicateOnlyAfterLostAck, ReorderOnlyByRequeue

(* DuplicateOnlyAfterLostAck: requeueing a line whose INSERT failed writes *)
(* it twice only if the first INSERT had been committed after all.         *)
THEOREM DuplicatesCorrect == Spec => []DuplicateOnlyAfterLostAck
<1>1. WriteInv => DuplicateOnlyAfterLostAck
  BY DEF WriteInv
<1> QED
  BY <1>1, InitTypeOK, NextTypeOK, InitPlaces, NextPlaces, PTL DEF Spec

(* ReorderOnlyByRequeue: the lines of this server are in the table in the  *)
(* order they were typed, but for those that were pushed back.             *)
THEOREM WriteOrderCorrect == Spec => []ReorderOnlyByRequeue
<1>1. OrderInv => ReorderOnlyByRequeue
  BY DEF OrderInv
<1> QED
  BY <1>1, InitTypeOK, NextTypeOK, InitPlaces, NextPlaces, PTL DEF Spec

-----------------------------------------------------------------------------
(* The saved cursor                                                        *)

(* The cursor is the id of a row that can be seen, and what it is about to *)
(* be set to is not before it.                                             *)
CursorInv ==
  /\ cursorRow \in Visible \cup {0}
  /\ pc = "upsert" => cursorRow <= maxId /\ maxId \in Visible \cup {0}
  /\ pc = "ack" => cursorRow <= rowId /\ rowId \in Visible

LEMMA AppendVisible ==
  ASSUME rows \in Seq(Row), NEW r \in Row, rows' = Append(rows, r)
  PROVE  Visible \subseteq Visible'
<1>1. /\ Len(rows') = Len(rows) + 1 /\ Len(rows) \in Nat
      /\ \A id \in 1 .. Len(rows) : rows'[id] = rows[id]
  BY AppendProperties, LenProperties
<1> QED
  BY <1>1 DEF Visible

LEMMA CommitVisible ==
  ASSUME rows \in Seq(Row), NEW id \in Open, Commit(id)
  PROVE  Visible' = Visible \cup {id}
<1> DEFINE row == [rows[id] EXCEPT !.committed = TRUE]
<1>1. rows' = [rows EXCEPT ![id] = row] /\ id \in 1 .. Len(rows)
  BY DEF Commit, Open
<1>2. rows[id] \in Row
  BY <1>1, ElementOfSeq
<1>3. row \in Row /\ row.committed
  BY <1>2 DEF Row
<1>4. /\ Len(rows') = Len(rows)
      /\ \A j \in 1 .. Len(rows) : rows'[j] = IF j = id THEN row ELSE rows[j]
  BY <1>1, <1>3, ExceptSeq
<1> QED
  BY <1>1, <1>3, <1>4 DEF Visible

(* No committed row disappears.                                            *)
LEMMA NextVisible ==
  ASSUME TypeOK, [Next]_vars
  PROVE  Visible \subseteq Visible'
<1>r. rows \in Seq(Row) /\ held \in Nat /\ \A line \in 1 .. MaxLines : line \in Nat
  BY BoundAssumption DEF TypeOK, DataTypeOK
<1>1. CASE rows' = rows
  BY <1>1 DEF Visible
<1>2. CASE Insert
  BY <1>2, <1>r, RowTypes, AppendVisible DEF Insert
<1>3. ASSUME NEW line \in 1 .. MaxLines, InsertFails(line), rows' # rows
      PROVE  Visible \subseteq Visible'
  BY <1>3, <1>r, RowTypes, AppendVisible DEF InsertFails
<1>4. ASSUME NEW peer \in Peers, PeerInsert(peer) \/ PeerTakeId(peer)
      PROVE  Visible \subseteq Visible'
  BY <1>4, <1>r, RowTypes, AppendVisible DEF PeerInsert, PeerTakeId
<1>5. ASSUME NEW id \in Open, Commit(id)
      PROVE  Visible \subseteq Visible'
  BY <1>5, <1>r, CommitVisible
<1>6. CASE Still
  BY <1>1, <1>6, StillLines
<1>7. TakeOutbound \/ RelayLine \/ Restart \/ (\E line \in 1 .. MaxLines : InsertRefused(line))
        => rows' = rows
  BY DEF TakeOutbound, RelayLine, Restart, InsertRefused
<1> QED
  BY <1>1, <1>2, <1>3, <1>4, <1>5, <1>6, <1>7 DEF Next, Worker, Environment, Still

LEMMA QuietCursor ==
  ASSUME TypeOK, CursorInv, [Next]_vars, cursorRow' = cursorRow,
         pc' \in {"upsert", "ack"} => UNCHANGED <<pc, maxId, rowId>>
  PROVE  CursorInv' /\ cursorRow' >= cursorRow
<1>1. Visible \subseteq Visible'
  BY NextVisible
<1> QED
  BY <1>1 DEF CursorInv, TypeOK, DataTypeOK

(* Where the cursor is written, and where its next value is found.         *)
MovesCursor == \/ SelectMaxId \/ InitCursor \/ InitCursorFails \/ UpdateCursor
               \/ UpdateCursorFails \/ \E id \in batch : FetchRow(id)

LEMMA OthersKeepCursor ==
  ASSUME [Next]_vars, ~MovesCursor
  PROVE  /\ cursorRow' = cursorRow
         /\ pc' \in {"upsert", "ack"} => UNCHANGED <<pc, maxId, rowId>>
<1>1. CASE Outside
  BY <1>1 DEF Outside, Start, Stop, RelayLine, TakeInbound, PollTimer, vars, PeerInsert,
              PeerTakeId, Commit
<1>2. CASE \/ BackOff \/ TakeOutbound \/ DrainDone \/ Insert \/ PollOrNap \/ Select
           \/ PollDone \/ Nap \/ SeeStop \/ AlreadyConnected \/ Connect
  BY <1>2 DEF BackOff, TakeOutbound, DrainDone, Insert, PollOrNap, Select, PollDone, Nap,
              SeeStop, AfterSleep, AlreadyConnected, Connect, PollPlace
<1>3. CASE \/ ConnectFails \/ SelectMaxIdFails \/ PollFails \/ Exit \/ Restart
           \/ \E line \in 1 .. MaxLines : InsertFails(line) \/ InsertRefused(line)
  BY <1>3 DEF ConnectFails, SelectMaxIdFails, PollFails, Exit, Restart, Fresh, InsertFails,
              InsertRefused, MarkFailure
<1> QED
  BY <1>1, <1>2, <1>3 DEF Next, Worker, Environment, Outside, MovesCursor

LEMMA NextCursorInv ==
  TypeOK /\ FeedInv /\ FlagInv /\ CursorInv /\ [Next]_vars =>
    CursorInv' /\ cursorRow' >= cursorRow
<1> SUFFICES ASSUME TypeOK, FeedInv, FlagInv, CursorInv, [Next]_vars
             PROVE  CursorInv' /\ cursorRow' >= cursorRow
  OBVIOUS
<1>t. cursorRow \in Nat /\ maxId \in Nat /\ rowId \in Nat /\ cursorId \in Int
      /\ batch \subseteq Nat
  BY DEF TypeOK, DataTypeOK
<1>1. CASE ~MovesCursor
  BY <1>1, OthersKeepCursor, QuietCursor
<1>2. CASE SelectMaxId
  (* The saved cursor is a row that can be seen: MAX(id) is not before it. *)
  <2>1. /\ maxId' \in Visible \cup {0} /\ \A v \in Visible : v <= maxId'
        /\ maxId' \in Nat
        /\ cursorRow' = cursorRow /\ rows' = rows /\ pc' = "upsert"
    BY <1>2, NextTypeOK DEF SelectMaxId, IsMaxId, TypeOK, DataTypeOK
  <2>2. cursorRow <= maxId'
    BY <1>t, <2>1 DEF CursorInv
  <2>3. Visible' = Visible
    BY <2>1 DEF Visible
  <2> QED
    BY <1>t, <2>1, <2>2, <2>3 DEF CursorInv
<1>3. CASE InitCursor
  <2>1. /\ pc = "upsert" /\ cursorRow' = maxId /\ rows' = rows /\ pc' = "drain"
    BY <1>3 DEF InitCursor, SetCursor
  <2>2. Visible' = Visible
    BY <2>1 DEF Visible
  <2> QED
    BY <1>t, <2>1, <2>2 DEF CursorInv
<1>4. CASE InitCursorFails
  <2>1. /\ pc = "upsert" /\ cursorRow' \in {cursorRow, maxId} /\ rows' = rows
        /\ pc' = "backoff"
    BY <1>4 DEF InitCursorFails, MarkFailure
  <2>2. Visible' = Visible
    BY <2>1 DEF Visible
  <2> QED
    BY <1>t, <2>1, <2>2 DEF CursorInv
<1>5. CASE UpdateCursor
  <2>1. /\ pc = "ack" /\ cursorRow' = rowId /\ rows' = rows /\ pc' = "fetch"
    BY <1>5 DEF UpdateCursor
  <2>2. Visible' = Visible
    BY <2>1 DEF Visible
  <2> QED
    BY <1>t, <2>1, <2>2 DEF CursorInv
<1>6. CASE UpdateCursorFails
  <2>1. /\ pc = "ack" /\ cursorRow' \in {cursorRow, rowId} /\ rows' = rows
        /\ pc' = "backoff"
    BY <1>6 DEF UpdateCursorFails, MarkFailure
  <2>2. Visible' = Visible
    BY <2>1 DEF Visible
  <2> QED
    BY <1>t, <2>1, <2>2 DEF CursorInv
<1>7. ASSUME NEW id \in batch, FetchRow(id)
      PROVE  CursorInv' /\ cursorRow' >= cursorRow
  <2>1. /\ pc = "fetch" /\ cursorRow' = cursorRow /\ rows' = rows /\ pc' = "ack"
        /\ rowId' = id
    BY <1>7 DEF FetchRow
  <2>2. cursorRow < id /\ id \in Visible
    BY <1>t, <2>1 DEF FeedInv, FlagInv, Pass, Foreign
  <2>3. Visible' = Visible
    BY <2>1 DEF Visible
  <2> QED
    BY <1>t, <2>1, <2>2, <2>3 DEF CursorInv
<1> QED
  BY <1>1, <1>2, <1>3, <1>4, <1>5, <1>6, <1>7 DEF MovesCursor

(* CursorNeverRewinds: not even a restart, or a write whose outcome is not *)
(* known, moves the saved cursor back over rows already handed on.         *)
THEOREM CursorCorrect == Spec => CursorNeverRewinds
<1>1. Init => CursorInv /\ FlagInv
  BY DEF Init, CursorInv, FlagInv, Pass
<1>2. TypeOK /\ FeedInv /\ FlagInv /\ CursorInv /\ [Next]_vars => [cursorRow' >= cursorRow]_vars
  BY NextCursorInv
<1>3. TypeOK /\ FeedInv /\ FlagInv /\ CursorInv /\ [Next]_vars => CursorInv'
  BY NextCursorInv
<1> QED
  BY <1>1, <1>2, <1>3, InitTypeOK, NextTypeOK, InitFeedInv, NextFeedInv, NextFlagInv, PTL
  DEF Spec, CursorNeverRewinds

-----------------------------------------------------------------------------
(* The feed without gaps.  The two results below are about a table whose   *)
(* rows become visible in the order of their ids: MaxOpen = 0.             *)

(* The worker is between a good connect and the end of a pass, or a live   *)
(* feed, only with a connection; cursor_ready is set once per connection.  *)
FlowInv ==
  /\ cursorReady \/ pc \in Pass \cup {"max", "upsert"} => connected
  /\ pc = "max" => ~cursorReady

(* What is in the batch comes first of all that is left to hand over, and  *)
(* what is owed is left to hand over.                                      *)
PromptInv ==
  /\ Open = {}
  /\ pc \in {"fetch", "ack"} =>
       \A id \in batch, other \in Foreign \ batch : other > Position => id < other
  /\ owed \subseteq Foreign
  /\ ~Live => owed = {}
  /\ Live => \A id \in owed : id > Position

LEMMA NextFlowInv == FlowInv /\ [Next]_vars => FlowInv'
<1> SUFFICES ASSUME FlowInv, [Next]_vars
             PROVE  FlowInv'
  OBVIOUS
<1>1. CASE Loses \/ \E line \in 1 .. MaxLines : InsertFails(line)
  BY <1>1, LosesFlags DEF FlowInv
<1>2. CASE Outside
  BY <1>2, OutsideFlags DEF FlowInv, Pass
<1>3. CASE Proceeds
  <2>1. pc' # "max"
    BY <1>3 DEF Proceeds, BackOff, SelectMaxId, TakeOutbound, DrainDone, Insert, PollOrNap,
                PollPlace, Select, FetchRow, PollDone, Nap, SeeStop, AfterSleep
  <2> QED
    BY <1>3, <2>1, ProceedsFlags DEF FlowInv, Pass
<1>4. CASE AlreadyConnected
  BY <1>4 DEF AlreadyConnected, FlowInv
<1>5. CASE Connect
  BY <1>5 DEF Connect, FlowInv
<1>6. CASE InitCursor \/ UpdateCursor
  BY <1>6 DEF InitCursor, SetCursor, UpdateCursor, FlowInv, Pass
<1> QED
  BY <1>1, <1>2, <1>3, <1>4, <1>5, <1>6 DEF Next, Worker, Environment, Outside, Proceeds, Loses

(* The steps that touch neither table nor feed keep its position.          *)
LEMMA IdlesPosition ==
  ASSUME Idles
  PROVE  /\ UNCHANGED <<rows, pushed, batch, owed>>
         /\ Live' = Live /\ Position' = Position
         /\ pc' \in {"fetch", "ack"} => pc' = pc
<1>1. /\ UNCHANGED <<cursorReady, cursorId, rowId, owed>>
      /\ pc = "upsert" <=> pc' = "upsert"
      /\ pc = "upsert" => maxId' = maxId
      /\ pc' \in {"fetch", "ack"} \/ pc = "ack" => pc' = pc
  BY DEF Idles, AlreadyConnected, Connect, BackOff, TakeOutbound, DrainDone, PollOrNap,
         PollDone, Nap, SeeStop, Start, Stop, RelayLine, TakeInbound, PollTimer, vars,
         AfterSleep, PollPlace
<1> QED
  BY <1>1, IdlesFeed DEF Live, Position

(* Losing the feed forgives what it owed.                                  *)
LEMMA LosesOwed ==
  ASSUME FlagInv, FlowInv, PromptInv, Loses
  PROVE  owed' = {} /\ ~Live' /\ pc' \notin {"fetch", "ack"}
<1>1. ~Live' /\ pc' \notin {"fetch", "ack"}
  BY LosesFeed DEF Live, Pass
<1>2. CASE ConnectFails
  BY <1>1, <1>2 DEF ConnectFails, FlagInv, FlowInv, PromptInv, Live
<1>3. CASE ~ConnectFails
  BY <1>1, <1>3 DEF Loses, SelectMaxIdFails, InitCursorFails, UpdateCursorFails, PollFails,
                    Exit, Restart, InsertRefused, MarkFailure
<1> QED
  BY <1>1, <1>2, <1>3

(* With no row on its way, every row is visible and a new one is the last. *)
LEMMA AppendOpen ==
  ASSUME rows \in Seq(Row), Open = {}, NEW r \in Row, r.committed, rows' = Append(rows, r)
  PROVE  /\ Open' = {} /\ Len(rows) \in Nat /\ Len(rows') = Len(rows) + 1
         /\ Foreign' = IF r.origin # ServerOrigin THEN Foreign \cup {Len(rows) + 1} ELSE Foreign
<1>1. /\ Len(rows') = Len(rows) + 1 /\ Len(rows) \in Nat
      /\ \A id \in 1 .. Len(rows) : rows'[id] = rows[id]
      /\ rows'[Len(rows) + 1] = r
  BY AppendProperties, LenProperties
<1>2. Open' = {}
  BY <1>1 DEF Open
<1>3. \A id \in 1 .. Len(rows') : id \in Foreign' <=>
        IF id \in 1 .. Len(rows) THEN id \in Foreign ELSE r.origin # ServerOrigin
  BY <1>1 DEF Foreign, Visible
<1>4. Foreign \subseteq 1 .. Len(rows) /\ Foreign' \subseteq 1 .. Len(rows')
  BY DEF Foreign, Visible
<1>5. 1 .. Len(rows') = 1 .. Len(rows) \cup {Len(rows) + 1} /\ Len(rows) + 1 \notin 1 .. Len(rows)
  BY <1>1
<1>6. CASE r.origin = ServerOrigin
  <2>1. Foreign' = Foreign
    BY <1>3, <1>4, <1>5, <1>6
  <2> QED
    BY <1>1, <1>2, <1>6, <2>1
<1>7. CASE r.origin # ServerOrigin
  <2>1. Foreign' = Foreign \cup {Len(rows) + 1}
    BY <1>3, <1>4, <1>5, <1>7
  <2> QED
    BY <1>1, <1>2, <1>7, <2>1
<1> QED
  BY <1>6, <1>7

(* The feed is never ahead of the table.                                   *)
LEMMA PositionInTable ==
  ASSUME TypeOK, FlagInv, CursorInv
  PROVE  /\ Len(rows) \in Nat /\ Visible \subseteq 1 .. Len(rows)
         /\ Foreign \subseteq 1 .. Len(rows)
         /\ Live => Position \in 0 .. Len(rows)
<1>1. Len(rows) \in Nat
  BY LenProperties DEF TypeOK, DataTypeOK
<1>2. Visible \subseteq 1 .. Len(rows)
  BY DEF Visible
<1>3. Visible \cup {0} \subseteq 0 .. Len(rows)
  BY <1>1, <1>2
<1>4. /\ pc = "upsert" => maxId \in Visible \cup {0}
      /\ pc = "ack" => rowId \in Visible
      /\ cursorReady => cursorId \in Visible \cup {0}
  BY DEF FlagInv, CursorInv
<1>5. Live => Position \in Visible \cup {0}
  BY <1>4 DEF Live, Position
<1> QED
  BY <1>1, <1>2, <1>3, <1>5 DEF Foreign

(* The row fetched is the next one that is left to hand over.              *)
LEMMA FetchesFirst ==
  ASSUME TypeOK, FeedInv, FlagInv, CursorInv, PromptInv, NEW id \in batch, FetchRow(id)
  PROVE  /\ PromptInv' /\ Live /\ Live' /\ Position' = id /\ id \in Foreign
         /\ Position \in 0 .. Len(rows) /\ Position < id
         /\ \A n \in Foreign : Position < n => id <= n
<1>1. /\ pc = "fetch" /\ pc' = "ack" /\ rowId' = id /\ batch' = batch \ {id}
      /\ owed' = owed \ {id} /\ cursorReady /\ cursorReady'
      /\ UNCHANGED rows
      /\ \A other \in batch : id <= other
      /\ batch \subseteq Foreign
  BY DEF FetchRow, FeedInv, Pass
<1>2. Live /\ Live' /\ Position = cursorId /\ Position' = id
  BY <1>1 DEF Live, Position
<1>3. /\ Len(rows) \in Nat /\ Foreign \subseteq 1 .. Len(rows)
      /\ Position \in 0 .. Len(rows)
  BY <1>2, PositionInTable
<1>4. Position < id
  BY <1>1, <1>2, <1>3 DEF FeedInv
<1>5. ASSUME NEW n \in Foreign, Position < n, n # id
      PROVE  id < n
  <2>1. CASE n \in batch
    BY <1>1, <1>3, <1>5, <2>1
  <2>2. CASE n \notin batch
    BY <1>1, <1>3, <1>5, <2>2 DEF PromptInv
  <2> QED
    BY <2>1, <2>2
<1>6. Foreign' = Foreign /\ Open' = {}
  BY <1>1 DEF Foreign, Visible, Open, PromptInv
<1>7. \A b \in batch', other \in Foreign' \ batch' : other > Position' => b < other
  <2> SUFFICES ASSUME NEW b \in batch', NEW other \in Foreign \ batch', other > id
               PROVE  b < other
    BY <1>2, <1>6
  <2>1. b \in batch /\ other \in Foreign \ batch
    BY <1>1, <1>3
  <2>2. other > Position
    BY <1>1, <1>3, <1>4, <2>1
  <2> QED
    BY <1>1, <2>1, <2>2 DEF PromptInv
<1>8. \A n \in owed' : n > Position'
  <2> SUFFICES ASSUME NEW n \in owed, n # id
               PROVE  n > id
    BY <1>1, <1>2
  <2>1. n \in Foreign /\ n > Position
    BY <1>2 DEF PromptInv
  <2> QED
    BY <1>1, <1>3, <1>5, <2>1
<1>9. owed' \subseteq Foreign'
  BY <1>1, <1>6 DEF PromptInv
<1>10. PromptInv'
  BY <1>1, <1>2, <1>6, <1>7, <1>8, <1>9 DEF PromptInv
<1> QED
  BY <1>1, <1>2, <1>3, <1>4, <1>5, <1>10

(* A row of this server leaves the position and the foreign rows alone.    *)
LEMMA InsertPrompt ==
  ASSUME TypeOK, FeedInv, PromptInv, Insert
  PROVE  /\ PromptInv' /\ Live /\ Live' /\ Position' = Position
         /\ rows' = Append(rows, OwnRow(held)) /\ UNCHANGED pushed
<1>1. /\ pc = "insert" /\ pc' = "drain" /\ UNCHANGED <<cursorReady, cursorId, owed, pushed>>
      /\ rows' = Append(rows, OwnRow(held)) /\ cursorReady
  BY DEF Insert, FeedInv, Pass
<1>2. Live /\ Live' /\ Position' = Position
  BY <1>1 DEF Live, Position
<1>3. held \in Nat /\ rows \in Seq(Row)
  BY BoundAssumption DEF TypeOK, DataTypeOK
<1>4. OwnRow(held) \in Row /\ OwnRow(held).committed /\ OwnRow(held).origin = ServerOrigin
  BY <1>3, RowTypes DEF OwnRow
<1>5. Open' = {} /\ Foreign' = Foreign
  BY <1>1, <1>3, <1>4, AppendOpen DEF PromptInv
<1> QED
  BY <1>1, <1>2, <1>5 DEF PromptInv

(* A row of another server is owed at once, and comes after all the rest.  *)
LEMMA PeerInsertPrompt ==
  ASSUME TypeOK, FeedInv, FlagInv, CursorInv, PromptInv, NEW peer \in Peers, PeerInsert(peer)
  PROVE  /\ PromptInv' /\ Live' = Live /\ Position' = Position
         /\ rows' = Append(rows, PeerRow(peer, TRUE)) /\ UNCHANGED pushed
<1>1. /\ UNCHANGED <<pc, cursorReady, cursorId, maxId, rowId, batch, pushed>>
      /\ rows' = Append(rows, PeerRow(peer, TRUE))
      /\ owed' = IF Live THEN owed \cup {Len(rows) + 1} ELSE owed
  BY DEF PeerInsert
<1>2. Live' = Live /\ Position' = Position
  BY <1>1 DEF Live, Position
<1>3. rows \in Seq(Row)
  BY DEF TypeOK, DataTypeOK
<1>4. /\ PeerRow(peer, TRUE) \in Row /\ PeerRow(peer, TRUE).committed
      /\ PeerRow(peer, TRUE).origin # ServerOrigin
  BY OriginAssumption, RowTypes DEF PeerRow
<1>5. Open' = {} /\ Foreign' = Foreign \cup {Len(rows) + 1}
  BY <1>1, <1>3, <1>4, AppendOpen DEF PromptInv
<1>6. /\ Len(rows) \in Nat /\ Foreign \subseteq 1 .. Len(rows)
      /\ Live => Position \in 0 .. Len(rows)
  BY PositionInTable
<1>7. ASSUME pc' \in {"fetch", "ack"},
             NEW b \in batch', NEW other \in Foreign' \ batch', other > Position'
      PROVE  b < other
  <2>1. b \in batch /\ batch \subseteq Foreign
    BY <1>1, <1>7 DEF FeedInv
  <2>2. CASE other \in Foreign
    BY <1>1, <1>2, <1>7, <2>1, <2>2 DEF PromptInv
  <2>3. CASE other = Len(rows) + 1
    BY <1>6, <2>1, <2>3
  <2> QED
    BY <1>5, <2>2, <2>3
<1>8. owed' \subseteq Foreign' /\ (~Live' => owed' = {})
  BY <1>1, <1>2, <1>5 DEF PromptInv
<1>9. Live' => \A id \in owed' : id > Position'
  BY <1>1, <1>2, <1>6 DEF PromptInv
<1>10. PromptInv'
  BY <1>5, <1>7, <1>8, <1>9 DEF PromptInv
<1> QED
  BY <1>1, <1>2, <1>10

(* An INSERT of this server that fails has not left an open row behind.    *)
LEMMA InsertFailsPrompt ==
  ASSUME MaxOpen = 0, TypeOK, FeedInv, PromptInv,
         NEW line \in 1 .. MaxLines, InsertFails(line)
  PROVE  /\ PromptInv' /\ Live /\ ~Live' /\ UNCHANGED pushed
         /\ rows' = rows \/ rows' = Append(rows, OwnRow(line))
<1>1. /\ pc = "insert" /\ pc' = "backoff" /\ cursorReady' = FALSE /\ owed' = {}
      /\ cursorReady /\ UNCHANGED pushed
  BY DEF InsertFails, MarkFailure, FeedInv, Pass
<1>2. Live /\ ~Live'
  BY <1>1 DEF Live
<1>3. rows' = rows \/ rows' = Append(rows, OwnRow(line))
  <2>1. Cardinality(Open) = 0
    BY FS_EmptySet DEF PromptInv
  <2> QED
    BY <2>1 DEF InsertFails
<1>4. rows \in Seq(Row)
  BY DEF TypeOK, DataTypeOK
<1>5. OwnRow(line) \in Row /\ OwnRow(line).committed
  <2>1. line \in Nat
    BY BoundAssumption
  <2>2. OwnRow(line) \in Row
    BY <2>1, RowTypes
  <2> QED
    BY <2>2 DEF OwnRow
<1>6. Open' = {}
  <2>1. CASE rows' = rows
    BY <2>1 DEF Open, PromptInv
  <2>2. CASE rows' = Append(rows, OwnRow(line))
    BY <1>4, <1>5, <2>2, AppendOpen DEF PromptInv
  <2> QED
    BY <1>3, <2>1, <2>2
<1> QED
  BY <1>1, <1>2, <1>3, <1>6 DEF PromptInv

(* The feed goes live at the end of the table.                             *)
LEMMA SelectMaxIdPrompt ==
  ASSUME TypeOK, FlowInv, PromptInv, SelectMaxId
  PROVE  /\ PromptInv' /\ ~Live /\ Live' /\ Position' = Len(rows)
         /\ UNCHANGED <<rows, pushed>>
<1>1. /\ pc = "max" /\ pc' = "upsert" /\ UNCHANGED <<rows, pushed, owed>>
      /\ maxId' \in 0 .. Len(rows) /\ \A v \in Visible : v <= maxId'
  BY DEF SelectMaxId, IsMaxId
<1>2. ~Live /\ Live' /\ Position' = maxId'
  BY <1>1 DEF Live, Position, FlowInv
<1>3. Len(rows) \in Nat
  BY LenProperties DEF TypeOK, DataTypeOK
<1>4. Visible = 1 .. Len(rows)
  BY DEF Visible, Open, PromptInv
<1>5. maxId' = Len(rows)
  BY <1>1, <1>3, <1>4
<1>6. Open' = {}
  BY <1>1 DEF Open, PromptInv
<1>7. owed' = {}
  BY <1>1, <1>2 DEF PromptInv
<1> QED
  BY <1>1, <1>2, <1>5, <1>6, <1>7 DEF PromptInv

(* The cursor catches up with the position.                                *)
LEMMA SetCursorPrompt ==
  ASSUME FeedInv, PromptInv, InitCursor \/ UpdateCursor
  PROVE  PromptInv' /\ Live /\ Live' /\ Position' = Position /\ UNCHANGED <<rows, pushed>>
<1>1. CASE InitCursor
  <2>1. /\ pc = "upsert" /\ pc' = "drain" /\ cursorId' = maxId /\ cursorReady'
        /\ UNCHANGED <<rows, pushed, owed>>
    BY <1>1 DEF InitCursor, SetCursor
  <2>2. Live /\ Live' /\ Position' = Position
    BY <2>1 DEF Live, Position
  <2>3. Open' = Open /\ Foreign' = Foreign
    BY <2>1 DEF Open, Foreign, Visible
  <2> QED
    BY <2>1, <2>2, <2>3 DEF PromptInv
<1>2. CASE UpdateCursor
  <2>1. /\ pc = "ack" /\ pc' = "fetch" /\ cursorId' = rowId /\ cursorReady /\ cursorReady'
        /\ UNCHANGED <<rows, pushed, owed, batch>>
    BY <1>2 DEF UpdateCursor, FeedInv, Pass
  <2>2. Live /\ Live' /\ Position' = Position
    BY <2>1 DEF Live, Position
  <2>3. Open' = Open /\ Foreign' = Foreign
    BY <2>1 DEF Open, Foreign, Visible
  <2> QED
    BY <2>1, <2>2, <2>3 DEF PromptInv
<1> QED
  BY <1>1, <1>2

(* The batch is the first rows after the cursor.                           *)
LEMMA SelectPrompt ==
  ASSUME PromptInv, Select
  PROVE  PromptInv' /\ Live' = Live /\ Position' = Position /\ UNCHANGED <<rows, pushed>>
<1>1. /\ pc = "select" /\ pc' = "fetch" /\ IsBatch(batch')
      /\ UNCHANGED <<rows, pushed, owed, cursorReady, cursorId>>
  BY DEF Select
<1>2. Live' = Live /\ Position' = Position /\ Position = cursorId
  BY <1>1 DEF Live, Position
<1>3. Open' = Open /\ Foreign' = Foreign
  BY <1>1 DEF Open, Foreign, Visible
<1>4. \A id \in batch', other \in Foreign \ batch' : other > Position => id < other
  BY <1>1, <1>2 DEF IsBatch, Selectable
<1> QED
  BY <1>1, <1>2, <1>3, <1>4 DEF PromptInv

(* Nothing is under way with MaxOpen = 0.                                  *)
LEMMA NeverOpen ==
  ASSUME MaxOpen = 0, PromptInv
  PROVE  (\A peer \in Peers : ~PeerTakeId(peer)) /\ ~\E id \in Open : Commit(id)
<1>1. Cardinality(Open) = 0
  BY FS_EmptySet DEF PromptInv
<1>2. ASSUME NEW peer \in Peers, PeerTakeId(peer)
      PROVE  FALSE
  BY <1>1, <1>2 DEF PeerTakeId
<1>3. Open = {}
  BY DEF PromptInv
<1> QED
  BY <1>2, <1>3

PromptAll == TypeOK /\ FeedInv /\ FlagInv /\ CursorInv /\ FlowInv /\ PromptInv

LEMMA NextPromptInv ==
  ASSUME MaxOpen = 0, PromptAll, [Next]_vars
  PROVE  PromptInv'
<1> USE DEF PromptAll
<1>1. CASE Loses
  <2>1. Open' = Open
    BY <1>1, LosesFeed DEF Open
  <2> QED
    BY <1>1, <2>1, LosesOwed DEF PromptInv
<1>2. CASE Idles
  <2>1. Open' = Open /\ Foreign' = Foreign
    BY <1>2, IdlesPosition DEF Open, Foreign, Visible
  <2> QED
    BY <1>2, <2>1, IdlesPosition DEF PromptInv
<1>3. CASE SelectMaxId
  BY <1>3, SelectMaxIdPrompt
<1>4. CASE InitCursor \/ UpdateCursor
  BY <1>4, SetCursorPrompt
<1>5. CASE Select
  BY <1>5, SelectPrompt
<1>6. ASSUME NEW id \in batch, FetchRow(id)
      PROVE  PromptInv'
  BY <1>6, FetchesFirst
<1>7. CASE Insert
  BY <1>7, InsertPrompt
<1>8. ASSUME NEW line \in 1 .. MaxLines, InsertFails(line)
      PROVE  PromptInv'
  BY <1>8, InsertFailsPrompt
<1>9. ASSUME NEW peer \in Peers, PeerInsert(peer)
      PROVE  PromptInv'
  BY <1>9, PeerInsertPrompt
<1> QED
  BY <1>1, <1>2, <1>3, <1>4, <1>5, <1>6, <1>7, <1>8, <1>9, NeverOpen, Steps

LEMMA InitPromptAll == Init => PromptAll
<1> SUFFICES ASSUME Init
             PROVE  PromptAll
  OBVIOUS
<1>1. TypeOK /\ FeedInv
  BY InitTypeOK, InitFeedInv
<1>2. FlagInv /\ CursorInv /\ FlowInv
  BY DEF Init, FlagInv, CursorInv, FlowInv, Pass
<1>3. Open = {} /\ ~Live
  BY EmptySeq DEF Init, Open, Live
<1>4. PromptInv
  BY <1>3 DEF Init, PromptInv
<1> QED
  BY <1>1, <1>2, <1>4 DEF PromptAll

LEMMA NextPromptAll == MaxOpen = 0 /\ PromptAll /\ [Next]_vars => PromptAll'
BY NextTypeOK, NextFeedInv, NextFlagInv, NextCursorInv, NextFlowInv, NextPromptInv DEF PromptAll

(* NothingSkipped: while the rows become visible in the order of their     *)
(* ids, a row that is owed to the game stays ahead of the cursor, so that  *)
(* a poll will find it.  The run relay_late_commit shows that the          *)
(* hypothesis is needed.                                                   *)
THEOREM NothingSkippedCorrect ==
  ASSUME MaxOpen = 0
  PROVE  Spec => []NothingSkipped
<1>1. PromptAll => NothingSkipped
  <2> SUFFICES ASSUME PromptAll, cursorReady, NEW id \in owed
               PROVE  id > cursorId
    BY DEF NothingSkipped
  <2>1. Live /\ id > Position /\ id \in Foreign
    BY DEF PromptAll, PromptInv, Live
  <2>2. /\ Foreign \subseteq 1 .. Len(rows) /\ Position \in 0 .. Len(rows)
        /\ Len(rows) \in Nat
    BY <2>1, PositionInTable DEF PromptAll
  <2>3. cursorId \in Nat /\ cursorRow = cursorId
    BY DEF PromptAll, TypeOK, DataTypeOK, FlagInv
  <2>4. CASE pc = "upsert"
    BY <2>1, <2>2, <2>3, <2>4 DEF Position, PromptAll, CursorInv
  <2>5. CASE pc = "ack"
    BY <2>1, <2>2, <2>3, <2>5 DEF Position, PromptAll, CursorInv
  <2>6. CASE pc \notin {"upsert", "ack"}
    BY <2>1, <2>6 DEF Position
  <2> QED
    BY <2>4, <2>5, <2>6
<1>2. PromptAll /\ [Next]_vars => PromptAll'
  BY NextPromptAll
<1> QED
  BY <1>1, <1>2, InitPromptAll, PTL DEF Spec
-----------------------------------------------------------------------------
(* The worker implements LiveFeed                                          *)

LogOf(table) == [id \in 1 .. Len(table) |-> table[id].origin # ServerOrigin]
Log  == [id \in Ids |-> rows[id].origin # ServerOrigin]
Mark == IF Live THEN Position ELSE Len(rows)

(* The log is a sequence, and a new row adds to its end.                   *)
LEMMA LogLen ==
  ASSUME NEW table \in Seq(Row)
  PROVE  LogOf(table) \in Seq(BOOLEAN) /\ Len(LogOf(table)) = Len(table)
<1> DEFINE log == LogOf(table)
<1>1. Len(table) \in Nat
  BY LenProperties
<1>2. log \in [1 .. Len(table) -> BOOLEAN]
  BY DEF LogOf
<1>3. log \in Seq(BOOLEAN)
  BY <1>1, <1>2, SeqDef
<1>4. DOMAIN log = 1 .. Len(log) /\ Len(log) \in Nat
  BY <1>3, LenProperties
<1>5. DOMAIN log = 1 .. Len(table)
  BY DEF LogOf
<1> QED
  BY <1>1, <1>3, <1>4, <1>5

LEMMA LogAppend ==
  ASSUME rows \in Seq(Row), NEW r \in Row, rows' = Append(rows, r)
  PROVE  Log' = Append(Log, r.origin # ServerOrigin)
<1> DEFINE foreign == r.origin # ServerOrigin
           log     == LogOf(rows)
           grown   == LogOf(rows')
           next    == Append(log, foreign)
<1>1. /\ Len(rows') = Len(rows) + 1 /\ Len(rows) \in Nat
      /\ \A id \in 1 .. Len(rows) : rows'[id] = rows[id]
      /\ rows'[Len(rows) + 1] = r
      /\ rows' \in Seq(Row)
  BY AppendProperties, LenProperties
<1>2. grown \in Seq(BOOLEAN) /\ Len(grown) = Len(rows) + 1
  BY <1>1, LogLen
<1>3. log \in Seq(BOOLEAN) /\ Len(log) = Len(rows) /\ foreign \in BOOLEAN
  BY LogLen
<1>4. /\ next \in Seq(BOOLEAN) /\ Len(next) = Len(rows) + 1
      /\ \A id \in 1 .. Len(rows) : next[id] = log[id]
      /\ next[Len(rows) + 1] = foreign
  BY <1>3, AppendProperties
<1>5. \A id \in 1 .. Len(rows) : grown[id] = log[id]
  BY <1>1 DEF LogOf
<1>6. grown[Len(rows) + 1] = foreign
  BY <1>1 DEF LogOf
<1>7. \A id \in 1 .. Len(grown) : grown[id] = next[id]
  BY <1>1, <1>2, <1>4, <1>5, <1>6
<1>8. grown = next
  BY <1>2, <1>4, <1>7, SeqEqual
<1> QED
  BY <1>8 DEF LogOf, Log, Ids
(* The steps of LiveFeed in the terms of the worker.                       *)
LEMMA FeedPublish ==
  ASSUME NEW foreign \in BOOLEAN, Log' = Append(Log, foreign), Live' = Live,
         Mark' = IF Live THEN Mark ELSE Len(Log'), pushed' = pushed
  PROVE  Feed!Next
<1>1. Feed!Publish(foreign)
  BY DEF Feed!Publish, Log, Mark
<1> QED
  BY <1>1 DEF Feed!Next

LEMMA FeedGoLive ==
  ASSUME ~Live, Live', Log' = Log, Mark' = Mark, pushed' = pushed
  PROVE  Feed!Next
<1>1. Feed!GoLive
  BY DEF Feed!GoLive, Log, Mark
<1> QED
  BY <1>1 DEF Feed!Next

LEMMA FeedLose ==
  ASSUME Live, ~Live', Log' \in {Log, Append(Log, FALSE)}, Mark' = Len(Log'),
         pushed' = pushed
  PROVE  Feed!Next
<1>1. Live' = FALSE
  BY DEF Live
<1>2. Feed!Lose
  BY <1>1 DEF Feed!Lose, Log, Mark
<1> QED
  BY <1>2 DEF Feed!Next

LEMMA FeedDeliver ==
  ASSUME NEW n \in 1 .. Len(Log), Live, n > Mark, Log[n],
         \A m \in Mark + 1 .. n - 1 : ~Log[m],
         Mark' = n, pushed' = Append(pushed, n), Log' = Log, Live' = Live
  PROVE  Feed!Next
<1>1. Feed!Deliver(n)
  BY DEF Feed!Deliver, Log, Mark
<1> QED
  BY <1>1 DEF Feed!Next, Log

LEMMA FeedStutter ==
  ASSUME UNCHANGED <<Log, Live, Mark, pushed>>
  PROVE  UNCHANGED Feed!vars
BY DEF Feed!vars, Log, Mark

LEMMA FeedStep ==
  ASSUME MaxOpen = 0, PromptAll, [Next]_vars
  PROVE  [Feed!Next]_(Feed!vars)
<1> USE DEF PromptAll
<1>r. rows \in Seq(Row) /\ held \in Nat /\ \A line \in 1 .. MaxLines : line \in Nat
  BY BoundAssumption DEF TypeOK, DataTypeOK
<1>s. rows' \in Seq(Row)
  BY NextTypeOK DEF TypeOK, DataTypeOK
<1>l. Len(Log) = Len(rows) /\ Len(Log') = Len(rows')
  BY <1>r, <1>s, LogLen DEF Log, LogOf, Ids
<1>u. rows' = rows => Log' = Log
  BY DEF Log, Ids
<1>1. CASE Loses
  <2>1. rows' = rows /\ pushed' = pushed /\ ~Live'
    BY <1>1, LosesFeed, LosesOwed
  <2>2. Mark' = Len(rows)
    BY <2>1 DEF Mark
  <2>3. CASE Live
    BY <1>l, <1>u, <2>1, <2>2, <2>3, FeedLose
  <2>4. CASE ~Live
    <3>1. Mark = Len(rows)
      BY <2>4 DEF Mark
    <3>2. UNCHANGED <<Log, Live, Mark, pushed>>
      BY <1>u, <2>1, <2>2, <2>4, <3>1 DEF Live
    <3> QED
      BY <3>2, FeedStutter
  <2> QED
    BY <2>3, <2>4
<1>2. CASE Idles
  <2>1. rows' = rows /\ pushed' = pushed /\ Live' = Live /\ Position' = Position
    BY <1>2, IdlesPosition
  <2>2. Mark' = Mark
    BY <2>1 DEF Mark
  <2> QED
    BY <1>u, <2>1, <2>2, FeedStutter
<1>3. CASE SelectMaxId
  <2>1. rows' = rows /\ pushed' = pushed /\ ~Live /\ Live' /\ Position' = Len(rows)
    BY <1>3, SelectMaxIdPrompt
  <2>2. Mark' = Mark
    BY <2>1 DEF Mark
  <2> QED
    BY <1>u, <2>1, <2>2, FeedGoLive
<1>4. CASE InitCursor \/ UpdateCursor
  <2>1. rows' = rows /\ pushed' = pushed /\ Live /\ Live' /\ Position' = Position
    BY <1>4, SetCursorPrompt
  <2>2. Mark' = Mark /\ Live' = Live
    BY <2>1 DEF Mark, Live
  <2> QED
    BY <1>u, <2>1, <2>2, FeedStutter
<1>5. CASE Select
  <2>1. rows' = rows /\ pushed' = pushed /\ Live' = Live /\ Position' = Position
    BY <1>5, SelectPrompt
  <2>2. Mark' = Mark
    BY <2>1 DEF Mark
  <2> QED
    BY <1>u, <2>1, <2>2, FeedStutter
<1>6. ASSUME NEW id \in batch, FetchRow(id)
      PROVE  Feed!Next
  <2>1. /\ rows' = rows /\ pushed' = Append(pushed, id)
        /\ Live /\ Live' /\ Position' = id /\ id \in Foreign
        /\ Position \in 0 .. Len(rows) /\ Position < id
        /\ \A n \in Foreign : Position < n => id <= n
    BY <1>6, FetchesFirst DEF FetchRow
  <2>2. Mark = Position /\ Mark' = id /\ Live' = Live
    BY <2>1 DEF Mark, Live
  <2>3. Len(rows) \in Nat /\ Foreign \subseteq 1 .. Len(rows)
    BY PositionInTable
  <2>4. id \in 1 .. Len(Log)
    BY <1>l, <2>1, <2>3
  <2>5. Log[id]
    BY <2>1, <2>3 DEF Log, Ids, Foreign
  <2>6. ASSUME NEW m \in Mark + 1 .. id - 1
        PROVE  ~Log[m]
    <3>1. m \in 1 .. Len(rows) /\ Position < m /\ m < id
      BY <2>1, <2>2, <2>3
    <3>2. m \notin Foreign
      BY <2>1, <2>3, <3>1
    <3>3. rows[m].committed
      BY <3>1 DEF PromptInv, Open
    <3>4. rows[m].origin = ServerOrigin
      BY <3>1, <3>2, <3>3 DEF Foreign, Visible
    <3> QED
      BY <3>1, <3>4 DEF Log, Ids
  <2>7. id > Mark
    BY <2>1, <2>2, <2>3
  <2> QED
    BY <1>u, <2>1, <2>2, <2>4, <2>5, <2>6, <2>7, FeedDeliver
<1>7. CASE Insert
  <2>1. /\ Live /\ Live' /\ Position' = Position
        /\ rows' = Append(rows, OwnRow(held)) /\ pushed' = pushed
    BY <1>7, InsertPrompt
  <2>2. OwnRow(held) \in Row /\ OwnRow(held).origin = ServerOrigin
    BY <1>r, RowTypes DEF OwnRow
  <2>3. Log' = Append(Log, FALSE)
    BY <1>r, <2>1, <2>2, LogAppend
  <2>4. Mark' = Mark /\ Live' = Live
    BY <2>1 DEF Mark, Live
  <2> QED
    BY <2>1, <2>3, <2>4, FeedPublish
<1>8. ASSUME NEW line \in 1 .. MaxLines, InsertFails(line)
      PROVE  Feed!Next
  <2>1. /\ Live /\ ~Live' /\ pushed' = pushed
        /\ rows' = rows \/ rows' = Append(rows, OwnRow(line))
    BY <1>8, InsertFailsPrompt
  <2>2. OwnRow(line) \in Row /\ OwnRow(line).origin = ServerOrigin
    BY <1>r, RowTypes DEF OwnRow
  <2>3. rows' = Append(rows, OwnRow(line)) => Log' = Append(Log, FALSE)
    BY <1>r, <2>2, LogAppend
  <2>4. Mark' = Len(Log')
    BY <1>l, <2>1 DEF Mark
  <2> QED
    BY <1>u, <2>1, <2>3, <2>4, FeedLose
<1>9. ASSUME NEW peer \in Peers, PeerInsert(peer)
      PROVE  Feed!Next
  <2>1. /\ Live' = Live /\ Position' = Position
        /\ rows' = Append(rows, PeerRow(peer, TRUE)) /\ pushed' = pushed
    BY <1>9, PeerInsertPrompt
  <2>2. PeerRow(peer, TRUE) \in Row /\ PeerRow(peer, TRUE).origin # ServerOrigin
    BY OriginAssumption, RowTypes DEF PeerRow
  <2>3. Log' = Append(Log, TRUE)
    BY <1>r, <2>1, <2>2, LogAppend
  <2>4. Mark' = IF Live THEN Mark ELSE Len(Log')
    BY <1>l, <2>1 DEF Mark
  <2> QED
    BY <2>1, <2>3, <2>4, FeedPublish
<1> QED
  BY <1>1, <1>2, <1>3, <1>4, <1>5, <1>6, <1>7, <1>8, <1>9, NeverOpen, Steps

(* FeedSpec: while rows become visible in the order of their ids, the      *)
(* worker is a LiveFeed.  Every row of another server that is inserted     *)
(* while the feed is live is handed over, once, in order and with none     *)
(* left out, whatever fails in between; the rest is never made up for.     *)
THEOREM FeedRefined ==
  ASSUME MaxOpen = 0
  PROVE  Spec => FeedSpec
<1>1. Init => Feed!Init
  <2> SUFFICES ASSUME Init
               PROVE  Feed!Init
    OBVIOUS
  <2>1. rows = <<>> /\ pushed = <<>> /\ ~Live
    BY DEF Init, Live
  <2>2. Len(rows) = 0 /\ rows \in Seq(Row)
    BY <2>1, EmptySeq
  <2>3. Log \in Seq(BOOLEAN) /\ Len(Log) = 0
    BY <2>2, LogLen DEF Log, LogOf, Ids
  <2>4. Log = <<>>
    BY <2>3, EmptySeq
  <2>5. Mark = 0
    BY <2>1, <2>2 DEF Mark
  <2> QED
    BY <2>1, <2>4, <2>5 DEF Feed!Init, Log, Mark
<1>2. PromptAll /\ [Next]_vars => [Feed!Next]_(Feed!vars)
  BY FeedStep
<1>3. PromptAll /\ [Next]_vars => PromptAll'
  BY NextPromptAll
<1> QED
  BY <1>1, <1>2, <1>3, InitPromptAll, PTL DEF Spec, FeedSpec, Feed!Spec
=============================================================================
