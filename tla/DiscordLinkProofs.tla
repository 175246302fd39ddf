-------------------------- MODULE DiscordLinkProofs --------------------------
(***************************************************************************)
(* Theorems about DiscordLink, for any number of servers, players, Discord *)
(* users, commands and faults, and any positive size of the queues.        *)
(***************************************************************************)
EXTENDS DiscordLink, BoundedQueueProofs

-----------------------------------------------------------------------------
(* Queues of several servers                                               *)

LEMMA PushQueue ==
  ASSUME NEW S, NEW N, NEW max \in Nat \ {0}, NEW queues \in [S -> Seq(N)],
         \A t \in S : Len(queues[t]) <= max, NEW s \in S, NEW n \in N
  PROVE  /\ [queues EXCEPT ![s] = Push(@, n, max)] \in [S -> Seq(N)]
         /\ \A t \in S : Len([queues EXCEPT ![s] = Push(@, n, max)][t]) <= max
         /\ Dropped(queues[s], max) \subseteq N
<1>1. /\ Push(queues[s], n, max) \in Seq(N) /\ Len(Push(queues[s], n, max)) <= max
      /\ Dropped(queues[s], max) \subseteq N
  BY PushType
<1> QED
  BY <1>1

LEMMA PopQueue ==
  ASSUME NEW S, NEW N, NEW max \in Nat \ {0}, NEW queues \in [S -> Seq(N)],
         \A t \in S : Len(queues[t]) <= max, NEW s \in S, CanPop(queues[s])
  PROVE  /\ Head(queues[s]) \in N
         /\ [queues EXCEPT ![s] = Tail(@)] \in [S -> Seq(N)]
         /\ \A t \in S : Len([queues EXCEPT ![s] = Tail(@)][t]) <= max
<1>1. /\ Head(queues[s]) \in N /\ Tail(queues[s]) \in Seq(N)
      /\ Len(queues[s]) \in Nat /\ Len(Tail(queues[s])) = Len(queues[s]) - 1
  BY PopType
<1>2. Len(Tail(queues[s])) <= max
  BY <1>1
<1> QED
  BY <1>1, <1>2

LEMMA GrowQueue ==
  ASSUME NEW S, NEW N, NEW M, N \subseteq M, NEW queues \in [S -> Seq(N)]
  PROVE  queues \in [S -> Seq(M)]
<1>1. \A q \in Seq(N) : q \in Seq(M)
  <2> SUFFICES ASSUME NEW q \in Seq(N) PROVE q \in Seq(M)
    OBVIOUS
  <2>1. Len(q) \in Nat /\ q \in [1 .. Len(q) -> N]
    BY LenProperties
  <2>2. q \in [1 .. Len(q) -> M]
    BY <2>1
  <2> QED
    BY <2>1, <2>2, SeqDef
<1> QED
  BY <1>1

-----------------------------------------------------------------------------
(* Types                                                                   *)

LEMMA CommandType ==
  ASSUME GameTypeOK, NEW n \in Numbers
  PROVE  /\ n \in 1 .. MaxCommands
         /\ Command(n).server \in Servers /\ Command(n).player \in Players
         /\ Command(n).code \in Discords
<1>1. /\ commands \in Seq([server : Servers, player : Players, code : Discords])
      /\ Len(commands) \in Nat /\ Len(commands) <= MaxCommands /\ MaxCommands \in Nat
  BY LimitAssumption, LenProperties DEF GameTypeOK
<1>2. commands[n] \in [server : Servers, player : Players, code : Discords]
  BY <1>1, ElementOfSeq DEF Numbers
<1> QED
  BY <1>1, <1>2 DEF Command, Numbers

LEMMA InitTypeOK == Init => TypeOK
<1> SUFFICES ASSUME Init PROVE TypeOK
  OBVIOUS
<1>1. Len(commands) = 0 /\ commands \in Seq([server : Servers, player : Players, code : Discords])
  BY EmptySeq DEF Init
<1>2. GameTypeOK
  BY <1>1, LimitAssumption DEF Init, GameTypeOK
<1>3. \A N : <<>> \in Seq(N) /\ Len(<<>>) = 0
  BY EmptySeq
<1>4. /\ QueueTypeOK(pending, PendingMax)
      /\ QueueTypeOK(jobs, QueueMax) /\ QueueTypeOK(results, QueueMax)
  BY <1>3, LimitAssumption DEF Init, QueueTypeOK
<1>5. TableTypeOK /\ WorkerTypeOK /\ HistoryTypeOK
  BY LimitAssumption DEF Init, TableTypeOK, WorkerTypeOK, HistoryTypeOK
<1> QED
  BY <1>2, <1>4, <1>5 DEF TypeOK

(* What push_result leaves behind.                                         *)
LEMMA PushResultType ==
  ASSUME TypeOK, NEW s \in Servers, at[s] # "idle", UNCHANGED commands,
         NEW notice \in Notices, PushResult(s, notice)
  PROVE  /\ QueueTypeOK(results, QueueMax)' /\ WorkerTypeOK'
         /\ answer' \in [1 .. MaxCommands -> Notices \cup {"none"}]
         /\ \A n \in 1 .. MaxCommands : answer'[n] # "none" => n \in Numbers'
         /\ lost' \subseteq Numbers'
<1>1. Numbers' = Numbers /\ job[s] \in Numbers
  BY DEF Numbers, TypeOK, WorkerTypeOK
<1>q. /\ results \in [Servers -> Seq(Numbers)] /\ QueueMax \in Nat \ {0}
      /\ \A t \in Servers : Len(results[t]) <= QueueMax
  BY LimitAssumption DEF TypeOK, QueueTypeOK
<1> DEFINE pushed == [results EXCEPT ![s] = Push(@, job[s], QueueMax)]
<1>r. /\ pushed \in [Servers -> Seq(Numbers)]
      /\ \A t \in Servers : Len(pushed[t]) <= QueueMax
      /\ Dropped(results[s], QueueMax) \subseteq Numbers
  BY <1>1, <1>q, PushQueue
<1>2. /\ results' \in [Servers -> Seq(Numbers)]
      /\ \A t \in Servers : Len(results'[t]) <= QueueMax
      /\ Dropped(results[s], QueueMax) \subseteq Numbers
  BY <1>r DEF PushResult
<1>3. QueueTypeOK(results, QueueMax)'
  BY <1>1, <1>2 DEF QueueTypeOK
<1>4. WorkerTypeOK'
  BY <1>1, LimitAssumption DEF PushResult, TypeOK, WorkerTypeOK
<1>5. answer' \in [1 .. MaxCommands -> Notices \cup {"none"}]
  BY <1>1 DEF PushResult, TypeOK, HistoryTypeOK
<1>6. \A n \in 1 .. MaxCommands : answer'[n] # "none" => n \in Numbers
  BY <1>1 DEF PushResult, TypeOK, HistoryTypeOK
<1>7. lost' \subseteq Numbers
  BY <1>2 DEF PushResult, TypeOK, HistoryTypeOK
<1> QED
  BY <1>1, <1>3, <1>4, <1>5, <1>6, <1>7

LEMMA UpdatePlayerType ==
  ASSUME TypeOK, NEW d \in Discords, NEW p \in Players, UpdatePlayer(d, p)
  PROVE  /\ code' \in [Discords -> BOOLEAN]
         /\ linked' \in [Discords -> Players \cup {Nobody}]
BY DEF TypeOK, TableTypeOK, UpdatePlayer

LEMMA NextTypeOK == TypeOK /\ [Next]_vars => TypeOK'
<1> SUFFICES ASSUME TypeOK, [Next]_vars
             PROVE  TypeOK'
  OBVIOUS
<1>t. /\ GameTypeOK /\ TableTypeOK /\ QueueTypeOK(pending, PendingMax)
      /\ QueueTypeOK(jobs, QueueMax) /\ QueueTypeOK(results, QueueMax)
      /\ WorkerTypeOK /\ HistoryTypeOK
  BY DEF TypeOK
<1>n. UNCHANGED commands => Numbers' = Numbers
  BY DEF Numbers
<1>1. ASSUME NEW p \in Players, NEW s \in Servers \cup {Nobody}, Move(p, s)
      PROVE  TypeOK'
  <2>1. GameTypeOK'
    BY <1>1, <1>t DEF Move, GameTypeOK
  <2> QED
    BY <1>1, <1>t, <1>n, <2>1
       DEF Move, TypeOK, TableTypeOK, QueueTypeOK, WorkerTypeOK, HistoryTypeOK
<1>2. ASSUME NEW d \in Discords, IssueCode(d)
      PROVE  TypeOK'
  <2>1. TableTypeOK'
    BY <1>2, <1>t DEF IssueCode, TableTypeOK
  <2> QED
    BY <1>2, <1>t, <1>n, <2>1
       DEF IssueCode, TypeOK, GameTypeOK, QueueTypeOK, WorkerTypeOK, HistoryTypeOK
<1>3. ASSUME NEW p \in Players, NEW d \in Discords, SetDiscord(p, d)
      PROVE  TypeOK'
  <2> DEFINE s == here[p]
             n == Len(commands) + 1
  <2>1. s \in Servers /\ n \in Nat /\ n <= MaxCommands /\ Len(commands) \in Nat
    BY <1>3, <1>t, LenProperties DEF SetDiscord, GameTypeOK
  <2>2. /\ commands' \in Seq([server : Servers, player : Players, code : Discords])
        /\ Len(commands') = n
    BY <1>3, <1>t, <2>1, AppendProperties DEF SetDiscord, GameTypeOK
  <2>3. Numbers \subseteq Numbers' /\ n \in Numbers'
    BY <2>1, <2>2 DEF Numbers
  <2>4. /\ pending \in [Servers -> Seq(Numbers')] /\ jobs \in [Servers -> Seq(Numbers')]
        /\ results \in [Servers -> Seq(Numbers')]
    <3>1. /\ pending \in [Servers -> Seq(Numbers)] /\ jobs \in [Servers -> Seq(Numbers)]
          /\ results \in [Servers -> Seq(Numbers)]
      BY <1>t DEF QueueTypeOK
    <3> HIDE DEF n
    <3> QED
      BY <2>3, <3>1, GrowQueue
  <2>q. PendingMax \in Nat \ {0} /\ \A t \in Servers : Len(pending[t]) <= PendingMax
    BY <1>t, LimitAssumption DEF QueueTypeOK
  <2>r. \A t \in Servers, m \in Numbers' :
          /\ [pending EXCEPT ![t] = Push(@, m, PendingMax)] \in [Servers -> Seq(Numbers')]
          /\ \A u \in Servers :
               Len([pending EXCEPT ![t] = Push(@, m, PendingMax)][u]) <= PendingMax
          /\ Dropped(pending[t], PendingMax) \subseteq Numbers'
    BY <2>4, <2>q, PushQueue
  <2>5. /\ pending' \in [Servers -> Seq(Numbers')]
        /\ \A t \in Servers : Len(pending'[t]) <= PendingMax
        /\ Dropped(pending[s], PendingMax) \subseteq Numbers'
    BY <1>3, <2>1, <2>3, <2>r DEF SetDiscord
  <2>6. GameTypeOK'
    BY <1>3, <1>t, <2>1, <2>2 DEF SetDiscord, GameTypeOK
  <2>7. /\ QueueTypeOK(pending, PendingMax)'
        /\ QueueTypeOK(jobs, QueueMax)' /\ QueueTypeOK(results, QueueMax)'
    BY <1>3, <1>t, <2>3, <2>4, <2>5 DEF SetDiscord, QueueTypeOK
  <2>8. WorkerTypeOK'
    BY <1>3, <1>t, <2>3 DEF SetDiscord, WorkerTypeOK
  <2>9. HistoryTypeOK'
    BY <1>3, <1>t, <2>3, <2>5 DEF SetDiscord, HistoryTypeOK
  <2>10. TableTypeOK'
    BY <1>3, <1>t DEF SetDiscord, TableTypeOK
  <2> QED
    BY <2>6, <2>7, <2>8, <2>9, <2>10 DEF TypeOK
<1>4. ASSUME NEW s \in Servers, FlushCommand(s)
      PROVE  TypeOK'
  <2> DEFINE n == Head(pending[s])
  <2>1. /\ n \in Numbers
        /\ pending' \in [Servers -> Seq(Numbers)]
        /\ \A t \in Servers : Len(pending'[t]) <= PendingMax
    BY ZenonT(40), <1>4, <1>t, PopQueue, LimitAssumption DEF FlushCommand, QueueTypeOK
  <2>q. /\ jobs \in [Servers -> Seq(Numbers)] /\ QueueMax \in Nat \ {0}
        /\ \A t \in Servers : Len(jobs[t]) <= QueueMax
    BY <1>t, LimitAssumption DEF QueueTypeOK
  <2>2. /\ [jobs EXCEPT ![s] = Push(@, n, QueueMax)] \in [Servers -> Seq(Numbers)]
        /\ \A t \in Servers : Len([jobs EXCEPT ![s] = Push(@, n, QueueMax)][t]) <= QueueMax
        /\ Dropped(jobs[s], QueueMax) \subseteq Numbers
    <3> HIDE DEF n
    <3> QED
      BY <2>1, <2>q, PushQueue
  <2>3. Numbers' = Numbers
    BY <1>4, <1>n DEF FlushCommand
  <2>4. GameTypeOK'
    <3>1. /\ UNCHANGED <<here, commands>>
          /\ \/ UNCHANGED clients
             \/ \E reach \in {"uid", "controller"} : Register(s, Command(n).player, reach)
      BY <1>4 DEF FlushCommand
    <3> QED
      BY <1>t, <3>1 DEF GameTypeOK, Register
  <2>5. QueueTypeOK(pending, PendingMax)' /\ QueueTypeOK(jobs, QueueMax)'
    BY <1>4, <1>t, <2>1, <2>2, <2>3 DEF FlushCommand, QueueTypeOK
  <2>6. HistoryTypeOK'
    BY <1>4, <1>t, <2>1, <2>2, <2>3 DEF FlushCommand, HistoryTypeOK
  <2> QED
    BY <1>4, <1>t, <2>3, <2>4, <2>5, <2>6
       DEF FlushCommand, TypeOK, TableTypeOK, QueueTypeOK, WorkerTypeOK
<1>5. ASSUME NEW s \in Servers, DeliverLinkResult(s)
      PROVE  TypeOK'
  <2>1. /\ Head(results[s]) \in Numbers
        /\ results' \in [Servers -> Seq(Numbers)]
        /\ \A t \in Servers : Len(results'[t]) <= QueueMax
    BY ZenonT(40), <1>5, <1>t, PopQueue, LimitAssumption DEF DeliverLinkResult, QueueTypeOK
  <2>2. Numbers' = Numbers
    BY <1>5, <1>n DEF DeliverLinkResult
  <2>3. GameTypeOK'
    BY <1>5, <1>t DEF DeliverLinkResult, GameTypeOK
  <2>4. HistoryTypeOK'
    BY <1>5, <1>t, <2>1, <2>2 DEF DeliverLinkResult, HistoryTypeOK
  <2> QED
    BY <1>5, <1>t, <2>1, <2>2, <2>3, <2>4
       DEF DeliverLinkResult, TypeOK, TableTypeOK, QueueTypeOK, WorkerTypeOK
<1>6. ASSUME NEW s \in Servers, TakeJob(s)
      PROVE  TypeOK'
  <2>1. /\ Head(jobs[s]) \in Numbers
        /\ jobs' \in [Servers -> Seq(Numbers)]
        /\ \A t \in Servers : Len(jobs'[t]) <= QueueMax
    BY ZenonT(40), <1>6, <1>t, PopQueue, LimitAssumption DEF TakeJob, PopJob, QueueTypeOK
  <2>2. Numbers' = Numbers /\ Head(jobs[s]) \in 0 .. MaxCommands
    BY <1>6, <1>t, <1>n, <2>1, CommandType, LimitAssumption DEF TakeJob
  <2>3. WorkerTypeOK'
    BY <1>6, <1>t, <2>1, <2>2 DEF TakeJob, PopJob, WorkerTypeOK
  <2> QED
    BY <1>6, <1>t, <2>1, <2>2, <2>3
       DEF TakeJob, PopJob, TypeOK, GameTypeOK, TableTypeOK, QueueTypeOK, HistoryTypeOK
(* The statements of process_link_job either go on or push a result.       *)
<1>g. ASSUME NEW s \in Servers, NEW place \in {"lookup", "complete"}, GoOn(s, place),
             at[s] # "idle", TableTypeOK',
             UNCHANGED <<here, commands, pending, clients, jobs, handed, unsent>>
      PROVE  TypeOK'
  BY <1>g, <1>t, <1>n
     DEF GoOn, TypeOK, GameTypeOK, QueueTypeOK, WorkerTypeOK, HistoryTypeOK
<1>p. ASSUME NEW s \in Servers, NEW notice \in Notices, PushResult(s, notice),
             at[s] # "idle", TableTypeOK',
             UNCHANGED <<here, commands, pending, clients, jobs, handed, unsent>>
      PROVE  TypeOK'
  <2>1. GameTypeOK' /\ QueueTypeOK(pending, PendingMax)' /\ QueueTypeOK(jobs, QueueMax)'
    BY <1>p, <1>t, <1>n DEF GameTypeOK, QueueTypeOK
  <2>2. HistoryTypeOK'
    BY <1>p, <1>t, <1>n, PushResultType DEF HistoryTypeOK
  <2> QED
    BY <1>p, <2>1, <2>2, PushResultType DEF TypeOK
<1>f. Fault => faults' \in 0 .. MaxFaults
  BY <1>t, LimitAssumption DEF Fault, TableTypeOK
<1>c. ASSUME NEW s \in Servers, at[s] # "idle"
      PROVE  Command(job[s]).code \in Discords /\ Command(job[s]).player \in Players
  BY <1>c, <1>t, CommandType DEF WorkerTypeOK
<1>7. ASSUME NEW s \in Servers, CheckConflict(s) \/ LookupCode(s)
      PROVE  TypeOK'
  <2>1. TableTypeOK' /\ at[s] # "idle"
    BY <1>7, <1>t DEF CheckConflict, LookupCode, TableTypeOK
  <2>2. {"already linked", "invalid code"} \subseteq Notices
    BY DEF Notices
  <2> QED
    BY <1>7, <1>g, <1>p, <2>1, <2>2 DEF CheckConflict, LookupCode
<1>8. ASSUME NEW s \in Servers, ConflictUnread(s)
      PROVE  TypeOK'
  <2>1. TableTypeOK' /\ at[s] # "idle"
    BY <1>8, <1>t, <1>f DEF ConflictUnread, TableTypeOK
  <2> QED
    BY <1>8, <1>g, <2>1 DEF ConflictUnread
<1>9. ASSUME NEW s \in Servers, CompleteLink(s)
      PROVE  TypeOK'
  <2>1. at[s] # "idle" /\ Notice(Command(job[s]).code) \in Notices
    BY <1>9 DEF CompleteLink, Notice, Notices
  <2>2. TableTypeOK'
    BY <1>9, <1>t, <1>c, <2>1, UpdatePlayerType DEF CompleteLink, TableTypeOK
  <2> QED
    BY <1>9, <1>p, <2>1, <2>2 DEF CompleteLink
<1>10. ASSUME NEW s \in Servers, StatementFails(s)
       PROVE  TypeOK'
  <2>1. at[s] # "idle" /\ "database error" \in Notices
    BY <1>10 DEF StatementFails, Notices
  <2>2. TableTypeOK'
    BY <1>10, <1>t, <1>f, <1>c, <2>1, UpdatePlayerType DEF StatementFails, TableTypeOK
  <2> QED
    BY <1>10, <1>p, <2>1, <2>2 DEF StatementFails
<1>11. CASE UNCHANGED vars
  BY <1>11, <1>t, <1>n DEF vars, TypeOK, GameTypeOK, TableTypeOK, QueueTypeOK, WorkerTypeOK,
                           HistoryTypeOK
<1> QED
  BY <1>1, <1>2, <1>3, <1>4, <1>5, <1>6, <1>7, <1>8, <1>9, <1>10, <1>11
     DEF Next, GameThread, Worker

(* Every variable keeps its type, the four queues of every server their    *)
(* bound, and a busy worker has a command that was typed.                  *)
THEOREM LinkTypeCorrect == Spec => []TypeOK
BY InitTypeOK, NextTypeOK, PTL DEF Spec

-----------------------------------------------------------------------------
(* Links                                                                   *)

(* A step that links nobody and answers no command with a success.         *)
LEMMA QuietStep ==
  ASSUME LinkInv, UNCHANGED linked, Successes' \subseteq Successes,
         \A n \in Successes : commands'[n] = commands[n],
         \A d \in Discords : code'[d] => linked[d] = Nobody
  PROVE  LinkInv'
BY DEF LinkInv, SuccessIsTrue, CodeUsedOnce, Command

(* A code that is open is used for the player of command n.  No command    *)
(* has succeeded with it before: its user would be linked.                 *)
LEMMA LinkStep ==
  ASSUME TypeOK, LinkInv, UNCHANGED commands, NEW n \in Numbers, code[Command(n).code],
         UpdatePlayer(Command(n).code, Command(n).player),
         Successes' \subseteq Successes \cup {n}
  PROVE  LinkInv'
<1> DEFINE d == Command(n).code
           p == Command(n).player
<1>1. d \in Discords /\ p \in Players
  BY CommandType DEF TypeOK
<1>2. /\ code' = [code EXCEPT ![d] = FALSE] /\ linked' = [linked EXCEPT ![d] = p]
      /\ code \in [Discords -> BOOLEAN] /\ linked \in [Discords -> Players \cup {Nobody}]
  BY DEF UpdatePlayer, TypeOK, TableTypeOK
<1>3. linked[d] = Nobody
  BY <1>1 DEF LinkInv
<1>4. \A m \in Successes : /\ Command(m).code \in Discords /\ Command(m).player \in Players
                           /\ linked[Command(m).code] = Command(m).player
  BY CommandType DEF TypeOK, Successes, LinkInv, SuccessIsTrue
<1>5. \A m \in Successes : Command(m).code # d
  BY <1>3, <1>4, NobodyAssumption
<1>6. \A m : Command(m)' = Command(m)
  BY DEF Command
<1>7. SuccessIsTrue'
  <2> SUFFICES ASSUME NEW m \in Successes'
               PROVE  linked'[Command(m).code] = Command(m).player
    BY <1>6 DEF SuccessIsTrue
  <2>1. CASE m = n
    BY <1>1, <1>2, <2>1
  <2>2. CASE m \in Successes
    BY <1>2, <1>4, <1>5, <2>2
  <2> QED
    BY <2>1, <2>2
<1>8. CodeUsedOnce'
  BY <1>5, <1>6 DEF LinkInv, CodeUsedOnce
<1>9. \A e \in Discords : code'[e] => linked'[e] = Nobody
  BY <1>1, <1>2 DEF LinkInv
<1> QED
  BY <1>7, <1>8, <1>9 DEF LinkInv

(* A result is a success only if it says so.                               *)
LEMMA PushSuccess ==
  ASSUME TypeOK, NEW s \in Servers, NEW notice, PushResult(s, notice), UNCHANGED commands
  PROVE  /\ Successes' \subseteq Successes \cup {job[s]}
         /\ notice # "linked" => Successes' \subseteq Successes
<1>1. Numbers' = Numbers
  BY DEF Numbers
<1>2. /\ answer \in [1 .. MaxCommands -> Notices \cup {"none"}]
      /\ \A n \in Numbers : n \in 1 .. MaxCommands
  BY CommandType DEF TypeOK, HistoryTypeOK
<1>3. answer' = [answer EXCEPT ![job[s]] = notice]
  BY DEF PushResult
<1> QED
  BY <1>1, <1>2, <1>3 DEF Successes

LEMMA NextLinkInv == TypeOK /\ LinkInv /\ [Next]_vars => LinkInv'
<1> SUFFICES ASSUME TypeOK, LinkInv, [Next]_vars
             PROVE  LinkInv'
  OBVIOUS
<1>t. /\ code \in [Discords -> BOOLEAN] /\ linked \in [Discords -> Players \cup {Nobody}]
      /\ \A d \in Discords : code[d] => linked[d] = Nobody
  BY DEF TypeOK, TableTypeOK, LinkInv
<1>a. ASSUME UNCHANGED <<commands, answer, code, linked>>
      PROVE  LinkInv'
  <2>1. Successes' = Successes
    BY <1>a DEF Successes, Numbers
  <2> QED
    BY <1>a, <1>t, <2>1, QuietStep
<1>1. ASSUME NEW p \in Players, NEW s \in Servers \cup {Nobody}, Move(p, s)
      PROVE  LinkInv'
  BY <1>1, <1>a DEF Move
<1>2. ASSUME NEW d \in Discords, IssueCode(d)
      PROVE  LinkInv'
  <2>1. Successes' = Successes /\ UNCHANGED <<commands, linked>>
    BY <1>2 DEF IssueCode, Successes, Numbers
  <2>2. \A e \in Discords : code'[e] => linked[e] = Nobody
    BY <1>2, <1>t DEF IssueCode
  <2> QED
    BY <2>1, <2>2, QuietStep
<1>3. ASSUME NEW p \in Players, NEW d \in Discords, SetDiscord(p, d)
      PROVE  LinkInv'
  (* The new command has no answer yet.                                    *)
  <2>1. /\ Len(commands) \in Nat /\ Len(commands') = Len(commands) + 1
        /\ \A n \in 1 .. Len(commands) : commands'[n] = commands[n]
        /\ Len(commands) + 1 <= MaxCommands
    BY <1>3, AppendProperties, LenProperties DEF SetDiscord, TypeOK, GameTypeOK
  <2>2. answer[Len(commands) + 1] = "none"
    BY <2>1, LimitAssumption DEF TypeOK, HistoryTypeOK, Numbers
  <2>3. UNCHANGED <<answer, code, linked>>
    BY <1>3 DEF SetDiscord
  <2>4. Successes' \subseteq Successes
    BY <2>1, <2>2, <2>3 DEF Successes, Numbers
  <2>5. \A n \in Successes : commands'[n] = commands[n]
    BY <2>1 DEF Successes, Numbers
  <2> QED
    BY <1>t, <2>3, <2>4, <2>5, QuietStep
<1>4. ASSUME NEW s \in Servers, FlushCommand(s) \/ DeliverLinkResult(s) \/ TakeJob(s)
      PROVE  LinkInv'
  BY <1>4, <1>a DEF FlushCommand, DeliverLinkResult, TakeJob
<1>q. ASSUME NEW s \in Servers, NEW notice, notice # "linked", PushResult(s, notice),
             UNCHANGED <<commands, code, linked>>
      PROVE  LinkInv'
  BY <1>q, <1>t, PushSuccess, QuietStep
<1>5. ASSUME NEW s \in Servers, CheckConflict(s) \/ ConflictUnread(s) \/ LookupCode(s)
      PROVE  LinkInv'
  <2>1. CASE \E place \in {"lookup", "complete"} : GoOn(s, place)
    BY <1>5, <1>a, <2>1 DEF CheckConflict, ConflictUnread, LookupCode, GoOn
  <2>2. CASE \E notice \in {"already linked", "invalid code"} : PushResult(s, notice)
    BY <1>5, <1>q, <2>2 DEF CheckConflict, ConflictUnread, LookupCode
  <2> QED
    BY <1>5, <2>1, <2>2 DEF CheckConflict, ConflictUnread, LookupCode
(* The update by a worker, whatever it then answers.                       *)
<1>u. ASSUME NEW s \in Servers, at[s] # "idle", NEW notice, PushResult(s, notice),
             UpdatePlayer(Command(job[s]).code, Command(job[s]).player),
             notice = "linked" => code[Command(job[s]).code], UNCHANGED commands
      PROVE  LinkInv'
  <2>1. job[s] \in Numbers
    BY <1>u DEF TypeOK, WorkerTypeOK
  <2>2. CASE code[Command(job[s]).code]
    BY <1>u, <2>1, <2>2, LinkStep, PushSuccess
  <2>3. CASE ~code[Command(job[s]).code]
    BY <1>u, <1>q, <2>3 DEF UpdatePlayer
  <2> QED
    BY <2>2, <2>3
<1>6. ASSUME NEW s \in Servers, CompleteLink(s)
      PROVE  LinkInv'
  BY <1>6, <1>u DEF CompleteLink, Notice
<1>7. ASSUME NEW s \in Servers, StatementFails(s)
      PROVE  LinkInv'
  BY <1>7, <1>q, <1>u DEF StatementFails
<1>8. CASE UNCHANGED vars
  BY <1>8, <1>a DEF vars
<1> QED
  BY <1>1, <1>2, <1>3, <1>4, <1>5, <1>6, <1>7, <1>8 DEF Next, GameThread, Worker

(* Whatever the servers do at the same time and whichever statements fail, *)
(* a player who is told of a success is linked, and no code is used twice. *)
THEOREM LinkCorrect == Spec => [](SuccessIsTrue /\ CodeUsedOnce)
<1>1. Init => LinkInv
  BY EmptySeq DEF Init, LinkInv, SuccessIsTrue, CodeUsedOnce, Successes, Numbers
<1>2. Init => TypeOK
  BY InitTypeOK
<1>3. TypeOK /\ LinkInv /\ [Next]_vars => (TypeOK /\ LinkInv)'
  BY NextTypeOK, NextLinkInv
<1>4. LinkInv => SuccessIsTrue /\ CodeUsedOnce
  BY DEF LinkInv
<1> QED
  BY <1>1, <1>2, <1>3, <1>4, PTL DEF Spec

(* CodeUsedOnce: of two commands with the same code, on the same server or *)
(* on two, one at most succeeds.                                           *)
THEOREM CodeCorrect == Spec => []CodeUsedOnce
BY LinkCorrect, PTL

-----------------------------------------------------------------------------
(* Results that nobody sees                                                *)

(* The commands of server s that are jobs or results.                      *)
InFlight(s) ==
  Items(jobs[s]) \cup Items(results[s]) \cup (IF at[s] = "idle" THEN {} ELSE {job[s]})

Served(s, p) == \E m \in handed \cup unsent : Command(m).server = s /\ Command(m).player = p

(* A command stays on the server where it was typed, and as long as it is  *)
(* in flight its player has an entry, unless a result has used it up.      *)
EntryInv ==
  \A s \in Servers :
    /\ \A n \in Items(pending[s]) \cup InFlight(s) : Command(n).server = s
    /\ \A n \in InFlight(s) :
         clients[s][Command(n).player] = "none" => Served(s, Command(n).player)

(* What a step may do without touching the entries: finish a command.      *)
LEMMA QuietEntry ==
  ASSUME EntryInv, UNCHANGED <<commands, clients, handed, unsent>>,
         \A s \in Servers : /\ Items(pending'[s]) \subseteq Items(pending[s])
                            /\ InFlight(s)' \subseteq InFlight(s)
  PROVE  EntryInv'
BY DEF EntryInv, Served, Command

(* The items of one queue of several, after a Push and a TryPop.           *)
LEMMA PushNoMore ==
  ASSUME NEW N, NEW max \in Nat \ {0}, NEW q \in Seq(N), NEW n \in N
  PROVE  Items(Push(q, n, max)) \subseteq Items(q) \cup {n}
<1>1. Room(q, max) \in Seq(N) /\ Items(Room(q, max)) \subseteq Items(q)
  <2>1. CASE Len(q) >= max
    <3>1. CanPop(q)
      BY <2>1, EmptySeq DEF CanPop
    <3> QED
      BY <2>1, <3>1, PopItems, PopType DEF Room
  <2>2. CASE ~(Len(q) >= max)
    BY <2>2 DEF Room
  <2> QED
    BY <2>1, <2>2
<1>2. Items(Push(q, n, max)) = Items(Room(q, max)) \cup {n}
  BY <1>1, AppendItems DEF Push
<1> QED
  BY <1>1, <1>2

LEMMA PushedItems ==
  ASSUME NEW S, NEW N, NEW max \in Nat \ {0}, NEW queues \in [S -> Seq(N)],
         NEW s \in S, NEW n \in N, NEW t \in S
  PROVE  Items([queues EXCEPT ![s] = Push(@, n, max)][t])
           \subseteq IF t = s THEN Items(queues[s]) \cup {n} ELSE Items(queues[t])
<1>1. Items(Push(queues[s], n, max)) \subseteq Items(queues[s]) \cup {n}
  BY PushNoMore
<1> QED
  BY <1>1

LEMMA PoppedItems ==
  ASSUME NEW S, NEW N, NEW queues \in [S -> Seq(N)], NEW s \in S, CanPop(queues[s]), NEW t \in S
  PROVE  /\ Items([queues EXCEPT ![s] = Tail(@)][t]) \subseteq Items(queues[t])
         /\ Head(queues[s]) \in Items(queues[s])
<1>1. Items(queues[s]) = {Head(queues[s])} \cup Items(Tail(queues[s]))
  BY PopItems
<1> QED
  BY <1>1
LEMMA QueueTypes ==
  ASSUME TypeOK
  PROVE  /\ pending \in [Servers -> Seq(Numbers)] /\ jobs \in [Servers -> Seq(Numbers)]
         /\ results \in [Servers -> Seq(Numbers)]
         /\ PendingMax \in Nat \ {0} /\ QueueMax \in Nat \ {0}
         /\ \A s \in Servers : at[s] # "idle" => job[s] \in Numbers
         /\ handed \subseteq Numbers /\ unsent \subseteq Numbers
         /\ clients \in [Servers -> [Players -> {"none", "uid", "controller", "gone"}]]
         /\ at \in [Servers -> {"idle", "conflict", "lookup", "complete"}]
         /\ job \in [Servers -> 0 .. MaxCommands]
BY LimitAssumption DEF TypeOK, QueueTypeOK, WorkerTypeOK, HistoryTypeOK, GameTypeOK

LEMMA InFlightNumbers ==
  ASSUME TypeOK, NEW s \in Servers
  PROVE  InFlight(s) \subseteq Numbers /\ Items(pending[s]) \subseteq Numbers
<1>1. \A q \in Seq(Numbers) : Items(q) \subseteq Numbers
  BY ElementOfSeq DEF Items
<1> QED
  BY <1>1, QueueTypes DEF InFlight

LEMMA SetDiscordEntry ==
  ASSUME TypeOK, EntryInv, NEW p \in Players, NEW d \in Discords, SetDiscord(p, d)
  PROVE  EntryInv'
<1> DEFINE s == here[p]
           n == Len(commands) + 1
           N == 1 .. n
<1>1. /\ s \in Servers /\ n \in Nat
      /\ UNCHANGED <<clients, jobs, results, at, job, handed, unsent>>
      /\ pending' = [pending EXCEPT ![s] = Push(@, n, PendingMax)]
      /\ commands' = Append(commands, [server |-> s, player |-> p, code |-> d])
  BY LenProperties DEF SetDiscord, TypeOK, GameTypeOK
<1>2. /\ \A m \in Numbers : Command(m)' = Command(m)
      /\ commands'[n].server = s /\ Numbers \subseteq 1 .. n /\ n \in 1 .. n
  BY <1>1, AppendProperties, LenProperties DEF TypeOK, GameTypeOK, Numbers, Command
<1>3. pending \in [Servers -> Seq(N)] /\ n \in N
  <2>1. Numbers \subseteq N /\ n \in N
    BY <1>2
  <2> HIDE DEF n, N
  <2> QED
    BY <2>1, QueueTypes, GrowQueue
<1>4. \A t \in Servers :
        Items(pending'[t]) \subseteq IF t = s THEN Items(pending[s]) \cup {n} ELSE Items(pending[t])
  <2> HIDE DEF n, s, N
  <2>1. n \in N /\ PendingMax \in Nat \ {0} /\ s \in Servers
    BY <1>1, <1>3, QueueTypes
  <2>2. /\ pending' = [pending EXCEPT ![s] = Push(@, n, PendingMax)]
        /\ pending[s] \in Seq(N) /\ pending \in [Servers -> Seq(N)]
    BY <1>1, <1>3, <2>1
  <2>3. Items(Push(pending[s], n, PendingMax)) \subseteq Items(pending[s]) \cup {n}
    BY <2>1, <2>2, PushNoMore
  <2>4. ASSUME NEW t \in Servers, t # s
        PROVE  pending'[t] = pending[t]
    BY <2>2, <2>4
  <2>5. pending'[s] = Push(pending[s], n, PendingMax)
    BY <2>1, <2>2
  <2> QED
    BY <2>3, <2>4, <2>5
<1>5. \A t \in Servers : InFlight(t)' = InFlight(t)
  BY <1>1 DEF InFlight
<1>6. ASSUME NEW t \in Servers, NEW m \in Items(pending'[t]) \cup InFlight(t)
      PROVE  commands'[m].server = t
  <2>1. CASE m \in Items(pending[t]) \cup InFlight(t)
    <3>1. m \in Numbers /\ Command(m).server = t
      BY <2>1, InFlightNumbers DEF EntryInv
    <3> QED
      BY <1>2, <3>1 DEF Command
  <2>2. CASE m \notin Items(pending[t]) \cup InFlight(t)
    <3> HIDE DEF n, s
    <3>1. m = n /\ t = s
      BY <1>4, <1>6, <2>2
    <3> QED
      BY <1>2, <3>1
  <2> QED
    BY <2>1, <2>2
<1>7. ASSUME NEW t \in Servers, NEW m \in InFlight(t),
             clients'[t][commands'[m].player] = "none"
      PROVE  \E k \in handed' \cup unsent' :
               commands'[k].server = t /\ commands'[k].player = commands'[m].player
  <2>1. m \in Numbers /\ commands'[m] = commands[m]
    BY <1>2, InFlightNumbers DEF Command
  <2>2. Served(t, commands[m].player)
    BY <1>1, <1>7, <2>1 DEF EntryInv, Command
  <2>3. \A k \in handed \cup unsent : commands'[k] = commands[k]
    BY <1>2, QueueTypes DEF Command
  <2> QED
    BY <1>1, <2>1, <2>2, <2>3 DEF Served, Command
<1> QED
  BY <1>5, <1>6, <1>7 DEF EntryInv, Served, Command

LEMMA FlushEntry ==
  ASSUME TypeOK, EntryInv, NEW s \in Servers, FlushCommand(s)
  PROVE  EntryInv'
<1> DEFINE n == Head(pending[s])
           p == Command(n).player
<1>1. /\ CanPop(pending[s]) /\ pending' = [pending EXCEPT ![s] = Tail(@)]
      /\ UNCHANGED <<commands, results, at, job, handed, unsent>>
  BY DEF FlushCommand
<1>2. /\ n \in Items(pending[s]) /\ n \in Numbers
      /\ \A t \in Servers : Items(pending'[t]) \subseteq Items(pending[t])
  BY <1>1, QueueTypes, PoppedItems, PopType
<1>3. CASE UNCHANGED <<clients, jobs>>
  <2>1. \A t \in Servers : InFlight(t)' = InFlight(t)
    BY <1>1, <1>3 DEF InFlight
  <2> QED
    BY <1>1, <1>2, <1>3, <2>1, QuietEntry
<1>4. ASSUME NEW reach \in {"uid", "controller"}, Register(s, p, reach),
             jobs' = [jobs EXCEPT ![s] = Push(@, n, QueueMax)]
      PROVE  EntryInv'
  <2>1. Command(n).server = s /\ p \in Players
    BY <1>2, CommandType DEF EntryInv, TypeOK
  <2>2. \A t \in Servers :
          Items(jobs'[t]) \subseteq IF t = s THEN Items(jobs[s]) \cup {n} ELSE Items(jobs[t])
    <3> HIDE DEF n
    <3> QED
      BY <1>2, <1>4, QueueTypes, PushedItems
  <2>3. \A t \in Servers :
          InFlight(t)' \subseteq IF t = s THEN InFlight(s) \cup {n} ELSE InFlight(t)
    BY <1>1, <2>2 DEF InFlight
  <2>4. \A t \in Servers, q \in Players :
          clients'[t][q] = IF t = s /\ q = p THEN reach ELSE clients[t][q]
    BY <1>4, QueueTypes DEF Register
  <2>5. \A m : Command(m)' = Command(m)
    BY <1>1 DEF Command
  <2>6. ASSUME NEW t \in Servers, NEW m \in Items(pending'[t]) \cup InFlight(t)'
        PROVE  Command(m).server = t
    BY <1>2, <2>1, <2>3, <2>6 DEF EntryInv
  <2>7. ASSUME NEW t \in Servers, NEW m \in InFlight(t)',
               clients'[t][Command(m).player] = "none"
        PROVE  Served(t, Command(m).player)
    <3>1. CASE m \in InFlight(t)
      <4>1. Command(m).player \in Players
        BY <3>1, InFlightNumbers, CommandType DEF TypeOK
      <4>2. clients[t][Command(m).player] = "none"
        BY <2>4, <2>7, <4>1
      <4> QED
        BY <3>1, <4>2 DEF EntryInv
    <3>2. CASE m \notin InFlight(t)
      <4>1. m = n /\ t = s
        BY <2>3, <2>7, <3>2
      <4> QED
        BY <2>1, <2>4, <2>7, <4>1
    <3> QED
      BY <3>1, <3>2
  <2>8. \A t, q : Served(t, q)' = Served(t, q)
    BY <1>1 DEF Served, Command
  <2> QED
    BY <2>5, <2>6, <2>7, <2>8 DEF EntryInv
<1> QED
  BY <1>3, <1>4 DEF FlushCommand

LEMMA DeliverEntry ==
  ASSUME TypeOK, EntryInv, NEW s \in Servers, DeliverLinkResult(s)
  PROVE  EntryInv'
<1> DEFINE n == Head(results[s])
           p == Command(n).player
<1>1. /\ CanPop(results[s]) /\ results' = [results EXCEPT ![s] = Tail(@)]
      /\ clients' = [clients EXCEPT ![s][p] = "none"]
      /\ handed' \cup unsent' = handed \cup unsent \cup {n}
      /\ UNCHANGED <<commands, pending, jobs, at, job>>
  BY DEF DeliverLinkResult
<1>2. /\ n \in Items(results[s]) /\ n \in Numbers
      /\ \A t \in Servers : Items(results'[t]) \subseteq Items(results[t])
  BY <1>1, QueueTypes, PoppedItems, PopType
<1>3. \A t \in Servers : InFlight(t)' \subseteq InFlight(t)
  BY <1>1, <1>2 DEF InFlight
<1>4. Command(n).server = s /\ p \in Players
  BY <1>2, CommandType DEF EntryInv, InFlight, TypeOK
<1>5. /\ \A t \in Servers, q \in Players :
           clients'[t][q] = IF t = s /\ q = p THEN "none" ELSE clients[t][q]
      /\ \A m : Command(m)' = Command(m)
  BY <1>1, QueueTypes DEF Command
<1>6. /\ \E k \in handed' \cup unsent' : Command(k).server = s /\ Command(k).player = p
      /\ handed \cup unsent \subseteq handed' \cup unsent'
  BY <1>1, <1>4
<1>7. ASSUME NEW t \in Servers, NEW m \in InFlight(t)',
             clients'[t][Command(m).player] = "none"
      PROVE  \E k \in handed' \cup unsent' :
               Command(k).server = t /\ Command(k).player = Command(m).player
  <2>1. m \in InFlight(t) /\ Command(m).player \in Players
    BY <1>3, <1>7, InFlightNumbers, CommandType DEF TypeOK
  <2>2. CASE t = s /\ Command(m).player = p
    BY <1>6, <2>2
  <2>3. CASE ~(t = s /\ Command(m).player = p)
    <3>1. clients[t][Command(m).player] = "none"
      BY <1>5, <1>7, <2>1, <2>3
    <3>2. Served(t, Command(m).player)
      BY <2>1, <3>1 DEF EntryInv
    <3> QED
      BY <1>6, <3>2 DEF Served
  <2> QED
    BY <2>2, <2>3
<1>8. ASSUME NEW t \in Servers, NEW m \in Items(pending'[t]) \cup InFlight(t)'
      PROVE  Command(m).server = t
  BY <1>1, <1>3, <1>8 DEF EntryInv
<1> QED
  BY <1>5, <1>7, <1>8 DEF EntryInv, Served

LEMMA WorkerEntry ==
  ASSUME TypeOK, EntryInv, NEW s \in Servers, Worker(s)
  PROVE  EntryInv'
<1>1. UNCHANGED <<commands, clients, handed, unsent, pending>>
  BY DEF Worker, TakeJob, CheckConflict, ConflictUnread, LookupCode, CompleteLink, StatementFails
<1>2. CASE TakeJob(s)
  <2>1. /\ CanPop(jobs[s]) /\ jobs' = [jobs EXCEPT ![s] = Tail(@)]
        /\ job' = [job EXCEPT ![s] = Head(jobs[s])]
        /\ at' = [at EXCEPT ![s] = "conflict"] /\ UNCHANGED results
    BY <1>2 DEF TakeJob, PopJob
  <2>2. /\ Head(jobs[s]) \in Items(jobs[s])
        /\ \A t \in Servers : Items(jobs'[t]) \subseteq Items(jobs[t])
    BY <2>1, QueueTypes, PoppedItems
  <2>3. \A t \in Servers : InFlight(t)' \subseteq InFlight(t)
    BY <2>1, <2>2, QueueTypes DEF InFlight
  <2> QED
    BY <1>1, <2>3, QuietEntry
<1>3. ASSUME NEW place \in {"lookup", "complete"}, GoOn(s, place), at[s] # "idle", UNCHANGED jobs
      PROVE  EntryInv'
  <2>1. \A t \in Servers : InFlight(t)' \subseteq InFlight(t)
    BY <1>3, QueueTypes DEF GoOn, InFlight
  <2> QED
    BY <1>1, <2>1, QuietEntry
<1>4. ASSUME NEW notice, PushResult(s, notice), at[s] # "idle", UNCHANGED jobs
      PROVE  EntryInv'
  <2>1. /\ results' = [results EXCEPT ![s] = Push(@, job[s], QueueMax)]
        /\ at' = [at EXCEPT ![s] = "idle"] /\ job' = [job EXCEPT ![s] = 0]
    BY <1>4 DEF PushResult
  <2>2. \A t \in Servers :
          Items(results'[t])
            \subseteq IF t = s THEN Items(results[s]) \cup {job[s]} ELSE Items(results[t])
    <3> DEFINE n == job[s]
    <3>1. n \in Numbers
      BY <1>4, QueueTypes
    <3> HIDE DEF n
    <3>2. \A t \in Servers :
            Items([results EXCEPT ![s] = Push(@, n, QueueMax)][t])
              \subseteq IF t = s THEN Items(results[s]) \cup {n} ELSE Items(results[t])
      BY <3>1, QueueTypes, PushedItems
    <3>3. results' = [results EXCEPT ![s] = Push(@, n, QueueMax)]
      BY <2>1 DEF n
    <3> QED
      BY <3>2, <3>3 DEF n
  <2>3. \A t \in Servers : InFlight(t)' \subseteq InFlight(t)
    BY <1>4, <2>1, <2>2, QueueTypes DEF InFlight
  <2> QED
    BY <1>1, <2>3, QuietEntry
<1>5. CASE ~TakeJob(s)
  <2>1. at[s] # "idle" /\ UNCHANGED jobs
    BY <1>5 DEF Worker, CheckConflict, ConflictUnread, LookupCode, CompleteLink, StatementFails
  <2>2. \/ \E place \in {"lookup", "complete"} : GoOn(s, place)
        \/ \E notice : PushResult(s, notice)
    BY <1>5 DEF Worker, CheckConflict, ConflictUnread, LookupCode, CompleteLink, StatementFails
  <2> QED
    BY <1>3, <1>4, <2>1, <2>2
<1> QED
  BY <1>2, <1>5

LEMMA NextEntryInv == TypeOK /\ EntryInv /\ [Next]_vars => EntryInv'
<1> SUFFICES ASSUME TypeOK, EntryInv, [Next]_vars
             PROVE  EntryInv'
  OBVIOUS
<1>1. ASSUME NEW p \in Players, NEW s \in Servers \cup {Nobody}, Move(p, s)
      PROVE  EntryInv'
  <2>1. /\ UNCHANGED <<commands, pending, jobs, at, job, results, handed, unsent>>
        /\ \A t \in Servers, q \in Players :
             clients'[t][q] = "none" => clients[t][q] = "none"
    BY <1>1, QueueTypes DEF Move
  <2>2. \A t \in Servers : InFlight(t)' = InFlight(t)
    BY <2>1 DEF InFlight
  <2>3. \A t \in Servers : \A m \in InFlight(t) : Command(m).player \in Players
    BY InFlightNumbers, CommandType DEF TypeOK
  <2>4. \A m : Command(m)' = Command(m)
    BY <2>1 DEF Command
  <2> QED
    BY <2>1, <2>2, <2>3, <2>4 DEF EntryInv, Served
<1>2. CASE (\E d \in Discords : IssueCode(d)) \/ UNCHANGED vars
  <2>1. UNCHANGED <<commands, pending, clients, jobs, at, job, results, handed, unsent>>
    BY <1>2 DEF IssueCode, vars
  <2>2. \A t \in Servers : InFlight(t)' = InFlight(t)
    BY <2>1 DEF InFlight
  <2> QED
    BY <2>1, <2>2, QuietEntry
<1> QED
  BY <1>1, <1>2, SetDiscordEntry, FlushEntry, DeliverEntry, WorkerEntry DEF Next, GameThread

(* ResultIsHandedOn: a result is not handed to ChatInject only if its      *)
(* player could be reached by nothing but a controller that is gone, or if *)
(* another result of his on the same server was taken up before.           *)
THEOREM HandedOnCorrect == Spec => ResultIsHandedOn
<1>1. Init => EntryInv
  BY EmptySeq DEF Init, EntryInv, InFlight, Items
<1>2. TypeOK /\ EntryInv /\ [Next]_vars =>
        [\A n \in unsent' \ unsent :
           \/ Gone(n)
           \/ \E m \in handed \cup unsent : /\ Command(m).server = Command(n).server
                                           /\ Command(m).player = Command(n).player]_vars
  <2> SUFFICES ASSUME TypeOK, EntryInv, [Next]_vars, NEW n \in unsent' \ unsent
               PROVE  \/ Gone(n)
                      \/ Served(Command(n).server, Command(n).player)
    BY DEF Served
  <2>1. PICK s \in Servers : DeliverLinkResult(s)
    BY DEF Next, GameThread, Worker, Move, IssueCode, SetDiscord, FlushCommand, TakeJob,
           CheckConflict, ConflictUnread, LookupCode, CompleteLink, StatementFails, vars
  <2>2. /\ n = Head(results[s]) /\ CanPop(results[s])
        /\ clients[s][Command(n).player] \notin {"uid", "controller"}
    BY <2>1 DEF DeliverLinkResult
  <2>3. n \in InFlight(s)
    BY <2>2, QueueTypes, PoppedItems DEF InFlight
  <2>4. Command(n).server = s /\ Command(n).player \in Players
    BY <2>3, InFlightNumbers, CommandType DEF EntryInv, TypeOK
  <2>5. clients[s][Command(n).player] \in {"none", "gone"}
    BY <2>2, <2>4, QueueTypes
  <2> QED
    BY <2>3, <2>4, <2>5 DEF EntryInv, Gone
<1> QED
  BY <1>1, <1>2, InitTypeOK, NextTypeOK, NextEntryInv, PTL DEF Spec, ResultIsHandedOn
=============================================================================
