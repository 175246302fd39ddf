----------------------------- MODULE DiscordLink -----------------------------
(***************************************************************************)
(* The !setdiscord command, from the chat hook until its notice is handed  *)
(* to ChatInject: the deferred list and the client table of ChatCapture on *)
(* the game thread of each server, the two link queues, process_link_job   *)
(* on each server's database worker, and the table crosschat_players that  *)
(* the servers share with the Discord bot.                                 *)
(*                                                                         *)
(* What is handed over is not shown yet: ChatInject has it as one more     *)
(* deferred action ("private" or "screen" in ChatInject.tla), which a full *)
(* list, the open circuit, a missing GameState or a player who has left    *)
(* may still lose.                                                         *)
(*                                                                         *)
(* A job is three statements, each its own transaction; between them the   *)
(* other servers work on the same table.  A job that fails never drops the *)
(* connection.  A command whose code or account is empty cannot leave the  *)
(* game thread, so the first test of process_link_job is not here.         *)
(***************************************************************************)
EXTENDS Naturals, Sequences, BoundedQueue

CONSTANTS
  Servers,      \* the game servers
  Players,      \* platform accounts (PlatformUserId)
  Discords,     \* Discord users, the rows of crosschat_players
  Nobody,       \* no account; no server
  PendingMax,   \* 32, the bound on m_pending_setdiscord
  QueueMax,     \* kQueueMax
  MaxCommands,  \* bound: commands typed
  MaxFaults     \* bound: statements that fail

ASSUME NobodyAssumption == Nobody \notin Players \cup Servers
ASSUME LimitAssumption  == /\ PendingMax \in Nat \ {0} /\ QueueMax \in Nat \ {0}
                           /\ MaxCommands \in Nat /\ MaxFaults \in Nat

VARIABLES
  here,     \* here[p]: the server p plays on
  commands, \* the commands typed: [server, player, code], named by number
  pending,  \* m_pending_setdiscord
  clients,  \* m_link_clients: how each waiting player can be reached
  jobs,     \* m_link_jobs
  at,       \* where the worker is in process_link_job
  job,      \* the command it works on, 0 between jobs
  results,  \* m_link_results, by the commands they answer
  code,     \* ConnectCode of each Discord user is set (one code each)
  linked,   \* the account each Discord user is linked to
  faults,   \* statements that failed
  answer,   \* answer[n]: the notice of the result of command n
  \* What has happened, for the properties only.
  handed,   \* results given to ChatInject for their player
  unsent,   \* results given to nobody
  lost      \* commands a full queue discarded, or whose player had left

vars == <<here, commands, pending, clients, jobs, at, job, results, code, linked,
          faults, answer, handed, unsent, lost>>

Command(n) == commands[n]
Notices == {"linked", "already linked", "invalid code", "database error"}

Init ==
  /\ here = [p \in Players |-> Nobody]
  /\ commands = <<>>
  /\ pending = [s \in Servers |-> <<>>]
  /\ clients = [s \in Servers |-> [p \in Players |-> "none"]]
  /\ jobs = [s \in Servers |-> <<>>]
  /\ at = [s \in Servers |-> "idle"] /\ job = [s \in Servers |-> 0]
  /\ results = [s \in Servers |-> <<>>]
  /\ code = [d \in Discords |-> FALSE]
  /\ linked = [d \in Discords |-> Nobody]
  /\ faults = 0 /\ answer = [n \in 1 .. MaxCommands |-> "none"]
  /\ handed = {} /\ unsent = {} /\ lost = {}

-----------------------------------------------------------------------------
(* Players and the bot                                                     *)

(* A controller pointer that waits for a reply dies with the visit.        *)
Move(p, s) ==
  /\ here[p] # s
  /\ here' = [here EXCEPT ![p] = s]
  /\ clients' = [t \in Servers |->
                   [clients[t] EXCEPT ![p] = IF @ = "controller" THEN "gone" ELSE @]]
  /\ UNCHANGED <<commands, pending, jobs, at, job, results, code, linked,
                 faults, answer, handed, unsent, lost>>

(* The Link Discord panel gives a code to a user who is not linked.        *)
IssueCode(d) ==
  /\ linked[d] = Nobody /\ ~code[d]
  /\ code' = [code EXCEPT ![d] = TRUE]
  /\ UNCHANGED <<here, commands, pending, clients, jobs, at, job, results, linked,
                 faults, answer, handed, unsent, lost>>

-----------------------------------------------------------------------------
(* The game thread of server s                                             *)

(* The chat hook recognises the command, clears the line, and defers.      *)
SetDiscord(p, d) ==
  LET s == here[p]
      n == Len(commands) + 1
  IN
  /\ s # Nobody
  /\ n <= MaxCommands
  /\ commands' = Append(commands, [server |-> s, player |-> p, code |-> d])
  /\ pending' = [pending EXCEPT ![s] = Push(@, n, PendingMax)]
  /\ lost' = lost \cup Dropped(pending[s], PendingMax)
  /\ UNCHANGED <<here, clients, jobs, at, job, results, code, linked, faults,
                 answer, handed, unsent>>

(* Mutant: only a player whose PlayerUId can be read becomes a client.     *)
RegisterByUid(s, p, reach) ==
  clients' = IF reach = "uid" THEN [clients EXCEPT ![s][p] = reach] ELSE clients

Register(s, p, reach) == clients' = [clients EXCEPT ![s][p] = reach]

(* FlushDeferred, one command: the player is gone or no platform id can be *)
(* read (both are only logged), or he becomes a client and the job is      *)
(* queued.  A client of the same account is replaced.                      *)
FlushCommand(s) ==
  LET n == Head(pending[s])
      p == Command(n).player
  IN
  /\ CanPop(pending[s])
  /\ pending' = [pending EXCEPT ![s] = Tail(@)]
  /\ \/ /\ lost' = lost \cup {n}
        /\ UNCHANGED <<clients, jobs>>
     \/ /\ here[p] = s
        /\ \E reach \in {"uid", "controller"} : Register(s, p, reach)
        /\ jobs' = [jobs EXCEPT ![s] = Push(@, n, QueueMax)]
        /\ lost' = lost \cup Dropped(jobs[s], QueueMax)
  /\ UNCHANGED <<here, commands, at, job, results, code, linked, faults, answer, handed, unsent>>

(* A reply by PlayerUId is always handed to ChatInject, a screen log only  *)
(* if the controller is still there.  The entry serves one result.         *)
DeliverLinkResult(s) ==
  LET n == Head(results[s])
      p == Command(n).player
  IN
  /\ CanPop(results[s])
  /\ results' = [results EXCEPT ![s] = Tail(@)]
  /\ clients' = [clients EXCEPT ![s][p] = "none"]
  /\ IF clients[s][p] \in {"uid", "controller"}
     THEN handed' = handed \cup {n} /\ UNCHANGED unsent
     ELSE unsent' = unsent \cup {n} /\ UNCHANGED handed
  /\ UNCHANGED <<here, commands, pending, jobs, at, job, code, linked, faults, answer, lost>>

-----------------------------------------------------------------------------
(* process_link_job on the worker of server s                              *)

PopJob(s) == /\ job' = [job EXCEPT ![s] = Head(jobs[s])]
             /\ jobs' = [jobs EXCEPT ![s] = Tail(@)]

TakeJob(s) ==
  /\ at[s] = "idle" /\ CanPop(jobs[s])
  /\ PopJob(s)
  /\ at' = [at EXCEPT ![s] = "conflict"]
  /\ UNCHANGED <<here, commands, pending, clients, results, code, linked, faults,
                 answer, handed, unsent, lost>>

(* Mutant: the job ends without a result.                                  *)
ForgetResult(s, notice) ==
  /\ answer' = [answer EXCEPT ![job[s]] = notice]
  /\ UNCHANGED <<results, lost>>
  /\ at' = [at EXCEPT ![s] = "idle"]
  /\ job' = [job EXCEPT ![s] = 0]

(* push_result, which every way out of the job goes through once.          *)
PushResult(s, notice) ==
  /\ answer' = [answer EXCEPT ![job[s]] = notice]
  /\ results' = [results EXCEPT ![s] = Push(@, job[s], QueueMax)]
  /\ lost' = lost \cup Dropped(results[s], QueueMax)
  /\ at' = [at EXCEPT ![s] = "idle"]
  /\ job' = [job EXCEPT ![s] = 0]

GoOn(s, place) ==
  /\ at' = [at EXCEPT ![s] = place]
  /\ UNCHANGED <<job, results, answer, lost>>

Fault == faults < MaxFaults /\ faults' = faults + 1

AccountLinked(p) == \E d \in Discords : linked[d] = p

(* SELECT ... WHERE PlatformUserId = ? AND UserId IS NOT NULL              *)
CheckConflict(s) ==
  /\ at[s] = "conflict"
  /\ IF AccountLinked(Command(job[s]).player)
     THEN PushResult(s, "already linked")
     ELSE GoOn(s, "lookup")
  /\ UNCHANGED <<here, commands, pending, clients, jobs, code, linked, faults,
                 handed, unsent>>

(* A result that cannot be stored or fetched counts as no row.             *)
ConflictUnread(s) ==
  /\ at[s] = "conflict"
  /\ Fault
  /\ GoOn(s, "lookup")
  /\ UNCHANGED <<here, commands, pending, clients, jobs, code, linked, handed, unsent>>

(* SELECT ... WHERE ConnectCode = ?                                        *)
LookupCode(s) ==
  /\ at[s] = "lookup"
  /\ IF code[Command(job[s]).code]
     THEN GoOn(s, "complete")
     ELSE PushResult(s, "invalid code")
  /\ UNCHANGED <<here, commands, pending, clients, jobs, code, linked, faults,
                 handed, unsent>>

(* Mutants: the row is updated whatever its code; the number of affected   *)
(* rows is not looked at.                                                  *)
UpdateAnyPlayer(d, p) ==
  code' = [code EXCEPT ![d] = FALSE] /\ linked' = [linked EXCEPT ![d] = p]
NoticeUnconditional(d) == "linked"

(* UPDATE ... SET ConnectCode = NULL ... WHERE ConnectCode = ?             *)
UpdatePlayer(d, p) ==
  IF code[d]
  THEN code' = [code EXCEPT ![d] = FALSE] /\ linked' = [linked EXCEPT ![d] = p]
  ELSE UNCHANGED <<code, linked>>

Notice(d) == IF code[d] THEN "linked" ELSE "invalid code"

CompleteLink(s) ==
  /\ at[s] = "complete"
  /\ UpdatePlayer(Command(job[s]).code, Command(job[s]).player)
  /\ PushResult(s, Notice(Command(job[s]).code))
  /\ UNCHANGED <<here, commands, pending, clients, jobs, faults, handed, unsent>>

(* Any statement may fail; an UPDATE may have been committed all the same. *)
StatementFails(s) ==
  /\ at[s] # "idle"
  /\ Fault
  /\ \/ UNCHANGED <<code, linked>>
     \/ /\ at[s] = "complete"
        /\ UpdatePlayer(Command(job[s]).code, Command(job[s]).player)
  /\ PushResult(s, "database error")
  /\ UNCHANGED <<here, commands, pending, clients, jobs, handed, unsent>>

Worker(s) ==
  TakeJob(s) \/ CheckConflict(s) \/ ConflictUnread(s) \/ LookupCode(s)
  \/ CompleteLink(s) \/ StatementFails(s)

GameThread(s) == FlushCommand(s) \/ DeliverLinkResult(s)

Next ==
  \/ \E p \in Players, s \in Servers \cup {Nobody} : Move(p, s)
  \/ \E d \in Discords : IssueCode(d)
  \/ \E p \in Players, d \in Discords : SetDiscord(p, d)
  \/ \E s \in Servers : GameThread(s) \/ Worker(s)

Spec == Init /\ [][Next]_vars

(* The game ticks and the worker thread runs; players and bot do as they   *)
(* please.                                                                 *)
FairSpec ==
  Spec /\ \A s \in Servers : /\ WF_vars(FlushCommand(s)) /\ WF_vars(DeliverLinkResult(s))
                             /\ WF_vars(Worker(s))

-----------------------------------------------------------------------------
(* Properties                                                              *)

Numbers == 1 .. Len(commands)

GameTypeOK ==
  /\ here \in [Players -> Servers \cup {Nobody}]
  /\ clients \in [Servers -> [Players -> {"none", "uid", "controller", "gone"}]]
  /\ commands \in Seq([server : Servers, player : Players, code : Discords])
  /\ Len(commands) <= MaxCommands
TableTypeOK ==
  /\ code \in [Discords -> BOOLEAN]
  /\ linked \in [Discords -> Players \cup {Nobody}]
  /\ faults \in 0 .. MaxFaults
QueueTypeOK(queues, max) ==
  /\ queues \in [Servers -> Seq(Numbers)]
  /\ \A s \in Servers : Len(queues[s]) <= max
WorkerTypeOK ==
  /\ at \in [Servers -> {"idle", "conflict", "lookup", "complete"}]
  /\ job \in [Servers -> 0 .. MaxCommands]
  /\ \A s \in Servers : at[s] # "idle" => job[s] \in Numbers
HistoryTypeOK ==
  /\ answer \in [1 .. MaxCommands -> Notices \cup {"none"}]
  /\ \A n \in 1 .. MaxCommands : answer[n] # "none" => n \in Numbers
  /\ handed \cup unsent \cup lost \subseteq Numbers

(* The type of every variable, the bounds of the four queues, and that a   *)
(* busy worker has a command to work on.                                   *)
TypeOK ==
  /\ GameTypeOK /\ TableTypeOK
  /\ QueueTypeOK(pending, PendingMax)
  /\ QueueTypeOK(jobs, QueueMax) /\ QueueTypeOK(results, QueueMax)
  /\ WorkerTypeOK /\ HistoryTypeOK

Successes == {n \in Numbers : answer[n] = "linked"}

(* "Discord account linked successfully" is true when it is said: the user *)
(* who owns the code is linked to the account of the player who hears it   *)
(* (DbWorker.cpp:692-714), whatever the other servers do meanwhile.        *)
SuccessIsTrue ==
  \A n \in Successes : linked[Command(n).code] = Command(n).player

(* A code links one account: no second command ever succeeds with it.      *)
CodeUsedOnce ==
  \A m, n \in Successes : Command(m).code = Command(n).code => m = n

(* The strengthening of both that every step preserves: a code is only     *)
(* ever open for a user who is not linked.                                 *)
LinkInv ==
  /\ \A d \in Discords : code[d] => linked[d] = Nobody
  /\ SuccessIsTrue /\ CodeUsedOnce

(* A platform account belongs to one Discord user at most: what the        *)
(* conflict test of process_link_job is for (DbWorker.cpp:619).            *)
OneDiscordPerAccount ==
  \A d, e \in Discords : linked[d] # Nobody /\ linked[d] = linked[e] => d = e

(* The notice of a result (src/README.md, step 4 of the Discord section)   *)
(* is handed to ChatInject for its player, unless only his controller was  *)
(* known and it is gone, or the result of another command that he typed on *)
(* the same server has used up the entry (ChatCapture.cpp:729-768).  That  *)
(* it is then shown is not said here: see ChatInject.                      *)
Gone(n) == clients[Command(n).server][Command(n).player] = "gone"
ResultIsHandedOn ==
  [][\A n \in unsent' \ unsent :
       \/ Gone(n)
       \/ \E m \in handed \cup unsent : /\ Command(m).server = Command(n).server
                                      /\ Command(m).player = Command(n).player]_vars

(* A command that became a job comes back as a result, which is handed on  *)
(* or finds no entry, unless a full queue of the link discards it.         *)
JobsAnswered ==
  \A n \in 1 .. MaxCommands, s \in Servers :
    n \in Items(jobs[s]) ~> n \in handed \cup unsent \cup lost
=============================================================================
