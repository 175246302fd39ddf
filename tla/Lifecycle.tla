----------------------------- MODULE Lifecycle -----------------------------
(***************************************************************************)
(* The life of the mod (src/PalCrosschat.cpp): what the constructor builds *)
(* and starts, the hooks that on_unreal_init registers, and the way back,  *)
(* while two threads of its own run: the database worker, here only as a   *)
(* thread that uses the queues, and the webhook worker (src/Webhook.cpp),  *)
(* with its queue of reports.                                              *)
(*                                                                         *)
(* The constructor, the destructor and the hooks run on the game thread;   *)
(* the hooks are therefore called in none of the steps of the first two.   *)
(***************************************************************************)
EXTENDS Config, BoundedQueue

CONSTANTS
  Files,       \* the config.json there may be
  FirstHookId, \* the lowest id RegisterHook gives to a hook
  QueueMax,    \* kQueueMax
  MaxReports   \* bound: lines that hit a pattern

ASSUME FilesAssumption  == Files \subseteq File
ASSUME HookIdAssumption == FirstHookId \in Nat
ASSUME ReportAssumption == QueueMax \in Nat \ {0} /\ MaxReports \in Nat

VARIABLES
  phase,    \* what the game thread does with the mod
  config,   \* m_config
  built,    \* how many of the members exist
  unloaded, \* how many steps of the destructor's body are done
  hooks,      \* the callbacks the game will call
  registered, \* m_registered of the capture and of the join hook
  thread,   \* the two threads: "none", "running" or "ended"
  stop,     \* their stop_tokens
  started,  \* m_started of both workers
  at,       \* where the webhook worker is
  job,      \* the report it has popped, 0 if none
  queue,    \* m_queue of the webhook worker, reports by number
  fate,     \* of every report
  late      \* posts begun after the stop was requested

building  == <<phase, config, built, unloaded>>
hooking   == <<hooks, registered>>
threads   == <<thread, stop, started>>
reporting == <<at, job, queue, fate, late>>
vars      == <<building, hooking, threads, reporting>>

Workers == {"webhook", "db"}
Hooks   == {"capture", "join"}

(* The members of PalCrosschatMod in the order of their declaration, which *)
(* is the order of their construction too.                                 *)
Members == <<"outbound", "inbound", "link_jobs", "link_results", "webhook", "filter",
             "audience", "db", "inject", "capture">>
Alive == {Members[i] : i \in 1 .. built}

(* What a callback or a thread may touch at any time.                      *)
Queues == {"outbound", "inbound", "link_jobs", "link_results"}
Uses(user) ==
  CASE user = "capture" -> {"capture", "outbound", "link_jobs", "webhook", "filter",
                            "inject", "audience"}
    [] user = "join"    -> {"audience"}
    [] user = "db"      -> {"db"} \cup Queues
    [] user = "webhook" -> {"webhook"}

Init ==
  /\ phase = "load" /\ config = Disabled /\ built = 0 /\ unloaded = 0
  /\ hooks = {} /\ registered = [h \in Hooks |-> FALSE]
  /\ thread = [w \in Workers |-> "none"] /\ stop = [w \in Workers |-> FALSE]
  /\ started = [w \in Workers |-> FALSE]
  /\ at = "top" /\ job = 0 /\ queue = <<>> /\ fate = <<>> /\ late = 0

-----------------------------------------------------------------------------
(* PalCrosschatMod()                                                       *)

(* An exception out of LoadConfig leaves start_mod before anything exists. *)
Load(file) ==
  /\ phase = "load"
  /\ config' = IF Throws(file) THEN Disabled ELSE LoadConfig(file)
  /\ phase' = IF Throws(file) THEN "gone" ELSE IF config'.enabled THEN "build" ELSE "ready"
  /\ UNCHANGED <<built, unloaded, hooking, threads, reporting>>

Build ==
  /\ phase = "build" /\ built < Len(Members)
  /\ built' = built + 1
  /\ UNCHANGED <<phase, config, unloaded, hooking, threads, reporting>>

(* Mutant: one pattern does not count.                                     *)
WantsSeveralPatterns(c) == c.mute_log_webhook /\ Len(c.filter_patterns) > 1

WantsWebhook(c) == c.mute_log_webhook /\ c.filter_patterns # <<>>

(* Start of either worker; m_started is set before the thread exists.      *)
Start(w, created) ==
  /\ started' = [started EXCEPT ![w] = TRUE]
  /\ thread' = IF created THEN [thread EXCEPT ![w] = "running"] ELSE thread
  /\ UNCHANGED stop

StartWebhook(created) ==
  /\ phase = "build" /\ built = Len(Members)
  /\ IF WantsWebhook(config) THEN Start("webhook", created)
     ELSE created /\ UNCHANGED threads
  /\ phase' = IF created THEN "startDb" ELSE "destroy"
  /\ UNCHANGED <<config, built, unloaded, hooking, reporting>>

StartDb(created) ==
  /\ phase = "startDb"
  /\ Start("db", created)
  /\ phase' = IF created THEN "ready" ELSE "destroy"
  /\ UNCHANGED <<config, built, unloaded, hooking, reporting>>

(* Any of the allocations may throw; the destructor's body is not run.     *)
BuildThrows ==
  /\ phase = "build" /\ built < Len(Members)
  /\ phase' = "destroy"
  /\ UNCHANGED <<config, built, unloaded, hooking, threads, reporting>>

-----------------------------------------------------------------------------
(* on_unreal_init                                                          *)

(* RegisterHook may install the callback and give ids to its two halves,   *)
(* or say in one of two ways that it could not, or throw.  The two callers *)
(* read the ids differently: one takes 0 for "none", the other -1.         *)
Outcomes(h) ==
  LET id == IF h = "join" THEN FirstHookId ELSE FirstHookId + 2
  IN  {[pre |-> id, post |-> id + 1], [pre |-> 0, post |-> 0], [pre |-> -1, post |-> -1]}

Installed(outcome) == outcome.post > 0

Sees(h, outcome) ==
  IF h = "capture" THEN outcome.pre # 0 \/ outcome.post # 0
  ELSE outcome.pre >= 0 \/ outcome.post >= 0

RegisterHook(h, outcome) ==
  /\ registered' = [registered EXCEPT ![h] = Sees(h, outcome)]
  /\ hooks' = IF Installed(outcome) THEN hooks \cup {h} ELSE hooks

(* The audience registers first and catches what RegisterHook throws; what *)
(* it throws to the capture leaves on_unreal_init.                         *)
RegisterJoin ==
  /\ phase = "ready" /\ config.enabled /\ "capture" \in Alive
  /\ phase' = "registerCapture"
  /\ (\E o \in Outcomes("join") : RegisterHook("join", o)) \/ UNCHANGED hooking
  /\ UNCHANGED <<config, built, unloaded, threads, reporting>>

RegisterCapture ==
  /\ phase = "registerCapture" /\ phase' = "live"
  /\ (\E o \in Outcomes("capture") : RegisterHook("capture", o)) \/ UNCHANGED hooking
  /\ UNCHANGED <<config, built, unloaded, threads, reporting>>

-----------------------------------------------------------------------------
(* The webhook worker                                                      *)

(* The chat hook meets a pattern: its report, if there is a url.           *)
Report ==
  /\ phase = "live" /\ "capture" \in hooks /\ Active(config)
  /\ config.mute_log_webhook /\ Len(fate) < MaxReports
  /\ LET report == Len(fate) + 1
     IN  /\ queue' = Push(queue, report, QueueMax)
         /\ fate' = [r \in 1 .. report |->
                       IF r = report THEN "queued"
                       ELSE IF r \in Dropped(queue, QueueMax) THEN "overflow" ELSE fate[r]]
  /\ UNCHANGED <<building, hooking, threads, at, job, late>>

(* Mutant: what is queued is posted before the thread ends.                *)
EndsWhenEmpty(w) == stop[w] /\ queue = <<>>

Ends(w) == stop[w]

(* The head of ThreadMain's loop, the pop, the post; the last may fail and *)
(* is not repeated.                                                        *)
WebhookLoop ==
  /\ thread["webhook"] = "running" /\ at = "top"
  /\ IF Ends("webhook") THEN thread' = [thread EXCEPT !["webhook"] = "ended"] /\ at' = at
     ELSE at' = "pop" /\ UNCHANGED thread
  /\ UNCHANGED <<building, hooking, stop, started, job, queue, fate, late>>

WebhookPop ==
  /\ thread["webhook"] = "running" /\ at = "pop"
  /\ IF CanPop(queue)
     THEN /\ job' = Head(queue) /\ queue' = Tail(queue) /\ at' = "post"
          /\ late' = IF stop["webhook"] THEN late + 1 ELSE late
     ELSE at' = "top" /\ UNCHANGED <<job, queue, late>>
  /\ UNCHANGED <<building, hooking, threads, fate>>

PostDiscordWebhookSync(ok) ==
  /\ thread["webhook"] = "running" /\ at = "post"
  /\ fate' = [fate EXCEPT ![job] = IF ok THEN "posted" ELSE "failed"]
  /\ job' = 0 /\ at' = "top"
  /\ UNCHANGED <<building, hooking, threads, queue, late>>

(* The database worker reaches the test of its stop_token again and again. *)
DbWorkerEnds ==
  /\ thread["db"] = "running" /\ stop["db"]
  /\ thread' = [thread EXCEPT !["db"] = "ended"]
  /\ UNCHANGED <<building, hooking, stop, started, reporting>>

-----------------------------------------------------------------------------
(* ~PalCrosschatMod()                                                      *)

(* Mutant: the capture hook stays.                                         *)
UnloadOrderNoCapture == <<"join", "db", "webhook">>

UnloadOrder == <<"capture", "join", "db", "webhook">>

Unload ==
  /\ phase \in {"ready", "live"}
  /\ phase' = "unload"
  /\ UNCHANGED <<config, built, unloaded, hooking, threads, reporting>>

Unregister(h) ==
  IF registered[h]
  THEN hooks' = hooks \ {h} /\ registered' = [registered EXCEPT ![h] = FALSE]
  ELSE UNCHANGED hooking

(* Stop has a thread to stop: DbWorker asks the thread only, WebhookWorker *)
(* m_started too.                                                          *)
Stoppable(w) == thread[w] = "running" /\ (w = "webhook" => started[w])

(* Mutant: only the join.                                                  *)
JoinOnly(w) == UNCHANGED <<stop, started>>

(* exchange(false) and request_stop.                                       *)
RequestStop(w) ==
  /\ stop' = [stop EXCEPT ![w] = TRUE]
  /\ started' = [started EXCEPT ![w] = FALSE]

AskToStop(w) ==
  Stoppable(w) /\ ~stop[w] /\ RequestStop(w)
  /\ UNCHANGED <<thread, building, hooking, reporting>>

(* Stop returns, once the join has waited for the thread it asked.         *)
Stopped(w) ==
  /\ ~Stoppable(w) /\ (stop[w] => thread[w] # "running")
  /\ started' = [started EXCEPT ![w] = FALSE]
  /\ UNCHANGED <<thread, stop>>

(* The body of the destructor; none of it happens for a disabled mod.      *)
UnloadStep ==
  /\ phase = "unload" /\ built > 0 /\ unloaded < Len(UnloadOrder)
  /\ LET part == UnloadOrder[unloaded + 1]
     IN  IF part \in Hooks
         THEN Unregister(part) /\ unloaded' = unloaded + 1
              /\ UNCHANGED <<phase, config, built, threads, reporting>>
         ELSE \/ AskToStop(part)
              \/ /\ Stopped(part) /\ unloaded' = unloaded + 1
                 /\ UNCHANGED <<phase, config, built, hooking, reporting>>

UnloadDone ==
  /\ phase = "unload" /\ (built = 0 \/ unloaded = Len(UnloadOrder))
  /\ phase' = "destroy"
  /\ UNCHANGED <<config, built, unloaded, hooking, threads, reporting>>

(* The members go in reverse order; those of the workers stop their        *)
(* threads, that of the audience unregisters once more.  Reports that were *)
(* not popped go with the queue.                                           *)
Destroy ==
  /\ phase = "destroy" /\ built > 0
  /\ LET member == Members[built]
     IN  \/ member \in Workers /\ AskToStop(member)
         \/ /\ IF member \in Workers THEN Stopped(member) ELSE UNCHANGED threads
            /\ IF member = "audience" THEN Unregister("join") ELSE UNCHANGED hooking
            /\ IF member = "webhook"
               THEN queue' = <<>> /\ fate' = [r \in DOMAIN fate |->
                                                IF r \in Items(queue) THEN "left" ELSE fate[r]]
               ELSE UNCHANGED <<queue, fate>>
            /\ built' = built - 1
            /\ UNCHANGED <<phase, config, unloaded, at, job, late>>

Gone ==
  /\ phase = "destroy" /\ built = 0 /\ phase' = "gone"
  /\ UNCHANGED <<config, built, unloaded, hooking, threads, reporting>>

-----------------------------------------------------------------------------

Construction ==
  \/ \E file \in Files : Load(file)
  \/ Build \/ BuildThrows
  \/ \E created \in BOOLEAN : StartWebhook(created) \/ StartDb(created)

Destruction == UnloadStep \/ UnloadDone \/ Destroy \/ Gone

WebhookThread == WebhookLoop \/ WebhookPop \/ \E ok \in BOOLEAN : PostDiscordWebhookSync(ok)

Next ==
  \/ Construction \/ RegisterJoin \/ RegisterCapture \/ Unload \/ Destruction
  \/ Report \/ WebhookThread \/ DbWorkerEnds

(* The threads are scheduled, their calls return (WinHttp has timeouts of  *)
(* seconds, DbWorker's StopCompletes is about the other), and the game     *)
(* thread goes on with what it has begun.  It need not unload the mod.     *)
Fairness ==
  /\ WF_vars(WebhookThread) /\ WF_vars(DbWorkerEnds) /\ WF_vars(Destruction)

Spec == Init /\ [][Next]_vars /\ Fairness

-----------------------------------------------------------------------------
(* Properties                                                              *)

(* Neither the game nor a thread can use a member that has been destroyed: *)
(* whenever the game thread is free to call hooks, what the installed ones *)
(* use exists, and what a running thread uses exists always.               *)
NothingUsedAfterFree ==
  /\ phase \notin {"unload", "destroy"} => \A h \in hooks : Uses(h) \subseteq Alive
  /\ \A w \in Workers : thread[w] = "running" => Uses(w) \subseteq Alive

(* Every report is posted, refused by Discord, pushed out by newer ones,   *)
(* or left behind by the unloading: there is a thread for it whenever a    *)
(* line can hit a pattern (the condition for Start is not that of          *)
(* Enqueue).                                                               *)
ReportsServed ==
  \A r \in 1 .. MaxReports :
    (r \in DOMAIN fate /\ fate[r] = "queued")
      ~> (r \in DOMAIN fate /\ fate[r] \in {"posted", "failed", "overflow", "left"})

(* The destructor, which joins two threads on the game thread, returns; so *)
(* does the clearing up after a constructor that failed half-way.          *)
UnloadEnds == phase \in {"unload", "destroy"} ~> phase = "gone"

(* The unloading waits for the post in progress and for one more at most,  *)
(* however many reports are queued.                                        *)
UnloadPostsOnce == late <= 1
=============================================================================
