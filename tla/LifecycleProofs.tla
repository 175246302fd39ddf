-------------------------- MODULE LifecycleProofs --------------------------
(***************************************************************************)
(* Theorems about Lifecycle and Config, for any config.json, any number of *)
(* reports and whatever RegisterHook, the allocations and the creation of  *)
(* a thread come to.                                                       *)
(***************************************************************************)
EXTENDS Lifecycle, TLAPS

USE DEF building, hooking, threads, reporting

-----------------------------------------------------------------------------
(* Config                                                                  *)

(* The assumptions of the other modules on the values of a Config: batches *)
(* and the sleep of DbWorker, the rows of a frame of ChatInject, and the   *)
(* mutes of WordFilter.  LoadConfig gives no others to a mod that runs.    *)
THEOREM ConfigIsUsable ==
  ASSUME NEW file \in File, LoadConfig(file).enabled
  PROVE  /\ LoadConfig(file).max_batch \in Nat \ {0}
         /\ LoadConfig(file).reconnect_backoff_max_sec \in Nat \ {0}
         /\ LoadConfig(file).max_broadcasts_per_tick \in Nat \ {0}
         /\ LoadConfig(file).mysql_port \in Nat \ {0} /\ LoadConfig(file).mysql_port <= 65535
<1>1. file.readable /\ file.origin \in {"pal-na", "pal-eu"} /\ file.mysql
  BY DEF LoadConfig, Disabled
<1>2. /\ file.batch \in Seq(Int) /\ file.backoff \in Seq(Int)
      /\ file.broadcasts \in Seq(Int) /\ file.port \in Seq(Int)
  BY DEF File
<1>3. GetOr(file.batch, 50) \in Int
  BY <1>2 DEF GetOr
<1>4. GetOr(file.backoff, 30) \in Int
  BY <1>2 DEF GetOr
<1>5. GetOr(file.broadcasts, 5) \in Int
  BY <1>2 DEF GetOr
<1>6. LoadConfig(file).max_batch \in Nat \ {0}
  <2> DEFINE n == GetOr(file.batch, 50)
  <2>1. LoadConfig(file).max_batch = AtLeast(1, n)
    BY <1>1 DEF LoadConfig
  <2>2. n \in Int
    BY <1>3
  <2> HIDE DEF n
  <2> QED
    BY <2>1, <2>2 DEF AtLeast
<1>7. LoadConfig(file).reconnect_backoff_max_sec \in Nat \ {0}
  <2> DEFINE n == GetOr(file.backoff, 30)
  <2>1. LoadConfig(file).reconnect_backoff_max_sec = AtLeast(1, n)
    BY <1>1 DEF LoadConfig
  <2>2. n \in Int
    BY <1>4
  <2> HIDE DEF n
  <2> QED
    BY <2>1, <2>2 DEF AtLeast
<1>8. LoadConfig(file).max_broadcasts_per_tick \in Nat \ {0}
  <2> DEFINE n == GetOr(file.broadcasts, 5)
  <2>1. LoadConfig(file).max_broadcasts_per_tick = AtLeast(1, n)
    BY <1>1 DEF LoadConfig
  <2>2. n \in Int
    BY <1>5
  <2> HIDE DEF n
  <2> QED
    BY <2>1, <2>2 DEF AtLeast
<1>9. LoadConfig(file).mysql_port \in Nat \ {0} /\ LoadConfig(file).mysql_port <= 65535
  <2> DEFINE port == GetOr(file.port, 3306)
  <2>1. port \in Int
    BY <1>2 DEF GetOr
  <2>2. LoadConfig(file).mysql_port = IF port <= 0 \/ port > 65535 THEN 3306 ELSE port
    BY <1>1 DEF LoadConfig
  <2> HIDE DEF port
  <2> QED
    BY <2>1, <2>2
<1> QED
  BY <1>6, <1>7, <1>8, <1>9, PTL

-----------------------------------------------------------------------------
(* What exists                                                             *)

(* The whole mod, and the part of it that the webhook worker needs.        *)
LEMMA WholeIsAlive ==
  ASSUME built = Len(Members), NEW user \in Workers \cup Hooks
  PROVE  Uses(user) \subseteq Alive
<1>1. built = 10 /\ Alive = {Members[i] : i \in 1 .. 10}
  BY DEF Members, Alive
<1>2. /\ Members[1] = "outbound" /\ Members[2] = "inbound" /\ Members[3] = "link_jobs"
      /\ Members[4] = "link_results" /\ Members[5] = "webhook" /\ Members[6] = "filter"
      /\ Members[7] = "audience" /\ Members[8] = "db" /\ Members[9] = "inject"
      /\ Members[10] = "capture"
  BY DEF Members
<1>3. {"outbound", "inbound", "link_jobs", "link_results", "webhook", "filter",
       "audience", "db", "inject", "capture"} \subseteq Alive
  BY <1>1, <1>2
<1> QED
  BY <1>3 DEF Uses, Queues, Workers, Hooks

LEMMA WebhookIsAlive ==
  ASSUME built \in Nat, built >= 5
  PROVE  Uses("webhook") \subseteq Alive
<1>1. Members[5] = "webhook" /\ 5 \in 1 .. built
  BY DEF Members
<1> QED
  BY <1>1 DEF Uses, Alive

-----------------------------------------------------------------------------
(* The invariant                                                           *)

Running  == {"ready", "registerCapture", "live", "unload"}
Starting == {"load", "build", "startDb"}

(* A hook is installed only with an id that its owner recognises, while    *)
(* the whole mod exists, and until the destructor's body is past it.       *)
HookInv ==
  \A h \in hooks :
    /\ h \in Hooks /\ registered[h] /\ built = Len(Members)
    /\ phase \in {"registerCapture", "live", "unload"}
    /\ phase = "registerCapture" => h = "join"
    /\ phase = "unload" => unloaded < IF h = "capture" THEN 1 ELSE 2

(* The database worker runs between the constructor's last line and its    *)
(* own place in the destructor's body.                                     *)
DbInv ==
  /\ thread["db"] = "running" =>
       /\ built = Len(Members) /\ phase \in Running
       /\ phase = "unload" => unloaded < 3

(* The webhook worker may outlive a constructor that fails, but not its    *)
(* own member: it can be stopped as long as it runs.                       *)
WebhookInv ==
  thread["webhook"] = "running" =>
    /\ built >= 5 /\ phase # "load"
    /\ phase \notin {"destroy", "gone"} => built = Len(Members)
    /\ started["webhook"] \/ stop["webhook"]

ShapeInv ==
  /\ built \in 0 .. Len(Members) /\ unloaded \in 0 .. Len(UnloadOrder)
  /\ thread \in [Workers -> {"none", "running", "ended"}]
  /\ stop \in [Workers -> BOOLEAN] /\ started \in [Workers -> BOOLEAN]
  /\ registered \in [Hooks -> BOOLEAN] /\ hooks \subseteq Hooks
  /\ phase \in {"startDb", "registerCapture", "live"} => built = Len(Members)
  /\ phase = "load" => built = 0
  /\ phase = "ready" => built \in {0, Len(Members)}
  /\ phase \in Starting \cup {"ready", "registerCapture", "live"} => unloaded = 0
  /\ phase = "unload" => built \in {0, Len(Members)}

LifeInv == ShapeInv /\ HookInv /\ DbInv /\ WebhookInv

LEMMA LifeSafe == LifeInv => NothingUsedAfterFree
<1> SUFFICES ASSUME LifeInv PROVE NothingUsedAfterFree
  OBVIOUS
<1>1. \A h \in hooks : Uses(h) \subseteq Alive
  BY WholeIsAlive DEF LifeInv, HookInv
<1>2. thread["db"] = "running" => Uses("db") \subseteq Alive
  BY WholeIsAlive DEF LifeInv, DbInv, Workers
<1>3. thread["webhook"] = "running" => Uses("webhook") \subseteq Alive
  BY WebhookIsAlive DEF LifeInv, ShapeInv, WebhookInv
<1> QED
  BY <1>1, <1>2, <1>3 DEF NothingUsedAfterFree, Workers

LEMMA Sizes == Len(Members) = 10 /\ Len(UnloadOrder) = 4
               /\ UnloadOrder[1] = "capture" /\ UnloadOrder[2] = "join"
               /\ UnloadOrder[3] = "db" /\ UnloadOrder[4] = "webhook"
               /\ Members[5] = "webhook" /\ Members[7] = "audience" /\ Members[8] = "db"
               /\ \A i \in 1 .. 10 : i \notin {5, 8} => Members[i] \notin Workers
BY DEF Members, UnloadOrder, Workers

LEMMA InitLifeInv == Init => LifeInv
BY Sizes DEF Init, LifeInv, ShapeInv, HookInv, DbInv, WebhookInv, Workers, Hooks, Starting,
             Running

(* The steps of the threads and of the reports: they end a thread, at most.*)
Background == \/ Report \/ WebhookLoop \/ WebhookPop \/ DbWorkerEnds \/ UNCHANGED vars
              \/ \E ok \in BOOLEAN : PostDiscordWebhookSync(ok)

LEMMA BackgroundStep ==
  ASSUME ShapeInv, Background
  PROVE  /\ UNCHANGED <<building, hooking, stop, started>>
         /\ thread' \in [Workers -> {"none", "running", "ended"}]
         /\ \A w \in Workers : thread'[w] = "running" => thread[w] = "running"
BY DEF Background, Report, WebhookLoop, WebhookPop, DbWorkerEnds, PostDiscordWebhookSync,
       vars, ShapeInv, Workers

(* RegisterHook: a hook that is installed is recognised by its owner.      *)
LEMMA RegisterStep ==
  ASSUME registered \in [Hooks -> BOOLEAN], NEW h \in Hooks,
         (\E o \in Outcomes(h) : RegisterHook(h, o)) \/ UNCHANGED hooking,
         \A g \in hooks : g \in Hooks \ {h} /\ registered[g]
  PROVE  /\ hooks' \subseteq hooks \cup {h} /\ registered' \in [Hooks -> BOOLEAN]
         /\ \A g \in hooks' : registered'[g]
<1>1. ASSUME NEW o \in Outcomes(h)
      PROVE  Installed(o) => Sees(h, o)
  BY HookIdAssumption DEF Outcomes, Installed, Sees, Hooks
<1>2. \A o : Sees(h, o) \in BOOLEAN
  BY DEF Sees
<1>3. CASE UNCHANGED hooking
  BY <1>3
<1>4. ASSUME NEW o \in Outcomes(h), RegisterHook(h, o)
      PROVE  /\ hooks' \subseteq hooks \cup {h} /\ registered' \in [Hooks -> BOOLEAN]
             /\ \A g \in hooks' : registered'[g]
  BY <1>1, <1>2, <1>4 DEF RegisterHook
<1> QED
  BY <1>3, <1>4

(* Unregister takes away a hook that its owner recognises, and no other.   *)
LEMMA UnregisterStep ==
  ASSUME registered \in [Hooks -> BOOLEAN], NEW h \in Hooks, Unregister(h),
         \A g \in hooks : registered[g]
  PROVE  /\ hooks' = hooks \ {h} /\ registered' \in [Hooks -> BOOLEAN]
         /\ \A g \in Hooks \ {h} : registered'[g] = registered[g]
BY DEF Unregister

LEMMA AskStep ==
  ASSUME ShapeInv, NEW w \in Workers, AskToStop(w)
  PROVE  /\ UNCHANGED <<building, hooking, thread>>
         /\ stop' \in [Workers -> BOOLEAN] /\ started' \in [Workers -> BOOLEAN]
         /\ stop'[w] /\ \A v \in Workers \ {w} : stop'[v] = stop[v] /\ started'[v] = started[v]
BY DEF AskToStop, RequestStop, ShapeInv

LEMMA NextLifeInv == LifeInv /\ [Next]_vars => LifeInv'
<1> SUFFICES ASSUME LifeInv, [Next]_vars
             PROVE  LifeInv'
  OBVIOUS
<1> USE Sizes DEF LifeInv, Workers, Hooks, Starting, Running
<1>1. CASE Background
  BY ZenonT(40), <1>1, BackgroundStep DEF ShapeInv, HookInv, DbInv, WebhookInv
<1>2. ASSUME NEW file \in Files, Load(file)
      PROVE  LifeInv'
  <2>1. phase = "load" /\ phase' \in {"gone", "ready", "build"} /\ built = 0
    BY <1>2 DEF Load, ShapeInv
  <2> QED
    BY <1>2, <2>1 DEF Load, ShapeInv, HookInv, DbInv, WebhookInv
<1>3. CASE Build \/ BuildThrows
  <2>1. /\ phase = "build" /\ phase' \in {"build", "destroy"} /\ built < 10
        /\ built' \in {built, built + 1}
        /\ UNCHANGED <<unloaded, hooking, threads>>
    BY <1>3 DEF Build, BuildThrows
  <2>2. hooks = {} /\ thread["db"] # "running" /\ thread["webhook"] # "running"
    BY <2>1 DEF HookInv, DbInv, WebhookInv
  <2> QED
    BY <2>1, <2>2 DEF ShapeInv, HookInv, DbInv, WebhookInv
<1>4. ASSUME NEW created \in BOOLEAN, StartWebhook(created)
      PROVE  LifeInv'
  <2>1. ShapeInv'
    BY ZenonT(40), <1>4 DEF StartWebhook, Start, ShapeInv
  <2>2. HookInv' /\ DbInv'
    BY <1>4 DEF StartWebhook, Start, ShapeInv, HookInv, DbInv
  <2>3. WebhookInv'
    BY <1>4 DEF StartWebhook, Start, ShapeInv, WebhookInv
  <2> QED
    BY <2>1, <2>2, <2>3
<1>5. ASSUME NEW created \in BOOLEAN, StartDb(created)
      PROVE  LifeInv'
  <2>1. ShapeInv'
    BY <1>5 DEF StartDb, Start, ShapeInv
  <2>2. HookInv' /\ DbInv'
    BY <1>5 DEF StartDb, Start, ShapeInv, HookInv, DbInv
  <2>3. WebhookInv'
    BY <1>5 DEF StartDb, Start, ShapeInv, WebhookInv
  <2> QED
    BY <2>1, <2>2, <2>3
<1>6. CASE RegisterJoin
  <2>1. built = Len(Members) /\ hooks = {}
    BY <1>6 DEF RegisterJoin, Alive, ShapeInv, HookInv
  <2>2. /\ hooks' \subseteq {"join"} /\ registered' \in [Hooks -> BOOLEAN]
        /\ \A g \in hooks' : registered'[g]
    BY <1>6, <2>1, RegisterStep DEF RegisterJoin, ShapeInv
  <2> QED
    BY <1>6, <2>1, <2>2 DEF RegisterJoin, ShapeInv, HookInv, DbInv, WebhookInv
<1>7. CASE RegisterCapture
  <2>1. \A g \in hooks : g \in Hooks \ {"capture"} /\ registered[g]
    BY <1>7 DEF RegisterCapture, HookInv
  <2>2. /\ hooks' \subseteq Hooks /\ registered' \in [Hooks -> BOOLEAN]
        /\ \A g \in hooks' : registered'[g]
    BY <1>7, <2>1, RegisterStep DEF RegisterCapture, ShapeInv
  <2> QED
    BY <1>7, <2>2 DEF RegisterCapture, ShapeInv, HookInv, DbInv, WebhookInv
<1>8. CASE Unload
  BY <1>8 DEF Unload, ShapeInv, HookInv, DbInv, WebhookInv
<1>9. CASE UnloadStep
  <2> DEFINE part == UnloadOrder[unloaded + 1]
  <2>1. unloaded \in 0 .. 3 /\ phase = "unload" /\ phase' = "unload"
    BY <1>9 DEF UnloadStep, ShapeInv, AskToStop
  <2>2. CASE part \in Hooks
    <3>1. /\ Unregister(part) /\ unloaded' = unloaded + 1
          /\ UNCHANGED <<phase, config, built, threads>>
      BY <1>9, <2>2 DEF UnloadStep
    <3>2. /\ hooks' = hooks \ {part} /\ registered' \in [Hooks -> BOOLEAN]
          /\ \A g \in Hooks \ {part} : registered'[g] = registered[g]
      BY <2>2, <3>1, UnregisterStep DEF ShapeInv, HookInv
    <3>3. part = IF unloaded = 0 THEN "capture" ELSE "join"
      BY <2>1, <2>2
    <3>4. unloaded \in {0, 1}
      BY <2>1, <2>2
    <3> QED
      BY <2>1, <3>1, <3>2, <3>3, <3>4 DEF ShapeInv, HookInv, DbInv, WebhookInv
  <2>3. CASE part \notin Hooks /\ AskToStop(part)
    <3>1. part \in Workers
      BY <2>1, <2>3
    <3>2. /\ UNCHANGED <<building, hooking, thread>> /\ stop'[part]
          /\ stop' \in [Workers -> BOOLEAN] /\ started' \in [Workers -> BOOLEAN]
          /\ \A v \in Workers \ {part} : stop'[v] = stop[v] /\ started'[v] = started[v]
      BY <2>3, <3>1, AskStep
    <3> QED
      BY <3>1, <3>2 DEF ShapeInv, HookInv, DbInv, WebhookInv
  <2>4. CASE part \notin Hooks /\ ~AskToStop(part)
    <3>1. /\ Stopped(part) /\ unloaded' = unloaded + 1
          /\ UNCHANGED <<phase, config, built, hooking>>
      BY <1>9, <2>4 DEF UnloadStep
    <3>2. hooks = {}
      BY <2>1, <2>4 DEF ShapeInv, HookInv
    <3>3. part = "db" => thread["db"] # "running"
      BY <3>1 DEF Stopped, Stoppable
    <3>4. unloaded \in {2, 3} /\ (unloaded = 2 => part = "db")
      BY <2>1, <2>4
    <3>5. /\ UNCHANGED <<thread, stop>> /\ started' \in [Workers -> BOOLEAN]
          /\ started'["webhook"] = started["webhook"] \/ thread["webhook"] # "running"
      BY <2>1, <3>1, <3>4 DEF Stopped, Stoppable, ShapeInv, WebhookInv
    <3> QED
      BY <2>1, <3>1, <3>2, <3>3, <3>4, <3>5 DEF ShapeInv, HookInv, DbInv, WebhookInv
  <2> QED
    BY <2>2, <2>3, <2>4
<1>10. CASE UnloadDone
  BY <1>10 DEF UnloadDone, ShapeInv, HookInv, DbInv, WebhookInv
<1>11. CASE Destroy
  <2>1. /\ phase = "destroy" /\ phase' = "destroy" /\ built \in 1 .. 10
    BY <1>11 DEF Destroy, AskToStop, ShapeInv
  <2>2. hooks = {} /\ thread["db"] # "running"
    BY <2>1 DEF HookInv, DbInv
  <2>3. CASE Members[built] \in Workers /\ AskToStop(Members[built])
    BY <2>1, <2>2, <2>3, AskStep DEF ShapeInv, HookInv, DbInv, WebhookInv
  <2>4. CASE ~(Members[built] \in Workers /\ AskToStop(Members[built]))
    <3>1. /\ IF Members[built] \in Workers THEN Stopped(Members[built]) ELSE UNCHANGED threads
          /\ IF Members[built] = "audience" THEN Unregister("join") ELSE UNCHANGED hooking
          /\ built' = built - 1 /\ UNCHANGED <<phase, config, unloaded>>
      BY <1>11, <2>4 DEF Destroy
    <3>2. hooks' = {} /\ registered' \in [Hooks -> BOOLEAN]
      BY <2>2, <3>1, UnregisterStep DEF ShapeInv
    <3>3. built = 5 => thread["webhook"] # "running"
      BY <3>1 DEF Stopped, Stoppable, WebhookInv
    <3>4. /\ UNCHANGED <<thread, stop>> /\ started' \in [Workers -> BOOLEAN]
          /\ built # 5 => started'["webhook"] = started["webhook"]
      <4>1. CASE built = 5
        BY ZenonT(40), <3>1, <4>1 DEF Stopped, ShapeInv
      <4>2. CASE built = 8
        <5>1. Members[built] = "db" /\ Members[built] \in Workers
          BY <4>2
        <5>2. Stopped("db")
          BY <3>1, <5>1, Zenon
        <5> QED
          BY <4>2, <5>2 DEF Stopped, ShapeInv
      <4>3. CASE built \notin {5, 8}
        <5>1. Members[built] \notin Workers
          BY <2>1, <4>3
        <5> QED
          BY <3>1, <4>3, <5>1 DEF ShapeInv
      <4> QED
        BY <4>1, <4>2, <4>3
    <3> QED
      BY <2>1, <2>2, <3>1, <3>2, <3>3, <3>4 DEF ShapeInv, HookInv, DbInv, WebhookInv
  <2> QED
    BY <2>3, <2>4
<1>12. CASE Gone
  BY <1>12 DEF Gone, ShapeInv, HookInv, DbInv, WebhookInv
<1> QED
  BY <1>1, <1>2, <1>3, <1>4, <1>5, <1>6, <1>7, <1>8, <1>9, <1>10, <1>11, <1>12
  DEF Next, Construction, Destruction, WebhookThread, Background

(* No hook and no thread ever finds a part of the mod destroyed, whichever *)
(* step of the constructor fails and whatever RegisterHook answers.        *)
THEOREM LifeCorrect == Spec => []NothingUsedAfterFree
BY InitLifeInv, NextLifeInv, LifeSafe, PTL DEF Spec

-----------------------------------------------------------------------------
(* The posts of the unloading                                              *)

(* The webhook worker tests its stop_token between any two pops, so that a *)
(* pop that comes after the request is the first and the last.             *)
LateInv ==
  /\ late \in {0, 1}
  /\ ~stop["webhook"] => late = 0
  /\ at = "pop" => late = 0

(* Nobody but the webhook worker itself moves it, and no request to stop   *)
(* is taken back.                                                          *)
LEMMA OthersLeaveWorker ==
  ASSUME ShapeInv, [Next]_vars, ~WebhookThread
  PROVE  UNCHANGED <<at, late>> /\ (stop["webhook"] => stop'["webhook"])
<1>1. CASE Construction \/ RegisterJoin \/ RegisterCapture \/ Unload \/ Report \/ DbWorkerEnds
           \/ UNCHANGED vars
  BY <1>1 DEF Construction, Load, Build, BuildThrows, StartWebhook, StartDb, Start, RegisterJoin,
              RegisterCapture, Unload, Report, DbWorkerEnds, vars, building, hooking, threads,
              reporting
<1>2. ASSUME NEW w, AskToStop(w)
      PROVE  UNCHANGED <<at, late>> /\ (stop["webhook"] => stop'["webhook"])
  BY <1>2 DEF AskToStop, RequestStop, ShapeInv, Workers, reporting
<1>3. ASSUME NEW w, Stopped(w)
      PROVE  stop' = stop
  BY <1>3 DEF Stopped
<1>4. CASE UnloadStep
  BY <1>2, <1>3, <1>4 DEF UnloadStep, threads, reporting
<1>5. CASE Destroy
  BY <1>2, <1>3, <1>5 DEF Destroy, threads
<1>6. CASE UnloadDone \/ Gone
  BY <1>6 DEF UnloadDone, Gone, threads, reporting
<1> QED
  BY <1>1, <1>4, <1>5, <1>6 DEF Next, Destruction

LEMMA NextLateInv == ShapeInv /\ LateInv /\ [Next]_vars => LateInv'
<1> SUFFICES ASSUME ShapeInv, LateInv, [Next]_vars
             PROVE  LateInv'
  OBVIOUS
<1>1. CASE WebhookLoop
  BY <1>1 DEF WebhookLoop, Ends, LateInv
<1>2. CASE WebhookPop
  BY <1>2 DEF WebhookPop, LateInv, threads
<1>3. ASSUME NEW ok \in BOOLEAN, PostDiscordWebhookSync(ok)
      PROVE  LateInv'
  BY <1>3 DEF PostDiscordWebhookSync, LateInv, threads
<1>4. CASE ~WebhookThread
  BY <1>4, OthersLeaveWorker DEF LateInv
<1> QED
  BY <1>1, <1>2, <1>3, <1>4 DEF WebhookThread

(* UnloadPostsOnce: however many reports are queued, the unloading waits   *)
(* for the post in progress and for one more at most.                      *)
THEOREM UnloadCorrect == Spec => []UnloadPostsOnce
<1>1. Init => LateInv
  BY DEF Init, LateInv, Workers
<1>2. LateInv => UnloadPostsOnce
  BY DEF LateInv, UnloadPostsOnce
<1>3. LifeInv => ShapeInv
  BY DEF LifeInv
<1> QED
  BY <1>1, <1>2, <1>3, InitLifeInv, NextLifeInv, NextLateInv, PTL DEF Spec
=============================================================================
