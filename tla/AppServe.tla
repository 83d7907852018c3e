------------------------------ MODULE AppServe ------------------------------
(***************************************************************************)
(* The life of an application (App::serve and App::run in crate            *)
(* overseerd-app): start-up hooks, the reload triggers, the protocol's     *)
(* serve (RpcServe, HttpServe) or the bare wait of run, then the way out:  *)
(* triggers stopped, shutdown hooks run.                                   *)
(***************************************************************************)
EXTENDS RpcServe, HttpServe

CONSTANTS
    StartupHooks,   \* the component of each start-up hook, in registration order
    ShutdownHooks   \* the component of each shutdown hook

ASSUME HooksAssumption == Len(StartupHooks) \in Nat /\ Len(ShutdownHooks) \in Nat

VARIABLES
    mode,       \* App::serve over RPC or HTTP, or App::run
    apc,        \* where it is
    succeeded,  \* start-up hooks that returned Ok
    failed,     \* whether a start-up hook failed
    triggers,   \* the reload trigger tasks: "none", "running" or "stopped"
    hooks,      \* shutdown hooks still running
    tornDown    \* shutdown hooks that returned

app  == <<mode, apc, succeeded, failed, triggers, hooks, tornDown>>
vars == <<serveVars, httpServeVars, app>>
protocols == <<serveVars, httpServeVars>>

AppPhase == {"startup", "spawn", "serving", "waiting", "stopping", "cleanup", "hooks", "done"}

Init ==
    /\ ServeInit
    /\ mode \in {"rpc", "http", "run"} /\ apc = "startup"
    /\ HttpServeInit /\ (mode # "http" => http = CHOOSE a \in HttpApps : register_ws(a))
    /\ succeeded = 0 /\ failed = FALSE /\ triggers = "none"
    /\ hooks = {} /\ tornDown = {}

RpcProtocol ==
    /\ apc = "serving" /\ mode = "rpc" /\ ServeNext
    /\ UNCHANGED <<app, httpServeVars>>

HttpProtocol ==
    /\ apc = "serving" /\ mode = "http"
    /\ RunStep(shutdown) /\ UNCHANGED <<app, serveVars>>

HttpRequests == mode = "http" /\ RequestsNext /\ UNCHANGED <<app, serveVars>>

\* Connection tasks (of HTTP above) and shutdown handles live on while the application does something else.
Outside ==
    /\ apc # "serving" \/ mode = "http"
    /\ RequestShutdown \/ \E c \in Connections : ConnectionStep(c)
    /\ UNCHANGED <<app, httpServeVars>>

-----------------------------------------------------------------------------
(* run_startup: one hook after the other, until one fails. *)

NextHook == succeeded + 1

StartupHookOk ==
    /\ apc = "startup" /\ NextHook <= Len(StartupHooks)
    /\ succeeded' = NextHook
    /\ UNCHANGED <<protocols, mode, apc, failed, triggers, hooks, tornDown>>

AfterFailure == "cleanup"

StartupHookFails ==
    /\ apc = "startup" /\ NextHook <= Len(StartupHooks)
    /\ failed' = TRUE /\ apc' = AfterFailure
    /\ UNCHANGED <<protocols, mode, succeeded, triggers, hooks, tornDown>>

StartupDone ==
    /\ apc = "startup" /\ NextHook > Len(StartupHooks)
    /\ apc' = "spawn"
    /\ UNCHANGED <<protocols, mode, succeeded, failed, triggers, hooks, tornDown>>

\* The components run_startup returns.
started == {StartupHooks[n] : n \in 1..succeeded}

-----------------------------------------------------------------------------
\* The triggers are spawned, and serve() is entered or the wait of run begins.
SpawnTriggers ==
    /\ apc = "spawn"
    /\ triggers' = "running"
    /\ apc' = IF mode = "run" THEN "waiting" ELSE "serving"
    /\ spc' = IF mode = "rpc" THEN "select" ELSE spc
    /\ UNCHANGED <<shutdown, conn, cancelled, retry, result, httpServeVars, mode, succeeded, failed,
                   hooks, tornDown>>

\* Ctrl-c: bridged to the signal by a task under serve, awaited itself by run.
CtrlC ==
    /\ apc = "serving" /\ ~shutdown /\ shutdown' = TRUE
    /\ UNCHANGED <<server, httpServeVars, app>>

WaitEnds ==
    /\ apc = "waiting"       \* ctrl-c or the signal: either may come at any time
    /\ apc' = "stopping"
    /\ UNCHANGED <<protocols, mode, succeeded, failed, triggers, hooks, tornDown>>

ServeEnded ==
    /\ apc = "serving" /\ (spc = "returned" \/ HttpReturned)
    /\ apc' = "stopping"
    /\ UNCHANGED <<protocols, mode, succeeded, failed, triggers, hooks, tornDown>>

\* stop_reload_triggers has aborted and joined every trigger task.
TriggersStopped ==
    /\ apc = "stopping"
    /\ triggers' = "stopped" /\ apc' = "cleanup"
    /\ UNCHANGED <<protocols, mode, succeeded, failed, hooks, tornDown>>

-----------------------------------------------------------------------------
(* run_shutdown *)

StartsUp(c) == c \in Range(StartupHooks)

\* The shutdown hooks that run: of components with no start-up hook, and of started ones.
Paired == {n \in 1..Len(ShutdownHooks) :
               ~StartsUp(ShutdownHooks[n]) \/ ShutdownHooks[n] \in started}

RunShutdown ==
    /\ apc = "cleanup"
    /\ hooks' = Paired /\ apc' = "hooks"
    /\ UNCHANGED <<protocols, mode, succeeded, failed, triggers, tornDown>>

\* A failure is logged and counts as any other return.
ShutdownHookReturns(n) ==
    /\ apc = "hooks" /\ n \in hooks
    /\ hooks' = hooks \ {n} /\ tornDown' = tornDown \cup {n}
    /\ UNCHANGED <<protocols, mode, apc, succeeded, failed, triggers>>

Ended ==
    /\ apc = "hooks" /\ hooks = {}
    /\ apc' = "done"
    /\ UNCHANGED <<protocols, mode, succeeded, failed, triggers, hooks, tornDown>>

-----------------------------------------------------------------------------
Step ==
    \/ StartupHookOk \/ StartupHookFails \/ StartupDone \/ SpawnTriggers \/ WaitEnds
    \/ ServeEnded \/ TriggersStopped \/ RunShutdown \/ Ended

Next ==
    \/ RpcProtocol \/ HttpProtocol \/ HttpRequests \/ Outside \/ Step \/ CtrlC
    \/ \E n \in 1..Len(ShutdownHooks) : ShutdownHookReturns(n)

Spec == Init /\ [][Next]_vars

Rest == UNCHANGED <<app, httpServeVars>>
RpcRest == UNCHANGED <<app, serveVars>>

\* The task of the application and those of the connections run when they can; hooks and
\* the factories of the scopes return; timers expire.  Peers, middleware and handlers owe
\* nothing.  A select picks among its ready arms at random, so one that stays ready is
\* picked in the end.
Fairness ==
    /\ WF_vars(StartupHookOk \/ StartupHookFails) /\ WF_vars(StartupDone)
    /\ WF_vars(SpawnTriggers) /\ WF_vars(shutdown /\ WaitEnds) /\ WF_vars(ServeEnded)
    /\ WF_vars(TriggersStopped) /\ WF_vars(RunShutdown) /\ WF_vars(Ended)
    /\ \A n \in 1..Len(ShutdownHooks) : WF_vars(ShutdownHookReturns(n))
    /\ WF_vars(SeeShutdown /\ Rest) /\ WF_vars(DrainShutdown /\ Rest)
    /\ WF_vars(ServeReturns /\ Rest) /\ WF_vars(HttpProtocol)
    /\ \A c \in Connections :
        /\ WF_vars(Join(c) /\ Rest)
        /\ WF_vars((ScopeOpened(c) \/ ScopeFails(c)) /\ Rest)
        /\ WF_vars(ConnectionCancelled(c) /\ Rest)
    /\ \A r \in Requests :
        /\ WF_vars((OpenScope(r) \/ EnterPolicy(r)) /\ RpcRest)
        /\ WF_vars(RequestTimeout(r) /\ RpcRest) /\ WF_vars(SocketDrained(r) /\ RpcRest)

FairSpec == Spec /\ Fairness

-----------------------------------------------------------------------------
(* Properties *)

\* Every variable keeps its type; the JoinSet stays within max_connections and the back-off
\* between its two limits.
TypeOK ==
    /\ shutdown \in BOOLEAN /\ cancelled \in BOOLEAN /\ failed \in BOOLEAN
    /\ spc \in ServePhase /\ conn \in [Connections -> ConnPhase]
    /\ Cardinality(Held) <= MaxConnections
    /\ retry \in RetryInitial..RetryMax
    /\ result \in {"none", "ok", "error", "panic"}
    /\ http \in HttpApps /\ xpc \in HttpPhase
    /\ signalled \in BOOLEAN /\ notice \in BOOLEAN /\ accepting \in BOOLEAN
    /\ mode \in {"rpc", "http", "run"} /\ apc \in AppPhase
    /\ succeeded \in 0..Len(StartupHooks)
    /\ triggers \in {"none", "running", "stopped"}
    /\ hooks \subseteq 1..Len(ShutdownHooks) /\ tornDown \subseteq 1..Len(ShutdownHooks)

\* Shutdown hooks run when no connection task, no HTTP request and no reload trigger is
\* left, unless the RPC serve() panicked, whose tasks are aborted and not awaited, or the
\* HTTP server's graceful timeout struck.  The sessions of upgraded WebSockets are not
\* awaited and may still use the components, but in every case they were told to close
\* before.  And whatever ends the application, the failure of a start-up hook included, the
\* shutdown hook of every component one of whose start-up hooks returned Ok has run by then
\* (App::serve, run_startup).
OrderlyTeardown ==
    /\ apc \in {"hooks", "done"} =>
        /\ triggers # "running"
        /\ result # "panic" => Alive = {}
        /\ xpc # "dropped" => \A r \in Requests : ~InService(r)
        /\ \A r \in Requests : Upgraded(r) => request[r].kind \in drained
    /\ apc = "done" => \A n \in 1..Len(ShutdownHooks) :
        ShutdownHooks[n] \in started => n \in tornDown

=============================================================================
