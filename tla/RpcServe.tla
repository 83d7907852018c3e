------------------------------ MODULE RpcServe ------------------------------
(***************************************************************************)
(* The accept loop of the RPC server (Serve for Rpc in crate               *)
(* overseerd-rpc): admission up to max_connections, the back-off after     *)
(* transient accept errors, and the two drain loops that end serve().      *)
(*                                                                         *)
(* A connection task is kept as far as serve() sees it: it opens its       *)
(* connection scope, serves, and ends.  StreamConnection models what it    *)
(* does while it serves.                                                   *)
(***************************************************************************)
EXTENDS Integers, FiniteSets

CONSTANTS
    Connections,     \* bound: the connections peers open
    MaxConnections,  \* RpcLimits::max_connections
    RetryInitial,    \* RpcLimits::accept_retry_initial
    RetryMax         \* RpcLimits::accept_retry_max

ASSUME ServeAssumption ==
    /\ IsFiniteSet(Connections)
    /\ MaxConnections \in Nat \ {0}
    /\ RetryInitial \in Nat \ {0}
    /\ RetryMax \in Nat /\ RetryMax >= RetryInitial

VARIABLES
    shutdown,   \* ShutdownSignal: the watch channel's value
    spc,        \* where serve() is
    conn,       \* each connection task
    cancelled,  \* connection_cancel
    retry,      \* accept_retry
    result      \* what serve() returns

server    == <<spc, conn, cancelled, retry, result>>
serveVars == <<shutdown, server>>

ServePhase == {"off", "select", "backoff", "drain", "rest", "returned"}
ConnPhase  == {"none", "opening", "serving", "ended", "joined"}

\* The tasks in the JoinSet, the ones that ended and were not joined included.
Held == {c \in Connections : conn[c] \in {"opening", "serving", "ended"}}

Alive == {c \in Connections : conn[c] \in {"opening", "serving"}}

ServeInit ==
    /\ shutdown = FALSE /\ spc = "off"
    /\ conn = [c \in Connections |-> "none"]
    /\ cancelled = FALSE /\ retry = RetryInitial /\ result = "none"

\* ShutdownHandle::shutdown, from any task; the channel keeps the value.
RequestShutdown ==
    /\ ~shutdown /\ shutdown' = TRUE
    /\ UNCHANGED server

-----------------------------------------------------------------------------
(* The arms of the select, which picks any that is ready. *)

Admits == Cardinality(Held) < MaxConnections

Accept(c) ==
    /\ spc = "select" /\ Admits /\ conn[c] = "none"
    /\ conn' = [conn EXCEPT ![c] = "opening"]
    /\ retry' = RetryInitial
    /\ UNCHANGED <<shutdown, spc, cancelled, result>>

\* A transient error: the loop sleeps for accept_retry and listens for shutdown only.
AcceptTransient ==
    /\ spc = "select" /\ Admits
    /\ spc' = "backoff"
    /\ UNCHANGED <<shutdown, conn, cancelled, retry, result>>

BackoffOver ==
    /\ spc = "backoff"
    /\ spc' = "select"
    /\ retry' = IF retry * 2 < RetryMax THEN retry * 2 ELSE RetryMax
    /\ UNCHANGED <<shutdown, conn, cancelled, result>>

\* The transport was closed: the open connections are left to end by themselves.
AcceptClosed ==
    /\ spc = "select" /\ Admits
    /\ spc' = "drain" /\ result' = "ok"
    /\ UNCHANGED <<shutdown, conn, cancelled, retry>>

AcceptFails ==
    /\ spc = "select" /\ Admits
    /\ spc' = "drain" /\ result' = "error" /\ cancelled' = TRUE
    /\ UNCHANGED <<shutdown, conn, retry>>

Join(c) ==
    /\ spc \in {"select", "drain", "rest"} /\ conn[c] = "ended"
    /\ conn' = [conn EXCEPT ![c] = "joined"]
    /\ UNCHANGED <<shutdown, spc, cancelled, retry, result>>

SeeShutdown ==
    /\ spc \in {"select", "backoff"} /\ shutdown
    /\ spc' = "drain" /\ result' = "ok" /\ cancelled' = TRUE
    /\ UNCHANGED <<shutdown, conn, retry>>

-----------------------------------------------------------------------------
(* The two drain loops. *)


\* The first drain loop still watches the signal: it covers a transport that closed.
DrainWatches == shutdown

DrainShutdown ==
    /\ spc = "drain" /\ Held # {} /\ DrainWatches
    /\ cancelled' = TRUE /\ spc' = "rest"
    /\ UNCHANGED <<shutdown, conn, retry, result>>

ReturnsAtOnce == TRUE

AllJoined == Held = {}

ServeReturns ==
    /\ spc \in {"drain", "rest"} /\ AllJoined
    /\ spc' = "returned"
    /\ UNCHANGED <<shutdown, conn, cancelled, retry, result>>

\* The transport's accept panics: the JoinSet is dropped, which aborts its tasks without
\* waiting for them.
ServePanics ==
    /\ spc = "select" /\ Admits
    /\ spc' = "returned" /\ result' = "panic" /\ cancelled' = TRUE
    /\ UNCHANGED <<shutdown, conn, retry>>

-----------------------------------------------------------------------------
(* A connection task. *)

\* open_scope: the factories of the connection scope run, and may fail.  Nothing but an
\* abort interrupts them.
ScopeOpened(c) ==
    /\ conn[c] = "opening"
    /\ conn' = [conn EXCEPT ![c] = "serving"]
    /\ UNCHANGED <<shutdown, spc, cancelled, retry, result>>

ScopeFails(c) ==
    /\ conn[c] = "opening"
    /\ conn' = [conn EXCEPT ![c] = "ended"]
    /\ UNCHANGED <<shutdown, spc, cancelled, retry, result>>

\* The peer leaves, the connection fails or its task panics.
ConnectionEnds(c) ==
    /\ conn[c] = "serving"
    /\ conn' = [conn EXCEPT ![c] = "ended"]
    /\ UNCHANGED <<shutdown, spc, cancelled, retry, result>>

\* The cancelled connection leaves its loop and ends, as does an aborted one.
ConnectionCancelled(c) ==
    /\ cancelled
    /\ conn[c] = "serving" \/ (conn[c] = "opening" /\ result = "panic")
    /\ conn' = [conn EXCEPT ![c] = "ended"]
    /\ UNCHANGED <<shutdown, spc, cancelled, retry, result>>

-----------------------------------------------------------------------------
AcceptArm == AcceptTransient \/ AcceptClosed \/ AcceptFails \/ ServePanics
                \/ \E c \in Connections : Accept(c)

ServeStep == BackoffOver \/ SeeShutdown \/ DrainShutdown \/ ServeReturns

ConnectionStep(c) ==
    Join(c) \/ ScopeOpened(c) \/ ScopeFails(c) \/ ConnectionEnds(c) \/ ConnectionCancelled(c)

ServeNext ==
    \/ AcceptArm \/ ServeStep \/ RequestShutdown
    \/ \E c \in Connections : ConnectionStep(c)
=============================================================================
