-------------------------- MODULE MemoryTransport --------------------------
(***************************************************************************)
(* The in-memory transport (transport/src/transports/memory.rs): one       *)
(* connection between a client and the daemon, its request channel, and    *)
(* each call's event and input channels. A channel closes when its other   *)
(* end is dropped; what was sent before can still be received.             *)
(***************************************************************************)
EXTENDS Integers, Sequences, FiniteSets

CONSTANTS
    Calls,          \* the calls the client opens
    Streaming,      \* those answered through a sink, with input items
    EventsCapacity, \* EVENTS_BUFFER, or open_with_capacity's argument
    RequestCapacity,\* the request channel's capacity
    InputCapacity,  \* the input channel's capacity
    MaxItems,       \* bound: items the server sends in a call
    MaxInputs       \* bound: items the client sends in a call

ASSUME MemoryAssumption ==
    /\ Streaming \subseteq Calls /\ EventsCapacity \in Nat \ {0}
    /\ RequestCapacity \in Nat \ {0} /\ InputCapacity \in Nat \ {0}
    /\ MaxItems \in Nat /\ MaxInputs \in Nat

VARIABLES
    memConn,     \* "off", "new", "offered", "accepted", or "refused"
    memHandle,   \* the client holds its MemoryConnectionHandle
    memServer,   \* the daemon holds the MemoryConnection (or could still accept it)
    memRequests, \* the request channel
    memCall,     \* call -> the client's side
    memWork,     \* call -> the daemon's side
    memEvents,   \* call -> its event channel
    memInput,    \* call -> its input channel
    memCancel,   \* the calls whose token fired
    memGot       \* call -> the events the client has received

memVars == <<memConn, memHandle, memServer, memRequests, memCall, memWork, memEvents, memInput,
             memCancel, memGot>>

NoInput == [open |-> FALSE, items |-> <<>>, sent |-> 0]
MemoryStart ==
    /\ memHandle = TRUE /\ memServer = TRUE /\ memRequests = <<>>
    /\ memCall = [c \in Calls |-> "new"] /\ memWork = [c \in Calls |-> "none"]
    /\ memEvents = [c \in Calls |-> <<>>] /\ memInput = [c \in Calls |-> NoInput]
    /\ memCancel = {} /\ memGot = [c \in Calls |-> <<>>]
MemoryInit == memConn = "new" /\ MemoryStart
MemoryOff == memConn = "off" /\ MemoryStart

(* connect, then the daemon's accept. *)
connect ==
    /\ memConn = "new"
    /\ memConn' = IF memServer THEN "offered" ELSE "refused"
    /\ UNCHANGED <<memHandle, memServer, memRequests, memCall, memWork, memEvents, memInput, memCancel, memGot>>

accept ==
    /\ memConn = "offered" /\ memServer /\ memConn' = "accepted"
    /\ UNCHANGED <<memHandle, memServer, memRequests, memCall, memWork, memEvents, memInput, memCancel, memGot>>

(* open_with_capacity: waits for room; Closed once the daemon dropped the
   connection. The channels are made before the frame is sent. *)
open(c) ==
    /\ memConn \in {"offered", "accepted"} /\ memHandle /\ memCall[c] = "new"
    /\ IF ~memServer
       THEN memCall' = [memCall EXCEPT ![c] = "Closed"] /\ UNCHANGED <<memRequests, memWork, memInput>>
       ELSE /\ Len(memRequests) < RequestCapacity
            /\ memRequests' = Append(memRequests, c)
            /\ memCall' = [memCall EXCEPT ![c] = "open"]
            /\ memWork' = [memWork EXCEPT ![c] = "queued"]
            /\ memInput' = [memInput EXCEPT ![c].open = c \in Streaming]
    /\ UNCHANGED <<memConn, memHandle, memServer, memEvents, memCancel, memGot>>

DropHandle ==
    /\ memConn # "off" /\ memHandle /\ memHandle' = FALSE
    /\ UNCHANGED <<memConn, memServer, memRequests, memCall, memWork, memEvents, memInput, memCancel, memGot>>

(* MemoryConnection::recv: the call and its responder go to a handler. *)
recv ==
    /\ memConn = "accepted" /\ memServer /\ memRequests # <<>>
    /\ memRequests' = Tail(memRequests)
    /\ memWork' = [memWork EXCEPT ![Head(memRequests)] = "running"]
    /\ UNCHANGED <<memConn, memHandle, memServer, memCall, memEvents, memInput, memCancel, memGot>>

(* Mutant of WorkAfterDrop: the frames stay in a channel nobody receives from. *)
KeepsQueued == memWork

(* A dropped frame drops its event sender, which ends the call. *)
WorkAfterDrop == [c \in Calls |-> IF memWork[c] = "queued" THEN "dropped" ELSE memWork[c]]

(* The daemon drops the connection: frames still queued are dropped with it. *)
DropConnection ==
    /\ memConn # "off" /\ memServer /\ memServer' = FALSE /\ memRequests' = <<>>
    /\ memWork' = WorkAfterDrop
    /\ UNCHANGED <<memConn, memHandle, memCall, memEvents, memInput, memCancel, memGot>>

Listening(c) == memCall[c] = "open"
Put(c, event) == memEvents' = [memEvents EXCEPT ![c] = Append(@, event)]

(* respond, finish and error consume the responder. A send waits for room, and fails when the client dropped the call. *)
Answer(c, event) ==
    /\ memWork[c] = "running"
    /\ IF Listening(c) THEN Len(memEvents[c]) < EventsCapacity /\ Put(c, event) ELSE UNCHANGED memEvents
    /\ memWork' = [memWork EXCEPT ![c] = "finished"]
    /\ UNCHANGED <<memConn, memHandle, memServer, memRequests, memCall, memInput, memCancel, memGot>>

respond(c) == c \notin Streaming /\ Answer(c, "Response")
finish(c) == c \in Streaming /\ Answer(c, "End")
error(c) == c \in Streaming /\ Answer(c, "Error")

SinkSend(c) ==
    /\ c \in Streaming /\ memWork[c] = "running" /\ Listening(c)
    /\ Len(memEvents[c]) < EventsCapacity /\ Len(memGot[c]) + Len(memEvents[c]) < MaxItems
    /\ Put(c, "Item")
    /\ UNCHANGED <<memConn, memHandle, memServer, memRequests, memCall, memWork, memInput, memCancel, memGot>>

(* A handler that was cancelled, panicked or dropped its responder. *)
DropResponder(c) ==
    /\ memWork[c] = "running" /\ memWork' = [memWork EXCEPT ![c] = "dropped"]
    /\ UNCHANGED <<memConn, memHandle, memServer, memRequests, memCall, memEvents, memInput, memCancel, memGot>>

(* The handler reads its request stream. *)
TakeInput(c) ==
    /\ memWork[c] = "running" /\ memInput[c].items # <<>>
    /\ memInput' = [memInput EXCEPT ![c].items = Tail(@)]
    /\ UNCHANGED <<memConn, memHandle, memServer, memRequests, memCall, memWork, memEvents, memCancel, memGot>>

(* MemoryCall: send, end_input, recv and response, cancel, drop. *)
SendInput(c) ==
    /\ Listening(c) /\ memInput[c].open /\ memWork[c] \in {"queued", "running"}
    /\ Len(memInput[c].items) < InputCapacity /\ memInput[c].sent < MaxInputs
    /\ memInput' = [memInput EXCEPT ![c].items = Append(@, "item"), ![c].sent = @ + 1]
    /\ UNCHANGED <<memConn, memHandle, memServer, memRequests, memCall, memWork, memEvents, memCancel, memGot>>

end_input(c) ==
    /\ Listening(c) /\ memInput[c].open /\ memInput' = [memInput EXCEPT ![c].open = FALSE]
    /\ UNCHANGED <<memConn, memHandle, memServer, memRequests, memCall, memWork, memEvents, memCancel, memGot>>

ClientRecv(c) ==
    /\ Listening(c)
    /\ \/ /\ memEvents[c] # <<>>
          /\ memGot' = [memGot EXCEPT ![c] = Append(@, Head(memEvents[c]))]
          /\ memEvents' = [memEvents EXCEPT ![c] = Tail(@)]
          /\ memCall' = IF c \in Streaming THEN memCall ELSE [memCall EXCEPT ![c] = "done"]
       \/ /\ memEvents[c] = <<>> /\ memWork[c] \in {"finished", "dropped"}
          /\ memCall' = [memCall EXCEPT ![c] = IF c \in Streaming THEN "done" ELSE "Closed"]
          /\ UNCHANGED <<memGot, memEvents>>
    /\ UNCHANGED <<memConn, memHandle, memServer, memRequests, memWork, memInput, memCancel>>

cancel(c) ==
    /\ Listening(c) /\ c \notin memCancel /\ memCancel' = memCancel \cup {c}
    /\ UNCHANGED <<memConn, memHandle, memServer, memRequests, memCall, memWork, memEvents, memInput, memGot>>

DropCall(c) ==
    /\ Listening(c) /\ memCall' = [memCall EXCEPT ![c] = "gone"]
    /\ memEvents' = [memEvents EXCEPT ![c] = <<>>]
    /\ memInput' = [memInput EXCEPT ![c].open = FALSE]
    /\ UNCHANGED <<memConn, memHandle, memServer, memRequests, memWork, memCancel, memGot>>

DaemonStep(c) == respond(c) \/ finish(c) \/ error(c) \/ DropResponder(c)

MemoryNext ==
    \/ connect \/ accept \/ DropHandle \/ recv \/ DropConnection
    \/ \E c \in Calls :
        \/ open(c) \/ DaemonStep(c) \/ SinkSend(c) \/ TakeInput(c)
        \/ SendInput(c) \/ end_input(c) \/ ClientRecv(c) \/ cancel(c) \/ DropCall(c)

(* The daemon accepts, receives until it stops, and every handler ends in some
   way (a daemon that stops drops its handlers); a client that waits is polled. *)
MemoryFairness ==
    /\ WF_memVars(accept) /\ WF_memVars(recv)
    /\ \A c \in Calls : WF_memVars(DaemonStep(c)) /\ WF_memVars(ClientRecv(c))
-----------------------------------------------------------------------------
(* Every call the client opened and waits for ends: with its events, or Closed
   when the daemon drops the connection or the handler, wherever the frame was. *)
MemoryCallsEnd ==
    \A c \in Calls : memCall[c] = "open" ~> memCall[c] # "open"
=============================================================================
